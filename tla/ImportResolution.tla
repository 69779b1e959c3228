-------------------------- MODULE ImportResolution --------------------------
(***************************************************************************)
(* Which discovered file an import leads to (parse/imports.py and the      *)
(* resolve_import of the adapters).                                        *)
(*                                                                         *)
(* A path is [dir, stem, ext], dir the sequence of directories.  An import *)
(* is [relative, up, anchor, parts, ext]: parts are the segments written,  *)
(* up the leading dots of a relative Python import, or else the ".."       *)
(* segments; anchor is crate, super or self in Rust; ext is NONE unless it *)
(* is written, and for the .js or .jsx of a module.  Names compare as they *)
(* are; what a name may end with is given.                                 *)
(***************************************************************************)
EXTENDS DependencyGraph

CONSTANT NameEndings       \* pairs of names the first of which ends with the second

SourcePrefixes == {"src", "lib", "source"}

FirstFit(s, Test(_)) == LET fitting == SelectSeq(s, Test) IN IF fitting = <<>> THEN NONE ELSE Head(fitting)

Path(dir, stem, ext) == [dir |-> dir, stem |-> stem, ext |-> ext]
PathAt(segments, ext) == Path(Front(segments), Last(segments), ext)
Among(path, paths) == IF path \in ToSet(paths) THEN path ELSE NONE

\* A module has the name of its file without extension; a package that of its directory.
ModuleKey(dir, path) == IF path.stem = "__init__" /\ path.ext = ".py" /\ dir # <<>> THEN dir ELSE Append(dir, path.stem)

\* A key keeps its place when a later file takes it.
Put(map, key, path) ==
    IF \E i \in DOMAIN map : map[i].module = key
    THEN [i \in DOMAIN map |-> IF map[i].module = key THEN [map[i] EXCEPT !.path = path] ELSE map[i]]
    ELSE Append(map, [module |-> key, path |-> path])

PutAbsent(map, key, path) ==
    IF \E i \in DOMAIN map : map[i].module = key THEN map ELSE Append(map, [module |-> key, path |-> path])

\* build_file_map: module keys, also without a source prefix, then every path
\* under itself (module <<>>).
FileMap(paths) ==
    LET keyed == FoldLeft(LAMBDA map, p :
                    LET whole == Put(map, ModuleKey(p.dir, p), p)
                    IN  IF p.dir # <<>> /\ Head(p.dir) \in SourcePrefixes
                        THEN PutAbsent(whole, ModuleKey(Tail(p.dir), p), p) ELSE whole, <<>>, paths)
    IN  keyed \o [i \in DOMAIN paths |-> [module |-> <<>>, path |-> paths[i]]]

AtKey(map, key) ==
    LET entry == FirstFit(map, LAMBDA e : key # <<>> /\ e.module = key) IN IF entry = NONE THEN NONE ELSE entry.path

InOrderOfMap(map) == [i \in DOMAIN map |-> map[i].path]

\* dirname of the top is the top.
Up(dir, n) == SubSeq(dir, 1, Max({0, Len(dir) - n}))

\* normpath of the importer's directory and the path that is written.
Joined(dir, imp) == IF imp.up > Len(dir) THEN <<"..">> \o imp.parts ELSE Up(dir, imp.up) \o imp.parts

TrailingMatch(parts, dir) ==
    Cardinality({n \in 1..Min({Len(parts), Len(dir)}) :
        \A k \in 0..(n - 1) : parts[Len(parts) - k] = dir[Len(dir) - k]})

\* The first path of those with the most trailing directories in common.
BestMatch(paths, parts) ==
    FoldLeft(LAMBDA best, p : IF best = NONE \/ TrailingMatch(parts, p.dir) > TrailingMatch(parts, best.dir) THEN p ELSE best,
             NONE, paths)

\* What lies on the path that is written: the text may begin inside a name.
EndsWith(path, segments) ==
    LET whole == Append(path.dir, path.stem)
        from == Len(whole) - Len(segments)
    IN  /\ from >= 0
        /\ \A i \in 2..Len(segments) : whole[from + i] = segments[i]
        /\ whole[from + 1] = segments[1] \/ <<whole[from + 1], segments[1]>> \in NameEndings

\* The first answer for a prefix of the path, the longest first.
LongestFirst(parts, Found(_)) ==
    FirstFit([i \in DOMAIN parts |-> Found(SubSeq(parts, 1, Len(parts) + 1 - i))], LAMBDA found : found # NONE)

---------------------------------------------------------------------------

\* Mutant of PythonRelative: every dot leads one directory up.
PythonRelativeAllDots(paths, from, imp) ==
    LET target == Up(from.dir, imp.up) \o imp.parts
    IN  FirstFit((IF imp.parts = <<>> THEN <<>> ELSE <<PathAt(target, ".py")>>) \o <<Path(target, "__init__", ".py")>>,
                LAMBDA p : p \in ToSet(paths))

\* One dot is the package of the importer.
PythonRelative(paths, from, imp) ==
    LET target == Up(from.dir, imp.up - 1) \o imp.parts
    IN  FirstFit((IF imp.parts = <<>> THEN <<>> ELSE <<PathAt(target, ".py")>>) \o <<Path(target, "__init__", ".py")>>,
                LAMBDA p : p \in ToSet(paths))

PythonImport(map, paths, from, imp) ==
    IF imp.relative THEN PythonRelative(paths, from, imp)
    ELSE LongestFirst(imp.parts, LAMBDA key : AtKey(map, key))

TsExtensions == <<".ts", ".tsx", ".js", ".jsx">>

\* A module of one segment is also looked up among the module keys.
TsImport(map, paths, from, imp) ==
    LET base == IF imp.relative THEN Joined(from.dir, imp) ELSE imp.parts
        files == [i \in 1..4 |-> PathAt(base, TsExtensions[i])] \o [i \in 1..4 |-> Path(base, "index", TsExtensions[i])]
        onPath == FirstFit(files, LAMBDA p : p \in ToSet(paths))
    IN  IF imp.ext # NONE THEN Among(PathAt(base, imp.ext), paths)
        ELSE IF imp.relative /\ onPath # NONE THEN onPath
        ELSE IF Len(base) = 1 THEN AtKey(map, base) ELSE NONE

\* A package is a directory: the first file in it, or in one of its last name.
GoImport(paths, imp) ==
    FirstFit(paths, LAMBDA p : p.dir # <<>> /\ (IsSuffix(imp.parts, p.dir) \/ Last(p.dir) = Last(imp.parts)))

\* What super and self lead to is no mod.rs.
RustImport(map, from, imp) ==
    LET inFile(segments, p) == p.ext = ".rs" /\ EndsWith(p, segments)
        inModule(segments, p) ==
            p.ext = ".rs" /\ (EndsWith(p, Append(segments, "mod")) \/ EndsWith(p, Append(segments, "lib")))
        within(dir) == LongestFirst(imp.parts, LAMBDA key :
                            FirstFit(InOrderOfMap(map), LAMBDA p : inFile(dir \o key, p)))
    IN  CASE imp.anchor = "crate" -> LongestFirst(imp.parts, LAMBDA key :
                            FirstFit(InOrderOfMap(map), LAMBDA p : inFile(key, p) \/ inModule(key, p)))
          [] imp.anchor = "super" -> within(Up(from.dir, 1))
          [] imp.anchor = "self" -> within(from.dir)
          [] OTHER -> NONE

\* resolve_jvm_import: a class by the name of its file, extension by extension.
JvmImport(paths, imp, extensions) ==
    LET named(ext) == SelectSeq(paths, LAMBDA p : p.stem = Last(imp.parts) /\ p.ext = ext)
    IN  IF Last(imp.parts) \in {"*", "_"} THEN NONE
        ELSE FirstFit([i \in DOMAIN extensions |-> BestMatch(named(extensions[i]), Front(imp.parts))],
                     LAMBDA found : found # NONE)

\* A class of a namespace needs a directory of it.
PhpImport(paths, imp) ==
    LET namespace == Front(imp.parts)
        near(p) == namespace = <<>> \/ TrailingMatch(namespace, p.dir) > 0
    IN  BestMatch(SelectSeq(paths, LAMBDA p : p.stem = Last(imp.parts) /\ p.ext = ".php" /\ near(p)), namespace)

\* A namespace is a directory, one of the platform's is external.
CsImport(paths, imp) ==
    IF Head(imp.parts) = "System" THEN NONE
    ELSE BestMatch(SelectSeq(paths, LAMBDA p : p.ext = ".cs" /\ TrailingMatch(imp.parts, p.dir) > 0), imp.parts)

\* The first file of any kind in a directory of that name, or of that name.
SwiftImport(paths, imp) ==
    IF imp.parts = <<"Foundation">> THEN NONE
    ELSE FirstFit(paths, LAMBDA p : Head(imp.parts) \in ToSet(p.dir) \/ (p.stem = Head(imp.parts) /\ p.ext = ".swift"))

\* require_relative names a path, require the end of one, or a module key.
RubyImport(map, paths, from, imp) ==
    IF imp.relative THEN Among(PathAt(Joined(from.dir, imp), ".rb"), paths)
    ELSE LET found == FirstFit(map, LAMBDA e :
                        \/ Len(imp.parts) = 1 /\ e.module = imp.parts
                        \/ e.path.ext = ".rb" /\ IsSuffix(imp.parts, Append(e.path.dir, e.path.stem)))
         IN  IF found = NONE THEN NONE ELSE found.path

\* A quoted include: next to the file, or else any file of that name.
CInclude(map, paths, from, imp) ==
    LET beside == Among(PathAt(Joined(from.dir, imp), imp.ext), paths)
    IN  IF ~imp.relative THEN NONE
        ELSE IF beside # NONE THEN beside
        ELSE FirstFit(InOrderOfMap(map), LAMBDA p : p.stem = Last(imp.parts) /\ p.ext = imp.ext)

ResolveImport(paths, from, language, imp) ==
    LET map == FileMap(paths)
    IN  CASE language = "python" -> PythonImport(map, paths, from, imp)
          [] language \in {"typescript", "javascript"} -> TsImport(map, paths, from, imp)
          [] language = "go" -> GoImport(paths, imp)
          [] language = "rust" -> RustImport(map, from, imp)
          [] language = "java" -> JvmImport(paths, imp, <<".java">>)
          [] language = "kotlin" -> JvmImport(paths, imp, <<".kt", ".java">>)
          [] language = "scala" -> JvmImport(paths, imp, <<".scala">>)
          [] language = "php" -> PhpImport(paths, imp)
          [] language = "csharp" -> CsImport(paths, imp)
          [] language = "swift" -> SwiftImport(paths, imp)
          [] language = "ruby" -> RubyImport(map, paths, from, imp)
          [] language \in {"c", "cpp"} -> CInclude(map, paths, from, imp)
          [] OTHER -> NONE

=============================================================================
