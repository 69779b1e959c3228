---------------------------- MODULE IndexStore ----------------------------
(***************************************************************************)
(* The SQLite index database of one repository: the tables that retrieval  *)
(* reads (chunks, chunks_fts, edges), the table that working-tree change   *)
(* detection reads (file_states) and the metadata rows that decide whether *)
(* the database may be reused.  Every operator maps a store to the store   *)
(* left behind by one committed transaction of index/store.py.             *)
(*                                                                         *)
(* A chunk id is derived from the path and the symbols of the text it was  *)
(* cut from, so it is modelled as the pair <<path, content>>: two versions *)
(* of a file stand for texts that share no symbol at the same line.  All   *)
(* chunks of one file version are one id.  Duplicate edge rows collapse    *)
(* when the graph is loaded, so edges is a set; duplicate FTS rows change  *)
(* the ranking, so fts counts rows, up to MaxRows.                         *)
(***************************************************************************)
EXTENDS Integers, FiniteSets

CONSTANTS
    Files,      \* repository-relative paths of source files
    Contents,   \* abstract file contents
    NONE,       \* absence: of a file, a state row, a database, an identity
    Imports,    \* Imports[c]: the paths a file with content c imports
    MaxRows     \* FTS rows per chunk id are counted up to this many

ASSUME StoreAssumption ==
    /\ NONE \notin Contents
    /\ Imports \in [Contents -> SUBSET Files]
    /\ IsFiniteSet(Files) /\ IsFiniteSet(Contents)
    /\ MaxRows \in Nat /\ MaxRows >= 2

ChunkId == Files \X Contents

\* A working tree, or any snapshot of one: what each path holds.
Tree == [Files -> Contents \cup {NONE}]

Present(t) == {f \in Files : t[f] # NONE}

\* The chunk ids and import edges that indexing path f of snapshot t yields;
\* an import resolves when the imported path is among the discovered files.
ChunksOf(t, f) == IF t[f] = NONE THEN {} ELSE {<<f, t[f]>>}

EdgesOf(t, f, discovered) ==
    IF t[f] = NONE THEN {} ELSE {<<f, g>> : g \in Imports[t[f]] \cap discovered}

InsertRow(n) == IF n < MaxRows THEN n + 1 ELSE n

---------------------------------------------------------------------------
(* Row operations.  st is a store record with at least the four tables.    *)

DeleteChunksForFiles(st, paths) ==
    LET gone == UNION {st.chunks[f] : f \in paths}
    IN  [st EXCEPT
            !.chunks = [f \in Files |-> IF f \in paths THEN {} ELSE st.chunks[f]],
            !.fts    = [i \in ChunkId |-> IF i \in gone THEN 0 ELSE st.fts[i]]]

\* Mutant of DeleteEdgesForFiles: only the edges that lead to the files go.
DeleteIncomingEdges(st, paths) ==
    [st EXCEPT !.edges = {e \in st.edges : e[2] \notin paths}]

DeleteEdgesForFiles(st, paths) ==
    [st EXCEPT !.edges = {e \in st.edges : e[1] \notin paths /\ e[2] \notin paths}]

DeleteFileStates(st, paths) ==
    [st EXCEPT !.states = [f \in Files |-> IF f \in paths THEN NONE ELSE st.states[f]]]

\* Mutant of UpsertFileStates: INSERT OR IGNORE.
InsertFileStates(st, paths, t) ==
    [st EXCEPT !.states =
        [f \in Files |-> IF f \in paths /\ t[f] # NONE /\ st.states[f] = NONE
                         THEN t[f] ELSE st.states[f]]]

\* Mutant of UpsertFileStates: UPDATE, which has no row to update for a new path.
ReplaceFileStates(st, paths, t) ==
    [st EXCEPT !.states =
        [f \in Files |-> IF f \in paths /\ t[f] # NONE /\ st.states[f] # NONE
                         THEN t[f] ELSE st.states[f]]]

\* INSERT OR REPLACE of the rows of the given paths, as they stand in snapshot t.
UpsertFileStates(st, paths, t) ==
    [st EXCEPT !.states =
        [f \in Files |-> IF f \in paths /\ t[f] # NONE THEN t[f] ELSE st.states[f]]]

\* file_states.file_path is a primary key: moving a row onto a taken path fails.
RenameConflict(st, r) == st.states[r[1]] # NONE /\ st.states[r[2]] # NONE

\* Rename r = <<old path, new path>>.  Chunk ids, and the FTS rows that name
\* them, keep the path they were cut from.
UpdateFilePaths(st, r) ==
    LET Moved(f) == IF f = r[1] THEN r[2] ELSE f
    IN  [st EXCEPT
            !.chunks = [f \in Files |->
                UNION {st.chunks[o] : o \in {x \in Files : Moved(x) = f}}],
            !.states = [f \in Files |->
                IF f = r[1] THEN NONE
                ELSE IF f = r[2] /\ st.states[r[1]] # NONE THEN st.states[r[1]]
                ELSE st.states[f]],
            !.edges  = {<<Moved(e[1]), Moved(e[2])>> : e \in st.edges}]

\* The one transaction that swaps the rows of re-read files: paths lose their
\* rows, then the new rows go in, each replacing the row that has its id.  read
\* is the snapshot the new rows come from.
DeleteAndInsertForFiles(st, paths, sources, read, discovered) ==
    LET cut == DeleteEdgesForFiles(DeleteChunksForFiles(st, paths), paths)
        new == UNION {ChunksOf(read, f) : f \in sources}
    IN  [cut EXCEPT
            !.chunks = [f \in Files |->
                (cut.chunks[f] \ new) \cup {i \in new : i[1] = f}],
            !.edges  = cut.edges \cup
                UNION {EdgesOf(read, f, discovered) : f \in sources}]

AllChunks(st) == UNION {st.chunks[f] : f \in Files}

HasData(st) == \E i \in ChunkId : st.fts[i] > 0

Bm25Build(st) ==
    [st EXCEPT !.fts = [i \in ChunkId |-> IF i \in AllChunks(st) THEN 1 ELSE 0]]

\* Insert only, no drop.
Bm25Update(st, sources, read) ==
    LET new == UNION {ChunksOf(read, f) : f \in sources}
    IN  [st EXCEPT !.fts =
            [i \in ChunkId |-> IF i \in new THEN InsertRow(st.fts[i]) ELSE st.fts[i]]]

---------------------------------------------------------------------------
(* Metadata that identifies what the rows were built from.                 *)

FileCount(st)  == Cardinality({f \in Files : st.chunks[f] # {}})
ChunkCount(st) == Cardinality(AllChunks(st))

ComputeGenerationId(st, cfg) ==
    [commit    |-> st.commit,
     signature |-> st.signature,
     files     |-> FileCount(st),
     chunks    |-> ChunkCount(st),
     config    |-> cfg]

FinalizeGenerationId(st, cfg) ==
    [st EXCEPT !.generation = ComputeGenerationId(st, cfg)]

\* A database as the schema script leaves it.
EmptyStore ==
    [chunks     |-> [f \in Files |-> {}],
     fts        |-> [i \in ChunkId |-> 0],
     edges      |-> {},
     states     |-> [f \in Files |-> NONE],
     commit     |-> NONE,
     signature  |-> NONE,
     generation |-> NONE,
     config     |-> NONE]

\* What a full index of snapshot t puts into an empty database.
FullRows(t) ==
    LET st == [EmptyStore EXCEPT
                !.chunks = [f \in Files |-> ChunksOf(t, f)],
                !.edges  = UNION {EdgesOf(t, f, Present(t)) : f \in Files}]
    IN  Bm25Build(st)

===========================================================================
