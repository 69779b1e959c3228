----------------------------- MODULE VectorLegs -----------------------------
(***************************************************************************)
(* The retrieval legs that search something derived from the chunks of an  *)
(* index: dense vectors, kept in a file beside the database (vector.py,    *)
(* cache.py vector_path), and SPLADE rows in tables of it (splade.py).     *)
(* Requests with different options share one database, and each writes or  *)
(* searches what its own options ask for (api.py _full_index,              *)
(* _try_delta_index, query).                                               *)
(*                                                                         *)
(* The chunks of the database are the subject of EnsureIndex: here a       *)
(* request is not interrupted and finds them written at once.  A chunk is  *)
(* an id and a text, so one that is edited keeps its id.  Scores, their    *)
(* order and the cut of a hit list are left out.                           *)
(***************************************************************************)
EXTENDS DependencyGraph

CONSTANTS
    Worktrees,          \* each a function from the ids of its chunks to their texts
    Embeddable,         \* ids of chunks in a known language
    Embedded(_, _),     \* what is embedded of a text, in a mode
    IndexConfigs        \* [vector, mode, embedder (NONE: none is named), quantized, splade]

VARIABLES
    worktree,   \* the files as they are
    database,   \* chunks, SPLADE rows, and the quantization its metadata names
    sidecars,   \* the vector file of each mode
    lookup,     \* the request that is being answered, and how far
    overdue     \* history: the modes whose vectors were not written since chunks changed

vectorVars == <<worktree, database, sidecars, lookup, overdue>>

VectorModes == {c.mode : c \in IndexConfigs}

NoDatabase == [chunks |-> NONE]

VectorsIdle ==
    /\ worktree = <<>> /\ database = NoDatabase
    /\ sidecars = [m \in VectorModes |-> NONE] /\ lookup = [step |-> "answered"]
    /\ overdue = {}

---------------------------------------------------------------------------
(* Vectors.                                                                *)

\* An encoded text.
Vector(text, embedder) == [of |-> text, by |-> embedder]

EmbeddingEligible(chunks) == Restrict(chunks, DOMAIN chunks \cap Embeddable)

Texts(chunks, mode) == [p \in DOMAIN EmbeddingEligible(chunks) |-> Embedded(mode, chunks[p])]

\* VectorIndex.build: a text with a known hash is not encoded again.
BuildVectors(chunks, config, cached) ==
    LET texts == Texts(chunks, config.mode)
    IN  [p \in DOMAIN texts |-> IF texts[p] \in DOMAIN cached THEN cached[texts[p]]
                                ELSE Vector(texts[p], config.embedder)]

\* VectorIndex.save.
Sidecar(vectors, chunks, config) ==
    [vectors |-> vectors, hashes |-> Texts(chunks, config.mode),
     embedder |-> config.embedder, quantized |-> config.quantized]

\* Mutant of Loads: whatever file is there is taken.
LoadsAny(file, config) == file # NONE

\* VectorIndex.load: the file of another embedder is refused; quantized or not,
\* it is read as it says.
Loads(file, config) == file # NONE /\ file.embedder = config.embedder

\* Only vectors that were stored as they are can be used again.
CachedVectors(file, config) ==
    IF ~ Loads(file, config) \/ file.quantized THEN <<>>
    ELSE [t \in Range(file.hashes) |->
            file.vectors[CHOOSE p \in DOMAIN file.hashes : file.hashes[p] = t]]

\* Nothing embeddable leaves no file.
SaveVectors(chunks, config, cached) ==
    sidecars' = [sidecars EXCEPT ![config.mode] =
        IF EmbeddingEligible(chunks) = <<>> THEN NONE
        ELSE Sidecar(BuildVectors(chunks, config, cached), chunks, config)]

Embeds(config) == config.vector /\ config.embedder # NONE

WrittenBy(config) == IF Embeds(config) THEN {config.mode} ELSE {}

---------------------------------------------------------------------------
(* The index.                                                              *)

Chunked == database # NoDatabase

\* Of the metadata compared, what concerns the legs.
SameIndexConfig(config) == database.quantized = config.quantized

Continue(step) == lookup' = [lookup EXCEPT !.step = step]

AskLegs(config, refresh) ==
    /\ lookup.step = "answered"
    /\ lookup' = [step |-> "asked", config |-> config, refresh |-> refresh]
    /\ UNCHANGED <<worktree, database, sidecars, overdue>>

EditWorktree(tree) ==
    /\ lookup.step = "answered" /\ worktree' = tree
    /\ UNCHANGED <<database, sidecars, lookup, overdue>>

UseIndex ==
    /\ lookup.step = "asked" /\ Chunked
    /\ lookup.refresh => SameIndexConfig(lookup.config) /\ database.chunks = worktree
    /\ Continue("search")
    /\ UNCHANGED <<worktree, database, sidecars, overdue>>

\* _build_splade_index
SpladeRows(config) == IF config.splade THEN EmbeddingEligible(worktree) ELSE <<>>

\* A new database; the vector file of another mode, or of a request without
\* vectors, stays.
BuildAll(quantized) ==
    /\ database' = [chunks |-> worktree, splade |-> SpladeRows(lookup.config), quantized |-> quantized]
    /\ IF Embeds(lookup.config) THEN SaveVectors(worktree, lookup.config, <<>>) ELSE UNCHANGED sidecars
    /\ overdue' = (IF database.chunks = worktree THEN overdue ELSE VectorModes) \ WrittenBy(lookup.config)
    /\ Continue("search")
    /\ UNCHANGED worktree

\* What cannot be updated, or has changed in too many places, is built anew.
FullIndex ==
    /\ lookup.step = "asked" /\ lookup.refresh
    /\ Chunked => ~ SameIndexConfig(lookup.config) \/ database.chunks # worktree
    /\ BuildAll(lookup.config.quantized)

\* A query that may not refresh builds an index where there is none, and does
\* not write the metadata that says with which options.
BuildForQuery ==
    /\ lookup.step = "asked" /\ ~ lookup.refresh /\ ~ Chunked
    /\ BuildAll(NONE)

\* apply_delta writes chunks and knows nothing of the legs.
ApplyDelta ==
    /\ lookup.step = "asked" /\ lookup.refresh /\ Chunked
    /\ SameIndexConfig(lookup.config) /\ database.chunks # worktree
    /\ database' = [database EXCEPT !.chunks = worktree]
    /\ overdue' = VectorModes
    /\ Continue(IF Embeds(lookup.config) THEN "embed" ELSE "search")
    /\ UNCHANGED <<worktree, sidecars>>

EmbedDelta ==
    /\ lookup.step = "embed"
    /\ SaveVectors(database.chunks, lookup.config,
                   CachedVectors(sidecars[lookup.config.mode], lookup.config))
    /\ overdue' = overdue \ WrittenBy(lookup.config)
    /\ Continue("search")
    /\ UNCHANGED <<worktree, database>>

---------------------------------------------------------------------------
(* The search.                                                             *)

Persisted(config) == config.vector /\ Loads(sidecars[config.mode], config)

\* VectorIndex.search: an id that is no longer of a chunk finds nothing.
FileVectors(config) ==
    LET vectors == sidecars[config.mode].vectors
    IN  Restrict(vectors, DOMAIN vectors \cap DOMAIN database.chunks)

\* VectorIndex.rerank.
CandidateVectors(config, bm25) == BuildVectors(Restrict(database.chunks, bm25), config, <<>>)

\* The vectors that are compared with that of the question: those of the file
\* when it loads, or of the BM25 hits, or of every chunk.
VectorLeg(config, bm25) ==
    IF Persisted(config) THEN FileVectors(config)
    ELSE IF Embeds(config) THEN CandidateVectors(config, IF bm25 = {} THEN DOMAIN database.chunks ELSE bm25)
    ELSE <<>>

\* Rows of chunks that are gone find nothing.
SpladeHits == Restrict(database.splade, DOMAIN database.splade \cap DOMAIN database.chunks)

SpladeLeg(config) ==
    IF ~ config.splade THEN <<>>
    ELSE IF database.splade = <<>> /\ EmbeddingEligible(database.chunks) # <<>> THEN NONE
    ELSE SpladeHits

\* A SPLADE leg without rows is an error, and nothing is answered.
SearchLegs(bm25) ==
    /\ lookup.step = "search"
    /\ lookup' = [step |-> "answered", config |-> lookup.config, refresh |-> lookup.refresh,
                  persisted |-> Persisted(lookup.config),
                  vectors |-> VectorLeg(lookup.config, bm25), splade |-> SpladeLeg(lookup.config)]
    /\ UNCHANGED <<worktree, database, sidecars, overdue>>

VectorsNext ==
    \/ \E config \in IndexConfigs, refresh \in BOOLEAN : AskLegs(config, refresh)
    \/ \E tree \in Worktrees : EditWorktree(tree)
    \/ UseIndex
    \/ FullIndex
    \/ BuildForQuery
    \/ ApplyDelta
    \/ EmbedDelta
    \/ lookup.step = "search" /\ \E bm25 \in SUBSET DOMAIN database.chunks : SearchLegs(bm25)

VectorsSpec == VectorsIdle /\ [][VectorsNext]_vectorVars

---------------------------------------------------------------------------
(* Properties.                                                             *)

Searched == lookup.step = "answered" /\ DOMAIN lookup # {"step"}

Current(config) == BuildVectors(database.chunks, config, <<>>)

\* Whichever requests have written the index, without vectors, in other modes or
\* for other embedders: a question is compared with the vectors of the text chunks
\* have, made by the embedder that encodes it, unless its vectors are those of a
\* file whose mode was left out when the chunks last changed; and a file that was
\* written since has one for each chunk that can be embedded (api.py
\* _try_delta_index, _vector_search_precomputed).
VectorsAreOfTheText ==
    Searched =>
        /\ ~ lookup.persisted => IsRestriction(lookup.vectors, Current(lookup.config))
        /\ lookup.persisted /\ lookup.config.mode \notin overdue => lookup.vectors = Current(lookup.config)

\* When a request finds nothing to update and every leg it asks for in place, what
\* these hold is of the chunks there are: an update of the index is of its "changed
\* chunks, edges, FTS5, vectors" (docs/SYSTEM_DESIGN.md 4.2).  It does not hold: a
\* delta writes vectors for its own request only, and SPLADE rows never, and
\* nobody does it later.
CurrentIndexHasItsLegs ==
    /\ lookup.step = "asked" /\ lookup.refresh /\ Chunked
    /\ SameIndexConfig(lookup.config) /\ database.chunks = worktree
    /\ SpladeLeg(lookup.config) # NONE
    =>
    /\ Persisted(lookup.config) => FileVectors(lookup.config) = Current(lookup.config)
    /\ lookup.config.splade => SpladeLeg(lookup.config) = EmbeddingEligible(database.chunks)

=============================================================================
