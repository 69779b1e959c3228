------------------------------- MODULE Scout -------------------------------
(***************************************************************************)
(* `archex scout` (scout.py, api.scout_with_bundle, receipt.py             *)
(* build_scout_receipt): the files of an answered query, the best symbols  *)
(* of each, modules and a sketch of the graph are mapped within a token    *)
(* cap, with a plan of the handles to fetch next.                          *)
(*                                                                         *)
(* A map is rendered to find out what it costs; what does not fit is       *)
(* trimmed, and the plan is made again from what is left, until nothing    *)
(* changes.  A handle is that of ContextQuery: a file or a chunk.          *)
(***************************************************************************)
EXTENDS ContextQuery

CONSTANTS
    ScoutCaps,          \* token budgets of a map
    ScoutFileLimit,     \* files of a map, by what the question is about
    SymbolsPerFile, ModuleLimit, GraphEdgeLimit,
    FetchLimits,        \* by what the question is about: handles (base, most), share
                        \* of the score in percent (mass), whole files (hybrid), files of
                        \* a direct query (narrow, fallback), share of mass (weak)
    RenderedTokens      \* what each part of a map costs

VARIABLE scout

NoScout == [step |-> "idle"]

ScoutInit == scout = NoScout

NoPlan == [handles |-> <<>>, reasons |-> <<>>, tokens |-> 0, total |-> 0,
           strategy |-> "chunk_first", guardrail |-> NONE]

ChunkHandle(c) == [kind |-> "chunk", value |-> c.id]
FileHandle(file) == [kind |-> "file", value |-> file]

Distinct(s) == FoldLeft(LAMBDA t, x : IF x \in ToSet(t) THEN t ELSE Append(t, x), <<>>, s)
First(s, n) == SubSeq(s, 1, Min({n, Len(s)}))

---------------------------------------------------------------------------
(* The parts of a map.                                                     *)

BundleFiles(bundle) == Distinct([i \in DOMAIN bundle.included |-> FileOf(bundle.included[i])])

ChunksOf(tree, file) == SelectSeq(tree.chunks, LAMBDA c : c.file = file)

\* In the order of their paths, which is that of the chunks.
FilesOfIndex(tree) == Distinct([i \in DOMAIN tree.chunks |-> tree.chunks[i].file])

\* Files of the bundle, then those retrieval met; all files when it met none.
CandidateFiles(a) ==
    LET met == SelectSeq(Distinct(BundleFiles(a.bundle) \o a.reach.seeds \o a.reach.expanded),
                         LAMBDA f : f \in ToSet(FilesOfIndex(a.tree)))
    IN  IF met = <<>> THEN FilesOfIndex(a.tree) ELSE met

\* The sum and a quarter of the best, and what its place is worth.
FileRankScore(a, files, i) ==
    LET scores == {j \in DOMAIN a.bundle.included : FileOf(a.bundle.included[j]) = files[i]}
        score(j) == a.bundle.included[j].score
    IN  Total(scores, score) + Max({0} \cup {score(j) : j \in scores}) \div 4 + ExactScore \div i

\* _rank_files
RankFiles(a) ==
    LET files == CandidateFiles(a)
    IN  StableDescending([i \in DOMAIN files |-> [path |-> files[i], score |-> FileRankScore(a, files, i)]],
                         LAMBDA f : f.score)

\* By score; standing: symbols before other chunks, public ones first.
SortedForScout(a, file) ==
    StableDescending(ChunksOf(a.tree, file), LAMBDA c : 10 * ScoreOf(a.bundle.included, c) - c.standing)

PrimaryChunk(a, file) == Head(SortedForScout(a, file))

NamedChunks(a, file) == SelectSeq(SortedForScout(a, file), LAMBDA c : c.standing < 3)

\* _top_symbols: of each file of the map its best ones, file by file in path order.
TopSymbols(a, files) ==
    LET paths == SelectSeq(FilesOfIndex(a.tree), LAMBDA p : \E i \in DOMAIN files : files[i].path = p)
    IN  FlattenSeq([i \in DOMAIN paths |-> First(NamedChunks(a, paths[i]), SymbolsPerFile)])

OmittedSymbols(a, files) ==
    Total(DOMAIN files, LAMBDA i : Max({0, Len(NamedChunks(a, files[i].path)) - SymbolsPerFile}))

\* _rank_modules: by the scores of their files in the map, and the number of these.
ScoutModules(a, files) ==
    LET of(module) == {i \in DOMAIN files : files[i].path \in module}
        score(module) == Total(of(module), LAMBDA i : files[i].score) + ExactScore * Cardinality(of(module))
    IN  StableDescending(a.tree.modules, score)

\* The stored edges of a file, and one to each chunk that has a name.
Neighborhood(a, file) ==
    LET imports == {e \in a.tree.graph.edges : e.kind = "imports" /\ file \in {e.source, e.target}}
        symbols == NamedChunks(a, file)
    IN  FoldSet(LAMBDA e, s : Append(s, <<e.source, e.target>>), <<>>, imports)
            \o [i \in DOMAIN symbols |-> <<file, symbols[i].id>>]

\* _graph_sketch: file by file, each edge once; the rest is counted, a file that
\* comes after the limit was reached as one.
GraphSketch(a, files) ==
    LET sketch(acc, file) ==
            LET shown == First(Neighborhood(a, file), GraphEdgeLimit)
                new   == SelectSeq(shown, LAMBDA e : e \notin ToSet(acc.edges))
                room  == GraphEdgeLimit - Len(acc.edges)
            IN  IF room <= 0 THEN [acc EXCEPT !.omitted = @ + 1]
                ELSE [edges   |-> acc.edges \o First(new, room),
                      omitted |-> acc.omitted + Len(new) - Len(First(new, room))
                                    + Len(Neighborhood(a, file)) - Len(shown)]
    IN  FoldLeft(LAMBDA acc, f : sketch(acc, f.path), [edges |-> <<>>, omitted |-> 0], files)

---------------------------------------------------------------------------
(* The plan (_build_fetch_plan).  Every file of the index has chunks, so   *)
(* each has a handle of its own.                                           *)

ScoreMass(files) == Total(DOMAIN files, LAMBDA i : files[i].score)

\* The share of the score that is reached, without division.
Below(mass, total, percent) == total = 0 \/ 100 * mass < percent * total

\* The best files, as many as the intent gives or until enough of the score is covered.
SelectFiles(files, limits) ==
    FoldLeft(LAMBDA s, f :
                IF \/ Len(s) < limits.base
                   \/ /\ Len(s) < limits.most
                      /\ Below(ScoreMass(s), ScoreMass(files), limits.mass)
                THEN Append(s, f) ELSE s, <<>>, files)

\* When that is thin, whole files of the direct answer.
HybridFiles(files, selected, direct, limits) ==
    LET paths == {files[i].path : i \in DOMAIN files} \ {selected[i].path : i \in DOMAIN selected}
        extra == First(SelectSeq(direct, LAMBDA p : p \in paths), limits.hybrid)
    IN  IF ~ Below(ScoreMass(selected), ScoreMass(files), limits.mass) THEN <<>>
        ELSE [i \in DOMAIN extra |-> files[CHOOSE j \in DOMAIN files : files[j].path = extra[i]]]

FileTokens(a, file) == Tokens(AllHits(ChunksOf(a.tree, file)))

\* One file in so many is right, against the share of the score per handle.
DirectIsAsPrecise(files, taken, direct) ==
    LET mass == ScoreMass(taken)
    IN  mass = 0 \/ (direct # <<>> /\ ScoreMass(files) * Len(taken) >= mass * Len(direct))

\* Why a direct query is the better step, if it is: the first reason that applies.
Guardrail(a, files, taken, direct, total, limits) ==
    LET weak == Below(100 * ScoreMass(taken), ScoreMass(files), limits.mass * limits.weak)
    IN  CASE taken = <<>>                                         -> "no_precise_fetch_handles"
          [] direct # <<>> /\ Len(direct) <= limits.narrow         -> "direct_query_already_narrow"
          [] weak /\ Len(direct) <= limits.fallback                -> "projected_coverage_weak"
          [] Tokens(a.bundle.included) > 0 /\ total >= Tokens(a.bundle.included) ->
                "estimated_total_not_better_than_query"
          [] DirectIsAsPrecise(files, taken, direct) /\ Len(direct) <= limits.fallback ->
                "direct_query_precision_proxy"
          [] OTHER                                                 -> NONE

FetchPlan(a, files, scoutTokens) ==
    LET limits   == FetchLimits[a.request.about]
        direct   == BundleFiles(a.bundle)
        selected == SelectFiles(files, limits)
        hybrid   == HybridFiles(files, selected, direct, limits)
        taken    == selected \o hybrid
        tokens   == Total(DOMAIN selected, LAMBDA i : PrimaryChunk(a, selected[i].path).tokens)
                        + Total(DOMAIN hybrid, LAMBDA i : FileTokens(a, hybrid[i].path))
        reason   == Guardrail(a, files, taken, direct, scoutTokens + tokens, limits)
        of(f)    == IF f \in ToSet(selected) THEN "selected_handle"
                    ELSE IF f \in ToSet(hybrid) THEN "selected_hybrid_file" ELSE "pruned_by_cap"
    IN  [handles   |-> [i \in DOMAIN selected |-> ChunkHandle(PrimaryChunk(a, selected[i].path))]
                            \o [i \in DOMAIN hybrid |-> FileHandle(hybrid[i].path)],
         reasons   |-> [i \in DOMAIN files |-> [path |-> files[i].path, reason |-> of(files[i])]],
         tokens    |-> tokens,
         total     |-> scoutTokens + tokens,
         strategy  |-> IF reason # NONE THEN "direct_query"
                       ELSE IF hybrid # <<>> THEN "hybrid_fetch" ELSE "chunk_first",
         guardrail |-> IF reason = NONE /\ hybrid # <<>> THEN "projected_coverage_thin" ELSE reason]

---------------------------------------------------------------------------
(* Within the cap.                                                         *)

\* render_scout without the receipt.
RenderedCost(m) ==
    RenderedTokens.base + Len(m.files) * RenderedTokens.file + Len(m.symbols) * RenderedTokens.symbol
        + Len(m.modules) * RenderedTokens.module + Len(m.graph) * RenderedTokens.edge
        + Len(m.plan.handles) * RenderedTokens.handle
        + (IF m.plan.guardrail # NONE THEN RenderedTokens.guardrail ELSE 0)
        + (IF m.truncated THEN RenderedTokens.omitted ELSE 0)

\* _scout_shape
Shape(m) == <<Len(m.files), Len(m.modules), Len(m.symbols), Len(m.graph), m.plan.reasons>>

IsEmptyMap(m) == m.files = <<>> /\ m.modules = <<>> /\ m.symbols = <<>> /\ m.graph = <<>>

\* scout_with_bundle: the query has no handles, filters or budget of its own.
MapRepository ==
    /\ scout = NoScout /\ ask.step = "returned"
    /\ ask.request.handles = <<>> /\ ask.request.filtered = {}
    /\ ask.request.budget = 0 /\ ~ ask.request.pinned
    /\ LET ranked  == RankFiles(ask)
           files   == First(ranked, ScoutFileLimit[ask.request.about])
           modules == ScoutModules(ask, files)
           sketch  == GraphSketch(ask, files)
       IN  \E cap \in ScoutCaps :
            scout' = [step |-> "plan", cap |-> cap, files |-> files, symbols |-> TopSymbols(ask, files),
                      modules |-> First(modules, ModuleLimit), graph |-> sketch.edges, plan |-> NoPlan,
                      tokens |-> 0, truncated |-> FALSE, previous |-> <<>>, receipt |-> NONE,
                      omitted |-> [files   |-> Len(ranked) - Len(files),
                                   symbols |-> OmittedSymbols(ask, files),
                                   modules |-> Max({0, Len(modules) - ModuleLimit}),
                                   graph   |-> sketch.omitted]]
    /\ UNCHANGED ask

\* _finalize_scout_result: a round begins.
BuildPlan ==
    /\ scout.step = "plan"
    /\ scout' = [scout EXCEPT !.step = "fit", !.previous = Shape(scout), !.plan = FetchPlan(ask, scout.files, scout.tokens)]
    /\ UNCHANGED ask

\* enforce_scout_token_budget: the least specific part goes first, the plan last.
Trim ==
    /\ scout.step = "fit" /\ RenderedCost(scout) > scout.cap
    /\ LET cut == [scout EXCEPT !.truncated = TRUE, !.tokens = RenderedCost(scout)]
       IN  scout' =
            IF scout.graph # <<>> THEN [cut EXCEPT !.graph = Front(@), !.omitted.graph = @ + 1]
            ELSE IF scout.symbols # <<>> THEN [cut EXCEPT !.symbols = Front(@), !.omitted.symbols = @ + 1]
            ELSE IF scout.modules # <<>> THEN [cut EXCEPT !.modules = Front(@), !.omitted.modules = @ + 1]
            ELSE IF scout.files # <<>> THEN [cut EXCEPT !.files = Front(@), !.omitted.files = @ + 1]
            ELSE IF scout.plan # NoPlan THEN [cut EXCEPT !.plan = NoPlan]
            ELSE [cut EXCEPT !.step = "error"]
    /\ UNCHANGED ask

\* The plan of what is left, an empty one of nothing.
Replanned(m) ==
    IF IsEmptyMap(m) THEN [m EXCEPT !.plan = NoPlan]
    ELSE [m EXCEPT !.plan = FetchPlan(ask, m.files, m.tokens)]

\* Mutant of Settled: one round is enough.
SettledAtOnce(m, previous) == TRUE

\* Nothing was trimmed and no file is treated in another way.
Settled(m, previous) == IsEmptyMap(m) \/ Shape(m) = previous

\* Another round begins unless nothing changed.
AfterRound(fitted) ==
    [fitted EXCEPT !.step = IF Settled(fitted, fitted.previous) THEN "mapped" ELSE "plan",
                   !.tokens = IF IsEmptyMap(fitted) THEN RenderedCost(fitted) ELSE @]

\* It fits: the plan is made again.
EndRound ==
    /\ scout.step = "fit" /\ RenderedCost(scout) <= scout.cap
    /\ scout' = AfterRound(Replanned([scout EXCEPT !.tokens = RenderedCost(scout)]))
    /\ UNCHANGED ask

\* _selected_scout_file_paths
SelectedPaths(m) ==
    {m.plan.reasons[i].path : i \in {j \in DOMAIN m.plan.reasons : m.plan.reasons[j].reason # "pruned_by_cap"}}

\* The skipped candidates of the direct answer and the files the plan leaves out.
ScoutReceipt(m, direct) ==
    LET skipped == SelectSeq(direct.skipped, LAMBDA row : row.file \notin SelectedPaths(m))
        pruned  == SelectSeq(m.plan.reasons, LAMBDA r : r.path \notin SelectedPaths(m))
        merged  == Listed(skipped \o [i \in DOMAIN pruned |->
                        [file |-> pruned[i].path, chunk |-> NONE, reason |-> "over_budget"]])
    IN  [requested |-> m.cap, consumed |-> m.tokens, skipped |-> merged,
         skippedTotal |-> Len(skipped) + Len(pruned),
         complete |-> IF merged # <<>> THEN "incomplete" ELSE direct.complete]

AttachReceipt ==
    /\ scout.step = "mapped"
    /\ scout' = [scout EXCEPT !.step = "done", !.receipt = ScoutReceipt(scout, ask.receipt)]
    /\ UNCHANGED ask

ScoutNext == MapRepository \/ BuildPlan \/ Trim \/ EndRound \/ AttachReceipt

---------------------------------------------------------------------------
(* Properties.                                                             *)

\* What the map recommends is what a caller gets who follows it: every handle is
\* of a file the map still shows, fetching the handles costs what the plan says,
\* the map is within its cap although the plan, which is part of it, is made again
\* after it was measured, and whatever was trimmed is counted as omitted (scout.py _finalize_scout_result,
\* _build_fetch_plan, enforce_scout_token_budget; api.py _chunks_for_scout_handles).
PlanIsWhatIsFetched ==
    scout.step \in {"mapped", "done"} =>
        LET fetched == ChunksForHandles(ask.tree, scout.plan.handles)
            shown   == {scout.files[i].path : i \in DOMAIN scout.files}
        IN  /\ {fetched[i].file : i \in DOMAIN fetched} \subseteq shown
            /\ Tokens(AllHits(fetched)) = scout.plan.tokens
            /\ RenderedCost(scout) <= scout.cap
            /\ Len(scout.files) + scout.omitted.files = Len(CandidateFiles(ask))

=============================================================================
