-------------------------- MODULE ContextAssembly --------------------------
(***************************************************************************)
(* From ranked hits to a bundle of code that fits a token budget           *)
(* (serve/context.py, index/fusion.py, receipt.py).  Hits of up to three   *)
(* retrieval legs are fused or not, files next to the hit ones in the      *)
(* graph are added, files are ranked, chunks are packed, and a receipt     *)
(* says what was left out.                                                 *)
(*                                                                         *)
(* Scores are integers.  What the text of a question and a chunk adds to a *)
(* score is a datum of the tree: extra (centrality, type coverage,         *)
(* cohesion), weight (support, entry and path factors, in percent), and    *)
(* whether the path of a file matches a term.                              *)
(***************************************************************************)
EXTENDS DependencyGraph

CONSTANTS
    MaxBoostedPerFile, MaxBoostedPerModule, \* chunks a matching file or module adds to the hits
    MinResults,         \* of both legs, for fusion
    MaxExpansionFiles,  \* files added from the graph
    MaxChunksPerFile,   \* chunks an added file brings along
    MaxFiles, FairMaxFiles, ClearMaxFiles,  \* files of a bundle, by spread of scores
    NarrowMaxFiles, CliApiMaxFiles,         \* of a question about commands or edges
    CliMaxChunksPerFile,                    \* of a question about commands
    MaxReceiptSkipped   \* skipped candidates a receipt lists

ASSUME AssemblyAssumption ==
    /\ MaxExpansionFiles \in Nat /\ MaxFiles \in Nat /\ MaxReceiptSkipped \in Nat \ {0}
    /\ ClearMaxFiles <= FairMaxFiles /\ FairMaxFiles <= MaxFiles

Hit(chunk, score) == [chunk |-> chunk, score |-> score]

\* sorted(..., reverse=True) is stable.
StableDescending(s, key(_)) ==
    FoldLeft(LAMBDA t, x :
                LET before == Cardinality({i \in DOMAIN t : key(t[i]) >= key(x)})
                IN  SubSeq(t, 1, before) \o <<x>> \o SubSeq(t, before + 1, Len(t)),
             <<>>, s)

Total(S, n(_)) == FoldSet(LAMBDA x, sum : sum + n(x), 0, S)

FileOf(hit) == hit.chunk.file

FilesIn(hits) == {FileOf(hits[i]) : i \in DOMAIN hits}

ChunksIn(hits) == {hits[i].chunk : i \in DOMAIN hits}

MaxScore(hits) == IF hits = <<>> THEN 1 ELSE Max({hits[i].score : i \in DOMAIN hits})

ScoreOf(hits, chunk) ==
    LET at == {i \in DOMAIN hits : hits[i].chunk = chunk}
    IN  IF at = {} THEN 0 ELSE hits[Max(at)].score

\* As a share of the best, in percent.
Normalized(hits, chunk) == (100 * ScoreOf(hits, chunk)) \div MaxScore(hits)

---------------------------------------------------------------------------
(* The bm25 leg.  Chunks whose path, symbol or module has a term of the    *)
(* question join its hits, each once, with a share of the best score.      *)

FirstOf(tree, InPart(_), known, most) ==
    LET new == SelectSeq(tree.chunks, LAMBDA c : InPart(c) /\ c \notin known)
    IN  SubSeq(new, 1, Min({most, Len(new)}))

Shares(chunks, share) == [i \in DOMAIN chunks |-> Hit(chunks[i], share)]

\* tree.pathShare: the files with a term in their path, best match first, with 85
\* percent for a name, 70 for a part of the path, 45 for less.
PathBoost(tree, known) ==
    FoldLeft(LAMBDA s, m : s \o Shares(FirstOf(tree, LAMBDA c : c.file = m[1], known, MaxBoostedPerFile), m[2]),
             <<>>, tree.pathShare)

\* tree.named: 60 for a chunk whose symbol is a term, 15 for one that has it in its name.
SymbolSeeds(tree, known) ==
    LET new == SelectSeq(tree.chunks, LAMBDA c : c.id \in DOMAIN tree.named /\ c \notin known)
    IN  [i \in DOMAIN new |-> Hit(new[i], tree.named[new[i].id])]

\* tree.modules: the files of the modules whose responsibility matches, best first.
ModuleBoost(tree, known) ==
    FoldLeft(LAMBDA s, n : s \o Shares(FirstOf(tree, LAMBDA c : c.file \in tree.modules[n], known \cup ChunksIn(s),
                                              MaxBoostedPerModule), 45 \div n),
             <<>>, [n \in DOMAIN tree.modules |-> n])

\* In hundredths.
WithBoosts(tree, raw) ==
    LET best == MaxScore(raw)
        add(hits, boosts) == hits \o [i \in DOMAIN boosts |-> Hit(boosts[i].chunk, best * boosts[i].score)]
        base == [i \in DOMAIN raw |-> Hit(raw[i].chunk, 100 * raw[i].score)]
        path == add(base, PathBoost(tree, ChunksIn(raw)))
        symbols == add(path, SymbolSeeds(tree, ChunksIn(path)))
    IN  add(symbols, ModuleBoost(tree, ChunksIn(symbols)))

---------------------------------------------------------------------------
(* Fusion.                                                                 *)

\* Jaccard index of the files of two legs, in percent.
Agreement(bm25, other) ==
    LET both == Cardinality(FilesIn(bm25) \cup FilesIn(other))
    IN  IF both = 0 THEN 0 ELSE (100 * Cardinality(FilesIn(bm25) \cap FilesIn(other))) \div both

\* rareTerms: the question has terms that tell files apart; clear: the bm25
\* scores are far apart.
ShouldFuse(bm25, other, rareTerms, clear) ==
    /\ Len(bm25) >= MinResults /\ Len(other) >= MinResults
    /\ ~ rareTerms \/ ~ clear \/ Agreement(bm25, other) <= 80

AdaptiveRsfWeights(agreement, clear) ==
    IF agreement > 70 THEN <<60, 40>>
    ELSE IF agreement < 30 THEN <<35, 65>>
    ELSE IF clear THEN <<50, 50>> ELSE <<40, 60>>

AdaptiveRsf(base, other, agreement, clear) ==
    LET w      == AdaptiveRsfWeights(agreement, clear)
        fused(c) == w[1] * Normalized(base, c) + w[2] * Normalized(other, c)
        chunks == FoldSet(LAMBDA c, s : Append(s, Hit(c, fused(c))), <<>>,
                          ChunksIn(base) \cup ChunksIn(other))
    IN  StableDescending(chunks, LAMBDA h : h.score)

\* With no bm25 hits the other leg is all there is and is fused in any case.
FuseLeg(base, bm25, other, rareTerms, clear) ==
    IF other = <<>> \/ ~ (ShouldFuse(bm25, other, rareTerms, clear) \/ bm25 = <<>>)
    THEN [fused |-> FALSE, hits |-> base, leg |-> <<>>]
    ELSE [fused |-> TRUE, leg |-> other,
          hits |-> AdaptiveRsf(base, other, Agreement(bm25, other), clear)]

Fuse(bm25, vector, splade, rareTerms, clear) ==
    LET v == FuseLeg(bm25, bm25, vector, rareTerms, clear)
        s == FuseLeg(v.hits, bm25, splade, rareTerms, clear)
    IN  [fused |-> v.fused \/ s.fused, hits |-> s.hits,
         bm25 |-> bm25, vector |-> v.leg, splade |-> s.leg]

---------------------------------------------------------------------------
(* Expansion along the graph.                                              *)

IsTestFile(file) == Dir(file) = "tests"

Effective(hit) == hit.score * (IF IsTestFile(FileOf(hit)) THEN 6 ELSE 10)

\* The vector leg only speaks for files the others do not have.
SeedFileScore(f, file) ==
    LET of(hits) == {Effective(hits[i]) : i \in {j \in DOMAIN hits : FileOf(hits[j]) = file}}
        sparse   == of(f.bm25) \cup of(f.splade)
        dense    == IF of(f.bm25) = {} THEN of(f.vector) ELSE {}
    IN  Max({0} \cup sparse \cup dense)

SeedFiles(f) == FilesIn(f.bm25) \cup FilesIn(f.vector) \cup FilesIn(f.splade)

\* In the order in which the legs found them.
SeedOrder(f) ==
    FoldLeft(LAMBDA s, h : IF FileOf(h) \in ToSet(s) THEN s ELSE Append(s, FileOf(h)), <<>>, f.bm25 \o f.vector \o f.splade)

QualifyingSeeds(f) ==
    LET best == Max({SeedFileScore(f, s) : s \in SeedFiles(f)})
    IN  {s \in SeedFiles(f) : 20 * SeedFileScore(f, s) >= best}

\* The pairs of a seed and a file next to it, once for each direction.
Neighbours(g, pairs) ==
    [targets   |-> {p \in pairs : p[2] \in ImportsOf(g, p[1])},
     importers |-> {p \in pairs : p[2] \in ImportedBy(g, p[1])}]

Reached(g, f) == Neighbours(g, QualifyingSeeds(f) \X (ToSet(g.nodes) \ SeedFiles(f)))

Sources(r, file) ==
    Cardinality({p \in r.targets : p[2] = file}) + Cardinality({p \in r.importers : p[2] = file})

\* In eighths: a dependency counts in full, an importer half, one whose path
\* has a term half as much again, one reached twice half as much again.
ExpansionPriority(f, r, file, matching) ==
    LET of(pairs) == Total({p \in pairs : p[2] = file}, LAMBDA p : SeedFileScore(f, p[1]))
        plain     == 4 * of(r.targets) + 2 * of(r.importers)
        matched   == IF file \in matching THEN (plain * 3) \div 2 ELSE plain
    IN  IF Sources(r, file) >= 2 THEN 3 * matched ELSE 2 * matched

IsHubFile(g, file) == Cardinality(ImportsOf(g, file)) + Cardinality(ImportedBy(g, file)) >= 4

LowSignal(tree, r, file) ==
    /\ IsHubFile(tree.graph, file) /\ Sources(r, file) <= 1
    /\ file \notin tree.entries \cup tree.matching

\* The first chunks of a file that are not candidates yet.
NewChunks(tree, candidates, file, perFile) ==
    LET new == SelectSeq(tree.chunks, LAMBDA c : c.file = file /\ c \notin ToSet(candidates))
    IN  SubSeq(new, 1, Min({perFile, Len(new)}))

AddFiles(tree, candidates, files, perFile, limit) ==
    FoldLeft(LAMBDA acc, file :
                LET new == NewChunks(tree, acc.candidates, file, perFile)
                IN  IF Len(acc.added) >= limit \/ IsTestFile(file) \/ new = <<>> THEN acc
                    ELSE [candidates |-> acc.candidates \o new, added |-> Append(acc.added, file)],
             [candidates |-> candidates, added |-> <<>>], files)

\* Dependencies of the files just added, best first.
SecondHop(tree, f, r, hop1) ==
    LET priority(file) == Max({ExpansionPriority(f, r, h, tree.matching) *
                                (IF file \in tree.matching THEN 3 ELSE 2) :
                                    h \in {x \in ToSet(hop1) : file \in ImportsOf(tree.graph, x)}})
        files == UNION {ImportsOf(tree.graph, h) : h \in ToSet(hop1)} \ (SeedFiles(f) \cup ToSet(hop1))
    IN  StableDescending(FoldSet(LAMBDA x, s : Append(s, x), <<>>, files), priority)

\* order: the files in reach, in the order in which ties are broken, which is
\* that of a set and may differ from one process to the next.
Expand(tree, f, r, order, perFile, architecture) ==
    LET start == FoldLeft(LAMBDA s, h : IF h.chunk \in ToSet(s) THEN s ELSE Append(s, h.chunk),
                          <<>>, f.bm25 \o f.vector \o f.splade)
        best  == StableDescending(order, LAMBDA x : ExpansionPriority(f, r, x, tree.matching))
        hop1  == AddFiles(tree, start, SelectSeq(best, LAMBDA x : ~ LowSignal(tree, r, x)),
                          perFile, MaxExpansionFiles)
        room  == MaxExpansionFiles - Len(hop1.added)
    IN  IF architecture /\ hop1.added # <<>> /\ room > 0
        THEN AddFiles(tree, hop1.candidates, SecondHop(tree, f, r, hop1.added), perFile, room)
        ELSE hop1

InReach(r) == {p[2] : p \in r.targets \cup r.importers}

---------------------------------------------------------------------------
(* Ranking.                                                                *)

\* What a file gets from the hits of its neighbours.
NeighborBoost(tree, f, r, file) ==
    LET best(s) == Max({0} \cup {Normalized(f.hits, c) : c \in {x \in ChunksIn(f.hits) : x.file = s}})
    IN  Max({0} \cup {(65 * best(p[1]) * (IF file \in tree.matching THEN 13 ELSE 10)) \div 1000 :
                        p \in {q \in r.targets : q[2] = file}}
                \cup {(35 * best(p[1])) \div 100 : p \in {q \in r.importers : q[2] = file}})

FinalScore(tree, f, r, chunk) ==
    LET own == Normalized(f.hits, chunk)
    IN  ((IF own # 0 THEN own ELSE NeighborBoost(tree, f, r, chunk.file)) + chunk.extra)
            * tree.weight[chunk.file]

Rank(tree, f, r, candidates) ==
    StableDescending([i \in DOMAIN candidates |-> Hit(candidates[i], FinalScore(tree, f, r, candidates[i]))],
                     LAMBDA h : h.score)

\* The best chunk of a file counts in full, each later one half of the one before.
FileScore(ranked, file) ==
    LET of == SelectSeq(ranked, LAMBDA h : FileOf(h) = file)
    IN  Total(DOMAIN of, LAMBDA i : (of[i].score * 16) \div 2^i)

SortedFiles(ranked) ==
    LET files == FoldLeft(LAMBDA s, h : IF FileOf(h) \in ToSet(s) THEN s ELSE Append(s, FileOf(h)),
                          <<>>, ranked)
    IN  StableDescending(files, LAMBDA x : FileScore(ranked, x))

\* Fewer files if the best stands out from the median.
AdaptiveMaxFiles(ranked, files) ==
    IF Len(files) < 3 THEN Min({MaxFiles, Len(files)})
    ELSE LET top    == FileScore(ranked, files[1])
             median == FileScore(ranked, files[(Len(files) \div 2) + 1])
         IN  IF median <= 0 THEN MaxFiles
             ELSE IF top > 3 * median THEN ClearMaxFiles
             ELSE IF top > 2 * median THEN FairMaxFiles ELSE MaxFiles

\* Files whose path matches come first, then by score down to a share of the best.
\* about: what the question is about, "commands", "commands and api", "edges" or "code".
TopFiles(tree, ranked, fused, about) ==
    LET files   == SortedFiles(ranked)
        most    == CASE about = "commands and api"      -> CliApiMaxFiles
                     [] about \in {"commands", "edges"} ->
                            Min({NarrowMaxFiles, AdaptiveMaxFiles(ranked, files)})
                     [] OTHER                           -> AdaptiveMaxFiles(ranked, files)
        cutoff(x) == 20 * FileScore(ranked, x) < (IF fused THEN 1 ELSE 2) * FileScore(ranked, files[1])
        aligned == SelectSeq(files, LAMBDA x : x \in tree.matching)
        \* The loop stops after it has added the one that reaches the limit.
        first   == SubSeq(aligned, 1, Min({Max({most, 1}), Len(aligned)}))
        others  == SelectSeq(files, LAMBDA x : x \notin ToSet(first) /\ ~ cutoff(x))
    IN  ToSet(first) \cup ToSet(SubSeq(others, 1, Min({Max({most - Len(first), 0}), Len(others)})))

---------------------------------------------------------------------------
(* Packing.                                                                *)

Inside(a, b) == b.lines[1] <= a.lines[1] /\ a.lines[2] <= b.lines[2]

\* Contains, or is contained in, a chunk with other lines.
Nested(chunk, included) ==
    \E h \in ToSet(included) :
        /\ FileOf(h) = chunk.file /\ h.chunk.lines # chunk.lines
        /\ Inside(chunk, h.chunk) \/ Inside(h.chunk, chunk)

Tokens(hits) == Total(DOMAIN hits, LAMBDA i : hits[i].chunk.tokens)

\* Mutant of Fits: the chunk itself is not counted.
FitsBefore(chunk, included, budget) == Tokens(included) <= budget

Fits(chunk, included, budget) == Tokens(included) + chunk.tokens <= budget

\* perFile: 0 for no limit.
TryInclude(included, h, budget, perFile) ==
    IF \/ h.chunk \in ChunksIn(included) \/ Nested(h.chunk, included)
       \/ perFile # 0 /\ Cardinality({i \in DOMAIN included : FileOf(included[i]) = FileOf(h)}) >= perFile
       \/ ~ Fits(h.chunk, included, budget)
    THEN included ELSE Append(included, h)

\* Mutant of EnoughPacked: half of the budget ends the packing.
HalfEnds(h, ranked, included, budget) == Tokens(included) >= budget \div 2

\* Scores are low and half of the budget is used.
EnoughPacked(h, ranked, included, budget) ==
    10 * h.score < 3 * ranked[1].score /\ Tokens(included) >= budget \div 2

\* ranked: the chunks of the chosen files.  The best chunk of each file, tests
\* last, then whatever else fits.
Pack(ranked, budget, perFile) ==
    LET best(file) == ranked[Min({i \in DOMAIN ranked : FileOf(ranked[i]) = file})]
        byBest  == StableDescending(SortedFiles(ranked), LAMBDA x : best(x).score)
        ordered == SelectSeq(byBest, LAMBDA x : ~ IsTestFile(x)) \o SelectSeq(byBest, IsTestFile)
        first   == FoldLeft(LAMBDA s, x : TryInclude(s, best(x), budget, perFile), <<>>, ordered)
        fill(acc, h) ==
            IF acc.stopped \/ EnoughPacked(h, ranked, acc.in, budget)
            THEN [acc EXCEPT !.stopped = TRUE]
            ELSE [acc EXCEPT !.in = TryInclude(acc.in, h, budget, perFile)]
    IN  FoldLeft(fill, [in |-> first, stopped |-> FALSE], ranked).in

---------------------------------------------------------------------------
(* The receipt.                                                            *)

SkipReason(chunk, included, budget) ==
    LET used == Tokens(included)
    IN  IF \E h \in ToSet(included) : FileOf(h) = chunk.file /\
                                       (Inside(chunk, h.chunk) \/ Inside(h.chunk, chunk))
        THEN "duplicate"
        ELSE IF used >= budget \/ used + chunk.tokens > budget THEN "over_budget"
        ELSE "below_threshold"

SkippedCandidates(ranked, included, budget) ==
    LET out == SelectSeq(ranked, LAMBDA h : h.chunk \notin ChunksIn(included))
    IN  [i \in DOMAIN out |-> [file |-> FileOf(out[i]), chunk |-> out[i].chunk.id,
                              reason |-> SkipReason(out[i].chunk, included, budget)]]

SkippedRank(s) ==
    CASE s.reason = "stale_index" -> 0 [] s.reason = "unsupported_grammar" -> 1
      [] s.reason = "over_budget" -> 2 [] s.reason = "duplicate" -> 4 [] OTHER -> 5

\* The most important ones are listed.
Listed(skipped) ==
    LET sorted == StableDescending(skipped, LAMBDA s : 10 - SkippedRank(s))
    IN  SubSeq(sorted, 1, Min({MaxReceiptSkipped, Len(sorted)}))

\* The last reason a chunk of the file was left out for counts.
OmittedFor(file, skipped) ==
    LET of == {i \in DOMAIN skipped : skipped[i].file = file}
    IN  IF of # {} /\ skipped[Max(of)].reason = "over_budget" THEN "over_budget"
        ELSE "below_threshold"

\* Edges with one end among the files of the bundle.
OmittedEdges(g, files, skipped) ==
    {[edge |-> e, reason |-> OmittedFor(IF e.source \in files THEN e.target ELSE e.source, skipped)] :
        e \in {x \in g.edges : (x.source \in files) # (x.target \in files)}}

\* Mutant of CompletionStatus: edges that lead out are forgotten.
CompletionWithoutEdges(bundle, freshness, omitted, listed) ==
    IF freshness # "clean" THEN "unknown"
    ELSE IF bundle.truncated \/ listed # <<>> THEN "incomplete" ELSE "complete"

CompletionStatus(bundle, freshness, omitted, listed) ==
    IF freshness # "clean" THEN "unknown"
    ELSE IF bundle.truncated \/ omitted # {} \/ listed # <<>> THEN "incomplete" ELSE "complete"

CompletionReason(bundle, freshness, omitted, listed) ==
    LET has(reason) == \E i \in DOMAIN listed : listed[i].reason = reason
    IN  CASE has("stale_index")         -> "stale_index"
          [] omitted # {}               -> "dependency_frontier_cut"
          [] has("over_budget")         -> "budget_exhausted"
          [] has("unsupported_grammar") -> "unsupported_grammar"
          [] has("duplicate")           -> "duplicate_suppressed"
          [] listed # <<>>              -> "unknown"
          [] bundle.truncated           -> "budget_exhausted"
          [] bundle.included = <<>>     -> "no_candidates"
          [] freshness = "unknown"      -> "unknown"
          [] OTHER                      -> "complete"

RecommendedAction(reason, omitted, listed) ==
    CASE reason = "dependency_frontier_cut" ->
            IF \E e \in omitted : e.reason = "over_budget" THEN "raise_budget"
            ELSE "fetch_skipped_candidate"
      [] reason = "stale_index"      -> "refresh_index"
      [] reason = "budget_exhausted" -> "raise_budget"
      [] listed # <<>>               -> "fetch_skipped_candidate"
      [] reason = "complete"         -> "use_bundle"
      [] OTHER                       -> "manual_review"

BuildReceipt(bundle, freshness, omitted, skipped) ==
    LET listed == Listed(skipped)
        reason == CompletionReason(bundle, freshness, omitted, listed)
    IN  [returned |-> {c.id : c \in ChunksIn(bundle.included)}, skipped |-> listed,
         returnedTotal |-> Len(bundle.included), skippedTotal |-> Len(skipped),
         consumed |-> Tokens(bundle.included), requested |-> bundle.budget,
         omitted |-> omitted, freshness |-> freshness,
         complete |-> CompletionStatus(bundle, freshness, omitted, listed),
         reason |-> reason, action |-> RecommendedAction(reason, omitted, listed)]

=============================================================================
