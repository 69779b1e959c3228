---------------------------- MODULE ContextQuery ----------------------------
(***************************************************************************)
(* `archex query` and `archex context` (api.query, api.context,            *)
(* context_facade.py): a request is routed to a token budget, answered     *)
(* from exact handles, from the whole repository or by retrieval, and the  *)
(* answer and its receipt are narrowed by the filters of the request.      *)
(*                                                                         *)
(* The index of one request is one tree: how it comes to be the current    *)
(* one is the subject of EnsureIndex.  What a retrieval leg finds is taken *)
(* from a set of hit lists.                                                *)
(***************************************************************************)
EXTENDS ContextAssembly

CONSTANTS
    ContextTrees,       \* indexed repositories: graph, chunks, weights of files
    Requests,           \* what is asked for, and how
    Legs(_, _),         \* hit lists a retrieval leg may return for a tree
    DefaultBudget,      \* of a request without intent and budget
    IntentBudget        \* of an intent

VARIABLE ask    \* the request that is being answered, and how far

Unasked == [step |-> "idle"]

ContextInit == ask = Unasked

\* resolve_context_route and the intent query() reads off the question: a pinned
\* intent gives its budget as if the caller had.
Route(r) ==
    IF r.budget # 0 THEN [budget |-> r.budget, explicit |-> TRUE]
    ELSE IF r.pinned THEN [budget |-> IntentBudget[r.about], explicit |-> TRUE]
    ELSE [budget |-> DefaultBudget, explicit |-> FALSE]

AskContext(tree, r) ==
    /\ ask.step = "idle"
    /\ ask' = [step |-> "routed", tree |-> tree, request |-> r, route |-> Route(r)]

\* Refresh brings the index up to date before it is read; skipping it leaves the
\* freshness unknown.  unparsed: the indexing of this very call met files it
\* could not parse.
Freshness(r) == IF r.refresh THEN "clean" ELSE "unknown"

\* What the receipt already lists, with what the index adds.
RefreshReceipt(receipt, bundle, freshness, unparsed) ==
    LET row(reason) == [file |-> NONE, chunk |-> NONE, reason |-> reason]
        stale == IF freshness = "clean" THEN <<>> ELSE <<row("stale_index")>>
        fails == IF unparsed THEN <<row("unsupported_grammar")>> ELSE <<>>
    IN  BuildReceipt(bundle, freshness, receipt.omitted, receipt.skipped \o stale \o fails)

\* kept: everything that was ranked, or fetched; reach: the files retrieval met;
\* a receipt made before the index is known is made again.
Answer(bundle, kept, reach, omitted, skipped, freshness, unparsed) ==
    /\ unparsed => freshness = "clean"
    /\ ask' = [step |-> "answered", tree |-> ask.tree, request |-> ask.request, route |-> ask.route,
               bundle |-> bundle, kept |-> kept, reach |-> reach, found |-> skipped,
               receipt |-> RefreshReceipt(BuildReceipt(bundle, "unknown", omitted, skipped),
                                          bundle, freshness, unparsed)]

\* The score 1.0, on the scale of FinalScore.
ExactScore == 10000

AllHits(chunks) == [i \in DOMAIN chunks |-> Hit(chunks[i], ExactScore)]

Nowhere == [seeds |-> <<>>, expanded |-> <<>>]

---------------------------------------------------------------------------
(* Exact handles.                                                          *)

\* A handle names a file, all of whose chunks it stands for, or one chunk; one
\* that names nothing is passed over.
ChunksForHandles(tree, handles) ==
    LET of(h) == SelectSeq(tree.chunks, LAMBDA c : IF h.kind = "file" THEN c.file = h.value
                                                   ELSE c.id = h.value)
    IN  FoldLeft(LAMBDA s, h : s \o SelectSeq(of(h), LAMBDA c : c \notin ToSet(s)), <<>>, handles)

\* The first chunk is returned whatever it costs.
FitHandleChunks(chunks, budget) ==
    FoldLeft(LAMBDA s, c : IF s # <<>> /\ ~ Fits(c, s, budget) THEN s ELSE Append(s, Hit(c, ExactScore)),
             <<>>, chunks)

FetchHandles(unparsed) ==
    /\ ask.step = "routed" /\ ask.request.handles # <<>>
    /\ LET chunks   == ChunksForHandles(ask.tree, ask.request.handles)
           included == FitHandleChunks(chunks, ask.route.budget)
           bundle   == [included |-> included, budget |-> ask.route.budget,
                        truncated |-> \/ Len(included) < Len(chunks)
                                      \/ Tokens(included) > ask.route.budget]
       IN  Answer(bundle, AllHits(chunks), Nowhere, {},
                  SkippedCandidates(AllHits(chunks), included, ask.route.budget), "clean", unparsed)

---------------------------------------------------------------------------
(* The whole repository, or retrieval.                                     *)

TreeTokens(tree) == Tokens(AllHits(tree.chunks))

ASSUME ContextAssumption ==
    /\ DefaultBudget \in Nat
    /\ \A r \in Requests : r.budget \in Nat /\ IntentBudget[r.about] \in Nat
    /\ \A tree \in ContextTrees : {"graph", "chunks"} \subseteq DOMAIN tree /\ TreeTokens(tree) \in Nat

\* All of a small repository, the budget for a large one, a ramp between.  In
\* whole numbers: the code's floats may come out one token lower.
DynamicBudget(total, userBudget, intentBudget) ==
    LET budget == IF intentBudget = NONE THEN userBudget ELSE Min({userBudget, intentBudget})
    IN  IF total <= budget THEN total
        ELSE IF total >= 3 * budget THEN budget
        ELSE (total * 2 * budget - (total - budget) * (total - budget)) \div (2 * budget)

BudgetFor(a, asked) ==
    DynamicBudget(TreeTokens(a.tree), asked,
                  IF a.route.explicit THEN NONE ELSE IntentBudget[a.request.about])

EffectiveBudget(a) == BudgetFor(a, a.route.budget)

WholeTreeFits(a) == EffectiveBudget(a) >= TreeTokens(a.tree)

PassThrough(unparsed) ==
    /\ ask.step = "routed" /\ ask.request.handles = <<>> /\ WholeTreeFits(ask)
    /\ LET all == AllHits(ask.tree.chunks)
       IN  Answer([included |-> all, budget |-> EffectiveBudget(ask), truncated |-> FALSE],
                  all, Nowhere, {}, <<>>, Freshness(ask.request), unparsed)

\* A stored index gives back the nodes of its edges only; with no edge and more
\* than one file, neighbours in a directory are linked.
SearchGraph(tree, cached) ==
    LET g == IF cached THEN FromEdges(tree.graph.edges) ELSE tree.graph
    IN  IF g.edges = {} /\ Len(g.nodes) > 1 THEN AddCoDirectoryEdges(g) ELSE g

\* The legs of a request search the same index; those that are off find nothing.
Retrieve(bm25, vector, splade, rareTerms, clear) ==
    /\ ask.step = "routed" /\ ask.request.handles = <<>> /\ ~ WholeTreeFits(ask)
    /\ ask' = [step |-> "retrieved", request |-> ask.request, route |-> ask.route,
               tree |-> [ask.tree EXCEPT !.graph = SearchGraph(ask.tree, ask.request.cached)],
               hits |-> Fuse(IF ask.request.bm25 THEN WithBoosts(ask.tree, bm25) ELSE <<>>,
                             vector, splade, rareTerms, clear)]

\* Nothing found, nothing returned.
ReturnNothing(unparsed) ==
    /\ ask.step = "retrieved" /\ SeedFiles(ask.hits) = {}
    /\ Answer([included |-> <<>>, budget |-> EffectiveBudget(ask), truncated |-> FALSE],
              <<>>, Nowhere, {}, <<>>, Freshness(ask.request), unparsed)

PerFile(r) == IF r.about = "commands" THEN CliMaxChunksPerFile ELSE 0

\* The ranked chunks of the files that were chosen.
OfTopFiles(ranked) ==
    LET r     == ask.request
        files == TopFiles(ask.tree, ranked, ask.hits.fused,
                          IF r.about = "commands" /\ r.api THEN "commands and api" ELSE r.about)
    IN  SelectSeq(ranked, LAMBDA h : FileOf(h) \in files)

AnswerPacked(added, kept, included, unparsed) ==
    LET skipped == SkippedCandidates(kept, included, EffectiveBudget(ask))
    IN  Answer([included |-> included, budget |-> EffectiveBudget(ask),
                truncated |-> Len(included) < Len(kept)],
               kept, [seeds |-> SeedOrder(ask.hits), expanded |-> added],
               OmittedEdges(ask.tree.graph, FilesIn(included), skipped), skipped,
               Freshness(ask.request), unparsed)

AnswerRanked(added, kept, unparsed) ==
    AnswerPacked(added, kept, Pack(kept, EffectiveBudget(ask), PerFile(ask.request)), unparsed)

\* reached: the files next to those that were hit; order: theirs, which breaks ties.
Assemble(reached, order, unparsed) ==
    /\ ask.step = "retrieved" /\ SeedFiles(ask.hits) # {}
    /\ LET perFile  == IF ask.request.about = "commands" THEN 1 ELSE MaxChunksPerFile
           expanded == Expand(ask.tree, ask.hits, reached, order, perFile, ask.request.architecture)
       IN  AnswerRanked(expanded.added, OfTopFiles(Rank(ask.tree, ask.hits, reached, expanded.candidates)), unparsed)

---------------------------------------------------------------------------
(* Filters, and the whole.                                                 *)

\* apply_context_filters: chunks of other files leave the bundle and their rows
\* move to the skipped ones; the verdict on completeness stays.
ReturnContext ==
    /\ ask.step = "answered"
    /\ LET out  == SelectSeq(ask.bundle.included, LAMBDA h : FileOf(h) \in ask.request.filtered)
           kept == SelectSeq(ask.bundle.included, LAMBDA h : FileOf(h) \notin ask.request.filtered)
           rows == [i \in DOMAIN out |-> [file |-> FileOf(out[i]), chunk |-> out[i].chunk.id,
                                          reason |-> "filter_excluded"]]
           rest == ask.receipt.skipped \o rows
       IN  IF out = <<>> THEN ask' = [ask EXCEPT !.step = "returned"]
           ELSE ask' = [ask EXCEPT
                    !.step = "returned", !.bundle.included = kept,
                    !.receipt = [@ EXCEPT !.consumed = Tokens(kept),
                                          !.returned = {c.id : c \in ChunksIn(kept)},
                                          !.returnedTotal = Len(kept),
                                          !.skipped = rest, !.skippedTotal = Len(rest)]]

ContextNext ==
    \/ \E tree \in ContextTrees, r \in Requests : AskContext(tree, r)
    \/ \E unparsed \in BOOLEAN :
        \/ FetchHandles(unparsed)
        \/ PassThrough(unparsed)
        \/ ReturnNothing(unparsed)
    \/ /\ ask.step = "routed"
       /\ \E bm25 \in Legs(ask.tree, "bm25"), vector \in Legs(ask.tree, "vector"),
             splade \in Legs(ask.tree, "splade"), rareTerms, clear \in BOOLEAN :
            Retrieve(bm25, vector, splade, rareTerms, clear)
    \/ /\ ask.step = "retrieved"
       /\ LET reached == Reached(ask.tree.graph, ask.hits)
          IN  \E order \in SetToSeqs(InReach(reached)), unparsed \in BOOLEAN : Assemble(reached, order, unparsed)
    \/ ReturnContext

ContextSpec == ContextInit /\ [][ContextNext]_ask

---------------------------------------------------------------------------
(* Properties.                                                             *)

Answered == ask.step \in {"answered", "returned"}

Retrieved(a) == a.request.handles = <<>> /\ ~ WholeTreeFits(a)

\* Whoever asks for more is not given less, also where the ramp ends: with
\* everything below, with the plain budget above (api.py _compute_dynamic_budget).
MoreForMore ==
    Answered => \A more \in ask.route.budget .. TreeTokens(ask.tree) :
                    ask.request.handles = <<>> => BudgetFor(ask, more) >= ask.receipt.requested

\* What the ramp keeps: it grants no more than half as much again, and no less to
\* whoever asks for more (api.py _compute_dynamic_budget).
BudgetFollowsRequest ==
    /\ Answered => 2 * ask.receipt.requested <= 3 * ask.route.budget
    /\ MoreForMore

\* What a bundle costs is what its receipt says, on every route and after filters,
\* and is within the budget the receipt says it was packed for; only a first exact
\* chunk may cost more; and that budget is never less for asking more.  Whether it
\* is the budget of the caller, BudgetIsCeiling says (context.py
\* _pack_ranked_chunks, receipt.py build_context_receipt).
BudgetHolds ==
    /\ MoreForMore
    /\ Answered =>
        LET cost == ask.receipt.consumed
        IN  /\ cost = Tokens(ask.bundle.included)
            /\ cost <= ask.receipt.requested \/ (ask.request.handles # <<>> /\ Len(ask.bundle.included) = 1)

\* What is retrieved for a caller who names a budget costs no more: it "is a hard
\* ceiling" (api.py _compute_dynamic_budget).  It does not hold: for a repository
\* of less than three times the budget the ramp packs more than the budget.
BudgetIsCeiling ==
    Answered /\ ask.request.budget # 0 /\ ask.request.handles = <<>> =>
        ask.receipt.consumed <= ask.request.budget

\* A receipt that says complete is of an index known to be current; whatever was
\* fetched, or ranked in a chosen file, was returned or taken by the filters;
\* and no edge of the graph leads from a file retrieval returned to another
\* (receipt.py _completion_status, context_facade.py apply_context_filters).
CompleteMeansAll ==
    ask.step = "returned" /\ ask.receipt.complete = "complete" =>
        LET rows   == {ask.receipt.skipped[i] : i \in DOMAIN ask.receipt.skipped}
            chunks == {c \in ToSet(ask.tree.chunks) :
                        c.id \in ask.receipt.returned \cup {row.chunk : row \in rows}}
            files  == {c.file : c \in chunks}
        IN  /\ ask.receipt.freshness = "clean"
            /\ \A row \in rows : row.reason = "filter_excluded"
            /\ ChunksIn(ask.kept) \subseteq chunks
            /\ Retrieved(ask) => \A e \in ask.tree.graph.edges : (e.source \in files) = (e.target \in files)

\* Each chunk that was left out was left out for the reason the receipt gives: it
\* does not fit, what is returned has its lines, or its score is low and half the
\* budget is used, or its file has all the chunks it may have (context.py
\* _pack_ranked_chunks, receipt.py _skip_reason).
SkippedForItsReason ==
    ask.step = "answered" =>
        LET used     == Tokens(ask.bundle.included)
            skipped  == {i \in DOMAIN ask.kept : ask.kept[i].chunk \notin ChunksIn(ask.bundle.included)}
            of(file) == {c \in ChunksIn(ask.bundle.included) : c.file = file}
            Right(h, reason) ==
                CASE reason = "over_budget" -> used + h.chunk.tokens > ask.bundle.budget
                  [] reason = "duplicate"   ->
                        \E c \in of(FileOf(h)) : Inside(h.chunk, c) \/ Inside(c, h.chunk)
                  [] OTHER ->
                        \/ 10 * h.score < 3 * ask.kept[1].score /\ 2 * used >= ask.bundle.budget - 1
                        \/ PerFile(ask.request) # 0 /\ Cardinality(of(FileOf(h))) = PerFile(ask.request)
        IN  \A i \in skipped : \E n \in DOMAIN ask.found :
                ask.found[n].chunk = ask.kept[i].chunk.id /\ Right(ask.kept[i], ask.found[n].reason)

\* The receipt counts every skipped candidate, also those it does not list
\* (docs/CONTEXT_RECEIPTS.md).  It does not hold: the receipt is made again from
\* the list of the first one, which is cut.
TotalsBeforeCaps == Answered => ask.receipt.skippedTotal >= Len(ask.found)

=============================================================================
