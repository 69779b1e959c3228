------------------------- MODULE EfficiencyPacking -------------------------
(***************************************************************************)
(* The lanes that pack an assembled bundle again (serve/packing.py,        *)
(* serve/compression.py, serve/modality.py and their use by the benchmark  *)
(* strategies): regions are included, compressed, elided to an anchor or   *)
(* skipped, optionally thinned for diversity, and the bundle is rewritten. *)
(*                                                                         *)
(* A bundle is [regions, seeds, expanded, budget, debugging, aspects]; a   *)
(* region, in the order of its rank, is [id, file, score, tokens, named,   *)
(* evidence, admitted, code, words, forms]: evidence is why its receipt    *)
(* protects it, forms[m] the tokens mode m would leave, if m applies.      *)
(* Scores are percentages; packing values are in hundredths.               *)
(***************************************************************************)
EXTENDS DependencyGraph, TLC

CONSTANTS
    Bundles,
    TightMaxTokens, StandardMaxTokens,  \* upper ends of the budget tiers
    LargeTokenCount,                    \* of a region that may waste the budget
    AnchorTokens                        \* of the marker that replaces an elided body

VARIABLE packing

NoPacking == [step |-> "idle"]

BudgetTier(budget) ==
    IF budget <= TightMaxTokens THEN "tight" ELSE IF budget <= StandardMaxTokens THEN "standard" ELSE "large"

---------------------------------------------------------------------------
(* What may happen to one region.                                          *)

\* In the order in which equal results are preferred.
Modes == <<"structural", "literal", "json_log", "slimming">>
LossRisk(mode) == IF mode \in {"structural", "slimming"} THEN "low" ELSE "medium"

\* Structure is elided from code only, data modes apply to what is not code.
Applies(r, mode, protect) ==
    CASE mode = "structural" -> r.code /\ ~protect
      [] mode \in {"literal", "json_log"} -> ~r.code
      [] OTHER -> TRUE

\* compress_region: the smallest form that is smaller than the original.
CompressRegion(r, required, protect) ==
    LET smaller == SelectSeq(Modes, LAMBDA m : m \in DOMAIN r.forms /\ Applies(r, m, protect)
                                              /\ r.forms[m] < r.tokens)
        best == FoldLeft(LAMBDA b, m : IF r.forms[m] < r.forms[b] THEN m ELSE b, Head(smaller), smaller)
    IN  IF required \/ smaller = <<>> THEN NONE
        ELSE [mode |-> best, tokens |-> r.forms[best], risk |-> LossRisk(best)]

\* _passthrough_required: what lies only on the graph frontier is optional.
PassthroughRequired(bundle, i, top) ==
    LET r == bundle.regions[i]
        frontier == r.file \in bundle.expanded /\ r.file \notin bundle.seeds
    IN  ~frontier /\ (i = 1 \/ r.file \in bundle.seeds \/ (top > 0 /\ 10 * r.score >= 6 * top))

\* The score others are compared with; the context candidate (keepSeeds FALSE)
\* leaves out what was admitted on another scale.
TopScore(bundle, keepSeeds) ==
    Max({0} \cup {r.score : r \in {x \in ToSet(bundle.regions) : keepSeeds \/ ~x.admitted}})

IsDirect(bundle, keepSeeds, i) ==
    LET r == bundle.regions[i]
        top == TopScore(bundle, keepSeeds)
    IN  \/ r.evidence # NONE
        \/ keepSeeds /\ PassthroughRequired(bundle, i, top)
        \/ ~keepSeeds /\ (i = 1 \/ (top > 0 /\ 10 * r.score >= 6 * top))

\* _prepare_packing: the signals of a region and the tokens of its forms.
Prepare(bundle, keepSeeds) ==
    LET top == TopScore(bundle, keepSeeds)
        direct(i) == IsDirect(bundle, keepSeeds, i)
        candidate(i) ==
            LET r == bundle.regions[i]
                shape == CompressRegion(r, direct(i), bundle.debugging)
                offered == shape # NONE /\ ~(~keepSeeds /\ shape.mode = "structural")
                near == direct(i) \/ (keepSeeds /\ r.file \in bundle.seeds)
            IN  [id |-> r.id, file |-> r.file, tokens |-> r.tokens, direct |-> direct(i), words |-> r.words,
                 score |-> IF top > 0 THEN (100 * r.score) \div top ELSE 0,
                 distance |-> IF near THEN 0 ELSE 1,
                 wholeFile |-> ~r.named,
                 evidence |-> Cardinality({j \in DOMAIN bundle.regions :
                                    bundle.regions[j].file = r.file /\ direct(j)}),
                 lowRisk |-> offered /\ shape.risk = "low" /\ ~bundle.debugging,
                 compressed |-> IF offered THEN shape.tokens ELSE r.tokens]
    IN  [i \in DOMAIN bundle.regions |-> candidate(i)]

IsLowValue(c) == c.tokens >= LargeTokenCount /\ c.score < 25 /\ c.distance >= 1

\* _provisional_decision
Provisional(c, tier) ==
    IF c.direct THEN "include"
    ELSE IF c.wholeFile /\ ~(tier = "large" \/ c.evidence >= 2) THEN (IF c.lowRisk THEN "compress" ELSE "elide")
    ELSE IF IsLowValue(c) THEN (IF c.lowRisk THEN "compress" ELSE "skip")
    ELSE "include"

\* Relevance for a thousand tokens, less for the distance in the graph.
PackingValue(c) ==
    (IF c.tokens = 0 THEN 0 ELSE (1000 * c.score) \div c.tokens)
    - c.distance * 3500 - (IF IsLowValue(c) THEN 3000 ELSE 0)

PackedBefore(c, d) ==
    IF c.direct # d.direct THEN c.direct
    ELSE IF PackingValue(c) # PackingValue(d) THEN PackingValue(c) > PackingValue(d)
    ELSE IF c.distance # d.distance THEN c.distance < d.distance
    ELSE c.id < d.id

Cost(c, decision) ==
    CASE decision = "include" -> c.tokens
      [] decision = "compress" -> c.compressed
      [] decision = "elide" -> IF AnchorTokens < c.tokens THEN AnchorTokens ELSE c.tokens
      [] OTHER -> 0

CompressViable(c) == ~c.direct /\ c.lowRisk /\ c.compressed < c.tokens

Decisions == <<"include", "compress", "elide", "skip">>

\* Mutant of FitDecision: a direct region that does not fit is skipped like any other.
FitOrSkip(c, start, remaining) ==
    LET from == CHOOSE i \in 1..4 : Decisions[i] = start
        chain == SelectSeq(SubSeq(Decisions, from, 4), LAMBDA d : d # "compress" \/ CompressViable(c))
    IN  Head(SelectSeq(chain, LAMBDA d : d = "skip" \/ Cost(c, d) <= remaining))

\* The richest representation that fits; a direct region keeps at least an anchor.
FitDecision(c, start, remaining) ==
    LET from == CHOOSE i \in 1..4 : Decisions[i] = start
        chain == SelectSeq(SubSeq(Decisions, from, 4),
                           LAMBDA d : (d = "compress" => CompressViable(c)) /\ (d = "skip" => ~c.direct))
        fitting == SelectSeq(chain, LAMBDA d : d = "skip" \/ Cost(c, d) <= remaining)
    IN  IF fitting # <<>> THEN Head(fitting) ELSE Last(chain)

PackEfficiently(candidates, budget) ==
    FoldLeft(LAMBDA plan, c :
                LET d == FitDecision(c, Provisional(c, BudgetTier(budget)), budget - plan.used)
                IN  [used |-> plan.used + Cost(c, d),
                     regions |-> Append(plan.regions, [candidate |-> c, decision |-> d, charged |-> Cost(c, d)])],
             [used |-> 0, regions |-> <<>>], SortSeq(candidates, PackedBefore))

\* A Jaccard similarity of 0.8 or more.
Redundant(a, b) ==
    a # {} /\ b # {} /\ 10 * Cardinality(a \cap b) >= 8 * Cardinality(a \cup b)

Keeps(decision) == decision # "skip"
Delivers(decision) == decision \in {"include", "compress"}

\* An optional region that repeats a kept one, of a file that stays represented.
Deselected(region, kept) ==
    /\ ~region.candidate.direct
    /\ \E k \in ToSet(kept) : Delivers(k.decision) /\ Redundant(region.candidate.words, k.candidate.words)
    /\ \E k \in ToSet(kept) : k.candidate.file = region.candidate.file

\* pack_with_diversity: the plan above, thinned when the question has several aspects.
PackWithDiversity(plan, aspects) ==
    LET thin(kept, region) ==
            IF Keeps(region.decision) /\ ~(aspects > 1 /\ Deselected(region, kept)) THEN Append(kept, region) ELSE kept
        kept == ToSet(FoldLeft(thin, <<>>, plan.regions))
        regions == [i \in DOMAIN plan.regions |->
                        IF plan.regions[i] \in kept THEN plan.regions[i]
                        ELSE [plan.regions[i] EXCEPT !.decision = "skip", !.charged = 0]]
    IN  [used |-> FoldLeft(LAMBDA sum, r : sum + r.charged, 0, regions), regions |-> regions]

\* _apply_packing: an anchor that is not smaller than the body leaves the body;
\* the kept regions in the order of their rank, with their tokens.
ApplyPacking(bundle, plan) ==
    LET of(r) == CHOOSE x \in ToSet(plan.regions) : x.candidate.id = r.id
        shaped(r) ==
            LET d == of(r).decision
                shown == IF d = "elide" /\ AnchorTokens >= r.tokens THEN "include" ELSE d
            IN  [id |-> r.id, file |-> r.file, shown |-> shown,
                 tokens |-> CASE shown = "include" -> r.tokens
                              [] shown = "compress" -> of(r).candidate.compressed
                              [] OTHER -> AnchorTokens]
        kept == SelectSeq(bundle.regions, LAMBDA r : Keeps(of(r).decision))
    IN  [i \in DOMAIN kept |-> shaped(kept[i])]

---------------------------------------------------------------------------

PackingIdle == packing = NoPacking

\* _pack_bundle (lane "efficient"), _diversity_pack_bundle, and the context
\* candidate, which keeps no seed context.
PackBundle ==
    /\ packing = NoPacking
    /\ \E bundle \in Bundles, lane \in {"efficient", "diverse", "context"} :
        LET plan == PackEfficiently(Prepare(bundle, lane # "context"), bundle.budget)
            thinned == IF lane = "diverse" THEN PackWithDiversity(plan, bundle.aspects) ELSE plan
        IN  packing' = [step |-> "packed", bundle |-> bundle, lane |-> lane, plan |-> plan, final |-> thinned,
                        regions |-> ApplyPacking(bundle, thinned)]

PackingNext == PackBundle

---------------------------------------------------------------------------
(* Properties.                                                             *)

FilesKept(plan) == {r.candidate.file : r \in {x \in ToSet(plan.regions) : Keeps(x.decision)}}
Charged(regions) == FoldLeft(LAMBDA sum, r : sum + r.charged, 0, regions)

\* What is delivered is what was planned: a direct region is neither dropped nor
\* compressed, whatever was packed before it, and only direct ones may exceed the
\* budget; the rewritten bundle has the tokens the plan charged, although plan
\* and rewriting each decide when an anchor is worth it; thinning costs no file
\* and makes no region dearer (packing.py _fit_decision, _decision_cost,
\* pack_with_diversity "file recall never regresses"; strategies.py
\* _apply_packing).
PackedAsPlanned ==
    packing.step = "packed" =>
        LET regions == packing.final.regions
            direct == SelectSeq(regions, LAMBDA r : r.candidate.direct)
        IN  /\ \A r \in ToSet(direct) : r.decision \in {"include", "elide"}
            /\ packing.final.used <= Max({packing.bundle.budget, Charged(direct)})
            /\ packing.final.used = FoldLeft(LAMBDA sum, r : sum + r.tokens, 0, packing.regions)
            /\ FilesKept(packing.plan) \subseteq FilesKept(packing.final)
            /\ \A i \in DOMAIN regions : regions[i].charged <= packing.plan.regions[i].charged

=============================================================================
