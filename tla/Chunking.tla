------------------------------ MODULE Chunking ------------------------------
(***************************************************************************)
(* How one parsed file is cut into chunks (pipeline/chunker.py): the       *)
(* default chunker takes the symbols, or the structural ranges, and what   *)
(* they leave uncovered; the "cast" chunker splits and merges along the    *)
(* tree of symbols.                                                        *)
(*                                                                         *)
(* A file is [path, lines, symbols, ranges]: lines[n] is the number of     *)
(* tokens of line n, 0 when it is blank; the tokens of a text are those of *)
(* its lines.  A symbol is [name, qualified, parent, start, end], parent a     *)
(* qualified name or NONE.                                                 *)
(***************************************************************************)
EXTENDS DependencyGraph

CONSTANTS
    ChunkMaxTokens, ChunkMinTokens,     \* of IndexConfig
    CastMergeBudget                     \* 0.7 of ChunkMaxTokens

Interval(a, b) == [i \in 1..(IF b < a THEN 0 ELSE b - a + 1) |-> a + i - 1]

\* Stable sorts: by start, and by start and end.
InOrder(s, After(_, _)) ==
    FoldLeft(LAMBDA sorted, x :
                InsertAt(sorted, Cardinality({i \in DOMAIN sorted : ~After(sorted[i], x)}) + 1, x), <<>>, s)
ByStart(s) == InOrder(s, LAMBDA x, y : x.start > y.start)
ByExtent(s) == InOrder(s, LAMBDA x, y : x.start > y.start \/ (x.start = y.start /\ x.end > y.end))

Extract(file, a, b) == SelectSeq(Interval(a, b), LAMBDA n : n \in DOMAIN file.lines)

BlankLines(file, ns) == \A n \in ToSet(ns) : file.lines[n] = 0

CountTokens(file, ns) == FoldLeft(LAMBDA sum, n : sum + file.lines[n], 0, ns)

\* Groups of lines that fit; a line that is larger is a group of its own.
SplitAtBoundary(file, ns) ==
    FoldLeft(LAMBDA groups, n :
                LET last == groups[Len(groups)]
                IN  IF groups # <<>> /\ CountTokens(file, last) + file.lines[n] <= ChunkMaxTokens
                    THEN Front(groups) \o <<Append(last, n)>> ELSE groups \o <<<<n>>>>,
             <<>>, ns)

Candidate(ns, start, symbol) == [ns |-> ns, start |-> start, symbol |-> symbol]

\* A group starts after the one before.
Consecutive(groups, a, symbol) ==
    LET start(i) == a + FoldLeft(LAMBDA sum, g : sum + Len(g), 0, SubSeq(groups, 1, i - 1))
    IN  [i \in DOMAIN groups |-> Candidate(groups[i], start(i), symbol)]

\* One candidate, or one for each group.
CandidatesOf(file, a, b, symbol) ==
    LET ns == Extract(file, a, b)
    IN  IF BlankLines(file, ns) THEN <<>>
        ELSE IF CountTokens(file, ns) <= ChunkMaxTokens THEN <<Candidate(ns, a, symbol)>>
        ELSE Consecutive(SplitAtBoundary(file, ns), a, symbol)

WithText(file, candidates) == SelectSeq(candidates, LAMBDA c : ~BlankLines(file, c.ns))

\* covered: intervals in order of their start, possibly nested.
UncoveredRanges(file, covered) ==
    LET end(i) == Max({0} \cup {covered[j].end : j \in 1..i})
        gap(i) == [start |-> end(i) + 1,
                   end |-> IF i = Len(covered) THEN Len(file.lines) ELSE covered[i + 1].start - 1]
    IN  SelectSeq([i \in 1..(Len(covered) + 1) |-> gap(i - 1)], LAMBDA r : r.start <= r.end)

MergeTwo(left, right) == Candidate(left.ns \o right.ns, left.start, NONE)

\* _merge_small_chunks: a small text without a symbol joins the next one without
\* a symbol (carry), or else the one before it.
MergeSmall(file, candidates) ==
    LET step(acc, i) ==
            LET c == IF acc.carry = <<>> THEN candidates[i] ELSE MergeTwo(acc.carry[1], candidates[i])
                small == CountTokens(file, c.ns) < ChunkMinTokens /\ c.symbol = NONE
                result == acc.result
            IN  IF small /\ i < Len(candidates) /\ candidates[i + 1].symbol = NONE
                THEN [acc EXCEPT !.carry = <<c>>]
                ELSE IF small /\ result # <<>> /\ Last(result).symbol = NONE
                THEN [carry |-> <<>>, result |-> Append(Front(result), MergeTwo(Last(result), c))]
                ELSE [carry |-> <<>>, result |-> Append(result, c)]
    IN  FoldLeft(step, [carry |-> <<>>, result |-> <<>>], Interval(1, Len(candidates))).result

\* The lines a chunk says it has are counted from its start.
BuildChunk(file, c) ==
    [path |-> file.path, name |-> IF c.symbol = NONE THEN NONE ELSE c.symbol.name, symbol |-> c.symbol, part |-> 0,
     start |-> c.start, end |-> c.start + Len(c.ns) - 1, content |-> c.ns]

ChunksOfText(file, candidates) ==
    LET kept == WithText(file, candidates)
    IN  ByStart([i \in DOMAIN kept |-> BuildChunk(file, kept[i])])

DefaultChunks(file) ==
    LET symbols == ByStart(file.symbols)
        ranges == ByStart(file.ranges)
        covered == IF symbols # <<>> THEN [i \in DOMAIN symbols |-> [start |-> symbols[i].start, end |-> symbols[i].end]]
                   ELSE ranges
        owner(i) == IF symbols # <<>> THEN symbols[i] ELSE NONE
        own == [i \in DOMAIN covered |-> CandidatesOf(file, covered[i].start, covered[i].end, owner(i))]
        rest == UncoveredRanges(file, covered)
        gaps == [i \in DOMAIN rest |-> CandidatesOf(file, rest[i].start, rest[i].end, NONE)]
        all == FlattenSeq(own) \o FlattenSeq(gaps)
    IN  ChunksOfText(file, IF symbols = <<>> /\ ranges # <<>> THEN ByStart(all) ELSE MergeSmall(file, all))

---------------------------------------------------------------------------
(* The cast chunker: units are [start, end, symbol].                       *)

Unit(a, b, symbol) == [start |-> a, end |-> b, symbol |-> symbol]
UnitTokens(file, a, b) == CountTokens(file, Extract(file, a, b))

Encloses(outer, inner) == outer # inner /\ outer.start <= inner.start /\ inner.end <= outer.end

\* The symbol it names as its parent (the last of that name), if that encloses
\* it, or else the smallest, then first, symbol of another extent around it.
DirectParent(file, s) ==
    LET named == SelectSeq(ByExtent(file.symbols), LAMBDA p : p.qualified = s.parent)
        around == SelectSeq(ByExtent(file.symbols),
                            LAMBDA p : Encloses(p, s) /\ <<p.start, p.end>> # <<s.start, s.end>>)
        smaller(p, q) == p.end - p.start < q.end - q.start
    IN  IF named # <<>> /\ Encloses(Last(named), s) THEN Last(named)
        ELSE IF around = <<>> THEN NONE
        ELSE FoldLeft(LAMBDA best, p : IF smaller(p, best) THEN p ELSE best, Head(around), Tail(around))

\* From the start, each one that begins after the last one taken ends.
NonOverlapping(symbols) ==
    FoldLeft(LAMBDA taken, s : IF taken # <<>> /\ s.start <= Last(taken).end THEN taken ELSE Append(taken, s),
             <<>>, symbols)

ChildrenOf(file, parent) ==
    NonOverlapping(SelectSeq(ByExtent(file.symbols), LAMBDA s : DirectParent(file, s) = parent))

UnitsOf(candidates) ==
    [i \in DOMAIN candidates |->
        Unit(candidates[i].start, candidates[i].start + Len(candidates[i].ns) - 1, NONE)]

SplitRange(file, a, b) == UnitsOf(WithText(file, CandidatesOf(file, a, b, NONE)))

\* Neighbours become one unit, without a symbol, while both and the text from
\* the first to the last of them are below the merge budget.
CanMerge(file, group, unit) ==
    /\ UnitTokens(file, group.start, group.end) < CastMergeBudget
    /\ UnitTokens(file, unit.start, unit.end) < CastMergeBudget
    /\ UnitTokens(file, group.start, unit.end) <= CastMergeBudget

MergeUnits(file, units) ==
    FoldLeft(LAMBDA merged, u :
                IF merged # <<>> /\ CanMerge(file, Last(merged), u)
                THEN Append(Front(merged), Unit(Last(merged).start, u.end, NONE)) ELSE Append(merged, u),
             <<>>, units)

RECURSIVE UnitsForScope(_, _, _, _)

\* Mutant of UnitsForSymbol: a symbol that does not fit is replaced by its children.
UnitsForChildren(file, s) ==
    IF UnitTokens(file, s.start, s.end) <= ChunkMaxTokens THEN <<Unit(s.start, s.end, s)>>
    ELSE LET cs == ChildrenOf(file, s) IN [i \in DOMAIN cs |-> Unit(cs[i].start, cs[i].end, cs[i])]

\* A symbol that fits is one unit; otherwise its children and what is between
\* them, or its lines, if it has none.
UnitsForSymbol(file, s) ==
    LET children == SelectSeq(ChildrenOf(file, s), LAMBDA c : Encloses(s, c))
    IN  IF UnitTokens(file, s.start, s.end) <= ChunkMaxTokens THEN <<Unit(s.start, s.end, s)>>
        ELSE IF children = <<>> THEN SplitRange(file, s.start, s.end)
        ELSE UnitsForScope(file, s.start, s.end, children)

UnitsForScope(file, a, b, children) ==
    LET from(i) == IF i = 1 THEN a ELSE Max({a, children[i - 1].end + 1})
        piece(i) == SplitRange(file, from(i), children[i].start - 1) \o UnitsForSymbol(file, children[i])
    IN  MergeUnits(file, FlattenSeq([i \in DOMAIN children |-> piece(i)])
                         \o SplitRange(file, from(Len(children) + 1), b))

\* Without symbols only the structural ranges are cut, if there are any.
UnitsForRanges(file) ==
    LET ranges == ByStart(file.ranges)
    IN  IF ranges = <<>> THEN SplitRange(file, 1, Len(file.lines))
        ELSE MergeUnits(file, FlattenSeq([i \in DOMAIN ranges |-> SplitRange(file, ranges[i].start, ranges[i].end)]))

CandidatesOfUnits(file, units) ==
    [i \in DOMAIN units |-> Candidate(Extract(file, units[i].start, units[i].end), units[i].start, units[i].symbol)]

CastChunks(file) ==
    ChunksOfText(file, CandidatesOfUnits(file,
        IF file.symbols = <<>> THEN UnitsForRanges(file)
        ELSE UnitsForScope(file, 1, Len(file.lines), ChildrenOf(file, NONE))))

\* _disambiguate_symbol_ids: the first chunk of a symbol id keeps it, the next
\* ones are numbered.
Disambiguated(chunks) ==
    LET same(i) == {j \in 1..i : chunks[j].symbol # NONE /\ chunks[i].symbol # NONE
                                 /\ chunks[j].symbol.qualified = chunks[i].symbol.qualified}
    IN  [i \in DOMAIN chunks |-> [chunks[i] EXCEPT !.part = Cardinality(same(i))]]

ChunkFile(chunker, file) ==
    Disambiguated(IF chunker = "cast" THEN CastChunks(file) ELSE DefaultChunks(file))

=============================================================================
