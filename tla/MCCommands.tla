----------------------------- MODULE MCCommands -----------------------------
EXTENDS Commands, MCIngest, MCPacking, TLC

(* A small repository and its graph.                                       *)

MCConfigNames == {"pyproject.toml"}
MCTestNames == {"test_a.py"}

A == <<"app", "a.py">>
B == <<"app", "b.py">>
C == <<"lib", "c.py">>
D == <<"lib", "d.py">>
E == <<"app", "e.py">>
T == <<"tests", "test_a.py">>
X == <<"app", "gone.py">>

Import(to) == [resolved |-> to, module |-> to[2]]
Chunk(id, file, symbol, kind, visibility, lines) ==
    [id |-> id, file |-> file, symbol |-> symbol, kind |-> kind, visibility |-> visibility, lines |-> lines]

\* c.py is the hub; a.py has an import that does not resolve; d.py has no chunks.
Layered == [
    files    |-> <<A, B, C, D, T>>,
    imports  |-> (A :> <<Import(B), Import(C), Import(X)>>) @@ (B :> <<Import(C)>>)
                 @@ (C :> <<Import(D)>>) @@ (D :> <<Import(C)>>) @@ (T :> <<Import(A), Import(C)>>),
    evidence |-> <<>>,
    chunks   |-> {Chunk(1, A, <<"run">>, "function", "public", <<1, 4>>),
                  Chunk(2, A, <<"_aux">>, "constant", NONE, <<6, 9>>),
                  Chunk(3, B, <<"B">>, "class", NONE, <<1, 9>>),
                  Chunk(4, C, <<"C">>, "class", "public", <<1, 9>>),
                  Chunk(5, C, <<"C">>, "class", "public", <<11, 19>>),
                  Chunk(6, T, NONE, NONE, NONE, <<1, 9>>)},
    configs  |-> {<<"", "pyproject.toml">>}, large |-> {B}, entries |-> {A}, central |-> {C}]

\* No imports at all: evidence of a provider, one item of it over an edge.
Flat == [Layered EXCEPT
    !.imports = [f \in {A, B, C, D, T} |-> IF f = A THEN <<Import(B)>> ELSE <<>>],
    !.evidence = <<[source |-> A, target |-> B], [source |-> B, target |-> C], [source |-> X, target |-> C]>>,
    !.large = {}, !.central = {}]

\* Every file on one path of imports.
Chained == [Layered EXCEPT
    !.imports = (A :> <<Import(B)>>) @@ (B :> <<Import(C)>>) @@ (C :> <<Import(D)>>)
                @@ (D :> <<>>) @@ (T :> <<Import(A), Import(D)>>),
    !.chunks = @ \cup {Chunk(7, D, <<"D">>, "function", "private", <<1, 9>>)}]

\* One module, nothing public: only the number of importers makes a change risky.
Quiet == [Layered EXCEPT
    !.files = <<A, B, E>>, !.imports = (A :> <<>>) @@ (B :> <<Import(A)>>) @@ (E :> <<Import(A)>>),
    !.chunks = {Chunk(n, <<A, B, E>>[n], NONE, NONE, NONE, <<1, 9>>) : n \in 1..3},
    !.configs = {}, !.large = {}, !.entries = {}]

MCTrees == {Layered, Flat, Chained, Quiet}

ByPath(p) == [by |-> "path", text |-> p]
ByLabel(l) == [by |-> "label", text |-> l]

MCQueries ==
    {[op |-> "path", from |-> ByPath(f), to |-> ByPath(t), direction |-> d, maxEdges |-> n, hubDegree |-> h] :
        f \in {A, T}, t \in {C, B}, d \in {"out", "both"}, n \in {2, 3, 20}, h \in {4, 9}}
    \cup {[op |-> "neighbors", from |-> q, depth |-> k, direction |-> d, limit |-> n, hubDegree |-> h] :
        q \in {ByPath(A), ByPath(C), ByLabel(<<"C">>)}, k \in {1, 2}, d \in {"in", "both"},
        n \in {3, 20}, h \in {4, 9}}

MCChanges == {{[path |-> p, status |-> IF p = X THEN "D" ELSE "M"] : p \in ps} :
                ps \in {S \in SUBSET {A, B, C, T, X} : Cardinality(S) \in {1, 2}}}

---------------------------------------------------------------------------
(* The same files with chunks to rank and pack.                            *)

Piece(id, file, tokens, lines, extra) ==
    [id |-> id, file |-> file, tokens |-> tokens, lines |-> lines, extra |-> extra, standing |-> 0]
Link(s, t) == Edge(s, t, "imports", "extracted")

a1 == Piece(1, A, 4, <<1, 9>>, 0)
a2 == [Piece(2, A, 2, <<2, 4>>, 0) EXCEPT !.standing = 1]
a3 == Piece(3, A, 1, <<11, 12>>, 5)
b1 == Piece(4, B, 3, <<1, 9>>, 5)
b2 == [Piece(5, B, 2, <<11, 19>>, 0) EXCEPT !.standing = 3]
c1 == Piece(6, C, 3, <<1, 9>>, 10)
d1 == Piece(7, D, 2, <<1, 9>>, 0)
t1 == Piece(8, T, 2, <<1, 9>>, 0)

\* a.py and its test import, b.py is what the others lead to.
Linked == [
    graph    |-> [nodes |-> <<A, B, C, D, T>>,
                  edges |-> {Link(A, B), Link(A, C), Link(D, B), Link(T, A), Link(B, C)}],
    chunks   |-> <<a1, a2, a3, b1, b2, c1, d1, t1>>,
    entries  |-> {C}, matching |-> {D},
    pathShare |-> <<<<D, 70>>>>, named |-> (3 :> 60) @@ (6 :> 15), modules |-> <<{C}, {A, B}>>,
    weight   |-> [f \in {A, B, C, D, T} |-> IF f = T THEN 15 ELSE IF f = C THEN 130 ELSE 100]]

\* No import resolves.
Loose == [Linked EXCEPT
    !.graph = [nodes |-> <<A, B, C>>, edges |-> {}],
    !.chunks = <<a1, a2, b1, b2, c1>>, !.matching = {},
    !.pathShare = <<>>, !.named = (1 :> 15) @@ (4 :> 15), !.modules = <<>>]

MCContextTrees == {Linked, Loose}

MCLegs(tree, leg) ==
    LET all ==
        CASE leg = "bm25"   -> {<<>>, <<Hit(a1, 10), Hit(a2, 9), Hit(b1, 1)>>, <<Hit(c1, 8)>>, <<Hit(b1, 9), Hit(b2, 2)>>,
                                <<Hit(b1, 9), Hit(b2, 2), Hit(a1, 8), Hit(t1, 3), Hit(a3, 1)>>}
          [] leg = "vector" -> {<<>>, <<Hit(c1, 9), Hit(a1, 3)>>}
          [] leg = "splade" -> {<<>>, <<Hit(a2, 5), Hit(d1, 4)>>}
    IN  {s \in all : ChunksIn(s) \subseteq ToSet(tree.chunks)}

Request == [about |-> "code", api |-> FALSE, architecture |-> FALSE, pinned |-> FALSE, budget |-> 0,
            handles |-> <<>>, refresh |-> TRUE, cached |-> TRUE, bm25 |-> TRUE, filtered |-> {}]

Whole(file) == [kind |-> "file", value |-> file]
One(id) == [kind |-> "chunk", value |-> id]

MCRequests == {
    Request,
    [Request EXCEPT !.budget = 20],
    [Request EXCEPT !.budget = 5, !.bm25 = FALSE, !.filtered = {B}],
    [Request EXCEPT !.pinned = TRUE, !.about = "commands"],
    [Request EXCEPT !.budget = 9, !.about = "commands", !.api = TRUE],
    [Request EXCEPT !.about = "edges", !.refresh = FALSE],
    [Request EXCEPT !.budget = 9, !.architecture = TRUE, !.cached = FALSE],
    [Request EXCEPT !.budget = 13, !.cached = FALSE, !.filtered = {A, C}],
    [Request EXCEPT !.budget = 3, !.handles = <<One(1), One(9), Whole(A)>>],
    [Request EXCEPT !.budget = 9, !.handles = <<One(6), Whole(B), One(4)>>, !.filtered = {C}]}

MCIntentBudget == ("code" :> 8) @@ ("edges" :> 6) @@ ("commands" :> 6)

MCScoutFileLimit == ("code" :> 3) @@ ("edges" :> 4) @@ ("commands" :> 2)

Limits(base, most, mass, hybrid) ==
    [base |-> base, most |-> most, mass |-> mass, hybrid |-> hybrid, narrow |-> 1, fallback |-> 1, weak |-> 92]
MCFetchLimits ==
    ("code" :> Limits(1, 1, 90, 1)) @@ ("edges" :> Limits(1, 2, 84, 2)) @@ ("commands" :> Limits(2, 2, 55, 0))

MCRenderedTokens ==
    [base |-> 1, file |-> 1, symbol |-> 1, module |-> 1, edge |-> 1, handle |-> 1, guardrail |-> 2, omitted |-> 1]

---------------------------------------------------------------------------
(* The configuration files of a user.                                      *)

MCClients == <<"omp", "codex", "claude-code", "cursor">>

Handler(by, exe) == [by |-> by, exe |-> exe]
Group(matcher, handlers) == [matcher |-> matcher, handlers |-> handlers]
Settings(groups) == [EmptyFile EXCEPT !.groups["PreToolUse"] = groups]

Bare == [t \in Targets |-> NoFile]

MCHomes == {
    [files |-> [Bare EXCEPT
        ![<<"claude-code", "settings", "project">>] =
            Settings(<<Group("other", <<Handler("archex", "older"), Handler("user", "lint")>>),
                       Group("ours", <<Handler("user", "log"), Handler("archex", "older")>>)>>),
        ![<<"claude-code", "desktop", "user">>] = EmptyFile,
        ![<<"codex", "config", "project">>] = Settings(<<Group("none", <<Handler("user", "lint")>>),
                                                        Group("none", <<Handler("archex", "older")>>)>>)],
     agents |-> ("AGENTS.md" :> <<"user">>) @@ ("CLAUDE.md" :> <<>>)],
    [files |-> [Bare EXCEPT
        ![<<"cursor", "hooks", "project">>] = Broken,
        ![<<"omp", "mcp", "user">>] = Broken,
        ![<<"cursor", "mcp", "user">>] = EmptyFile],
     agents |-> ("AGENTS.md" :> <<>>)]}

---------------------------------------------------------------------------
(* Chunks of the same id whose text changes, or moves to another.          *)

MCWorktrees == {"f" :> "x" @@ "g" :> "y", "f" :> "y" @@ "g" :> "x", "f" :> "z" @@ "g" :> "y",
                "g" :> "x" @@ "README" :> "z", "README" :> "z"}

MCEmbedded(mode, text) == IF mode = "surrogate" /\ text = "z" THEN "x" ELSE text

Vectors(mode, embedder, quantized, splade) ==
    [vector |-> TRUE, mode |-> mode, embedder |-> embedder, quantized |-> quantized, splade |-> splade]

MCIndexConfigs == {Vectors("surrogate", "jina", FALSE, FALSE), Vectors("surrogate", "fast", FALSE, TRUE),
                   Vectors("surrogate", "jina", TRUE, FALSE), Vectors("raw", "jina", FALSE, FALSE),
                   [Vectors("raw", NONE, FALSE, FALSE) EXCEPT !.vector = FALSE]}

\* A request with every leg, and one with none.
AllOrNoLegs == {Vectors("raw", "jina", FALSE, TRUE),
                [Vectors("raw", NONE, FALSE, FALSE) EXCEPT !.vector = FALSE]}

=============================================================================
