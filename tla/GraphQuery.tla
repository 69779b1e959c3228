----------------------------- MODULE GraphQuery ----------------------------
(***************************************************************************)
(* Structural queries over a graph artifact (graph_query.py): node lookup, *)
(* neighbours within a depth, shortest path.  Both searches are breadth    *)
(* first, give up when they have seen enough edges, and go around hubs,    *)
(* nodes of high degree.  A step is one turn of a search's loop: a node is *)
(* taken from the queue and its adjacent edges are looked at in order.     *)
(*                                                                         *)
(* The order is by the text of the edges; here it is some fixed order.     *)
(***************************************************************************)
EXTENDS ArchGraph

VARIABLES
    graph,      \* the artifact that is queried
    search      \* the query and the state of its loop

Sorted(S) == FoldSet(LAMBDA x, s : Append(s, x), <<>>, S)

NodeIds(g) == {n.id : n \in g.nodes}

\* Edges between known nodes; one with an unknown end is not in the adjacency.
KnownEdges(g) == {e \in g.edges : {e.source, e.target} \subseteq NodeIds(g)}

Outgoing(g, id) == {e \in KnownEdges(g) : e.source = id}

Incoming(g, id) == {e \in KnownEdges(g) : e.target = id}

Degree(g, id) == Cardinality(Outgoing(g, id)) + Cardinality(Incoming(g, id))

IsHub(g, id, hubDegree) == Degree(g, id) >= hubDegree

Across(edge, id) == [edge |-> edge, neighbor |-> IF edge.source = id THEN edge.target ELSE edge.source]

\* A loop is adjacent to itself twice when both directions are followed.
Adjacent(g, id, direction) ==
    LET along == {Across(e, id) : e \in Outgoing(g, id)}
        back  == {Across(e, id) : e \in Incoming(g, id)}
    IN  CASE direction = "out" -> Sorted(along)
          [] direction = "in"  -> Sorted(back)
          [] OTHER             -> Sorted(along) \o Sorted(back)

---------------------------------------------------------------------------
(* Node lookup.  A query is a node id, a path or a label.                  *)

WithPath(g, p) == {id \in NodeIds(g) : id[2] = p}

WithLabel(g, label) == {n.id : n \in {x \in g.nodes : x.label = label}}

\* The one node a query names, or NONE.
ResolveExact(g, q) ==
    CASE q.by = "id" ->
            IF q.text \in NodeIds(g) THEN q.text ELSE NONE
      [] q.by = "path" ->
            IF NodeIdForPath(q.text) \in NodeIds(g) THEN NodeIdForPath(q.text)
            ELSE IF Cardinality(WithPath(g, q.text)) = 1
                 THEN CHOOSE id \in WithPath(g, q.text) : TRUE ELSE NONE
      [] OTHER ->
            IF Cardinality(WithLabel(g, q.text)) = 1
            THEN CHOOSE id \in WithLabel(g, q.text) : TRUE ELSE NONE

\* The nodes whose id, label or path contains the text of the query.
FuzzyMatches(g, q) ==
    CASE q.by = "id"   -> {}
      [] q.by = "path" -> WithPath(g, q.text)
      [] OTHER         -> WithLabel(g, q.text)

Lookup(g, q, limit) ==
    IF ResolveExact(g, q) # NONE THEN <<ResolveExact(g, q)>>
    ELSE LET all == Sorted(FuzzyMatches(g, q)) IN SubSeq(all, 1, Min({limit, Len(all)}))

\* NONE: no node, or more than one, which are errors of the query.
RequireOneNode(g, q) ==
    LET found == Lookup(g, q, 2) IN IF Len(found) = 1 THEN found[1] ELSE NONE

---------------------------------------------------------------------------
(* Neighbours.                                                             *)

StartNeighbors(q) ==
    LET seed == RequireOneNode(graph, q.from)
    IN  [op |-> "neighbors", q |-> q, step |-> IF seed = NONE THEN "error" ELSE "loop",
         source |-> seed, queue |-> <<<<seed, 0>>>>, seen |-> {seed}, hubs |-> {},
         edges |-> <<>>, omitted |-> 0]

FirstSeen(items, known) ==
    FoldLeft(LAMBDA s, x : IF x.neighbor \in known \cup ToSet(s) THEN s ELSE Append(s, x.neighbor),
             <<>>, items)

\* Edges beyond the limit are counted, not followed.  The seed may be a hub; no
\* other hub is queued.
NeighborsStep ==
    /\ search.op = "neighbors" /\ search.step = "loop" /\ search.queue # <<>>
    /\ LET current == Head(search.queue)[1]
           depth   == Head(search.queue)[2]
           all     == IF depth >= search.q.depth THEN <<>>
                      ELSE Adjacent(graph, current, search.q.direction)
           room    == search.q.limit - Len(search.edges)
           taken   == SubSeq(all, 1, Min({room, Len(all)}))
           new     == FirstSeen(taken, search.seen)
           hub(id) == IsHub(graph, id, search.q.hubDegree)
           deeper  == SelectSeq(new, LAMBDA id : ~ hub(id))
       IN  search' = [search EXCEPT
                !.edges = @ \o [i \in 1..Len(taken) |-> taken[i].edge],
                !.omitted = @ + Len(all) - Len(taken),
                !.seen = @ \cup ToSet(new),
                !.hubs = @ \cup {id \in ToSet(new) : hub(id)},
                !.queue = Tail(@) \o [i \in 1..Len(deeper) |-> <<deeper[i], depth + 1>>]]
    /\ UNCHANGED graph

---------------------------------------------------------------------------
(* Shortest path.                                                          *)

StartPath(q) ==
    LET source == RequireOneNode(graph, q.from)
        target == RequireOneNode(graph, q.to)
    IN  [op |-> "path", q |-> q, step |-> IF NONE \in {source, target} THEN "error" ELSE "loop",
         source |-> source, target |-> target, queue |-> <<source>>, visited |-> {source},
         parents |-> {}, avoided |-> {}, expanded |-> 0, truncated |-> FALSE]

\* Mutant of Passable: the target may not be a hub either.
PassableNoHub(s, id) == ~ IsHub(graph, id, s.q.hubDegree)

Passable(s, id) == id \in {s.source, s.target} \/ ~ IsHub(graph, id, s.q.hubDegree)

\* The edge that would be one too many ends the search, but what has been queued
\* already counts as found.
PathStep ==
    /\ search.op = "path" /\ search.step = "loop"
    /\ search.queue # <<>> /\ Head(search.queue) # search.target
    /\ LET current == Head(search.queue)
           all     == Adjacent(graph, current, search.q.direction)
           room    == search.q.maxEdges - search.expanded
           taken   == SubSeq(all, 1, Min({room, Len(all)}))
           fresh   == SelectSeq(taken, LAMBDA x : x.neighbor \notin search.visited)
           open    == SelectSeq(fresh, LAMBDA x : Passable(search, x.neighbor))
           new     == FirstSeen(open, {})
           parent(id) == LET i == Min({j \in 1..Len(open) : open[j].neighbor = id})
                         IN  [node |-> id, parent |-> current, edge |-> open[i].edge]
           cut     == Len(all) > room
       IN  search' = [search EXCEPT
                !.expanded = @ + Len(taken),
                !.avoided = @ \cup {x.neighbor : x \in ToSet(fresh) \ ToSet(open)},
                !.visited = @ \cup ToSet(new),
                !.parents = @ \cup {parent(id) : id \in ToSet(new)},
                !.truncated = cut,
                !.queue = IF cut THEN <<>> ELSE Tail(@) \o new]
    /\ UNCHANGED graph

\* The queue is empty, or its head is the target.
SearchEnds ==
    /\ search.step = "loop"
    /\ \/ search.queue = <<>>
       \/ search.op = "path" /\ search.queue # <<>> /\ Head(search.queue) = search.target
    /\ search' = [search EXCEPT !.step = "done"]
    /\ UNCHANGED graph

Found(s) == s.target \in s.visited

\* The path, backwards from the target.
PathNodes(s) ==
    LET back[n \in 0..Cardinality(s.visited)] ==
            IF n = 0 THEN <<s.target>>
            ELSE IF Head(back[n - 1]) = s.source THEN back[n - 1]
                 ELSE <<(CHOOSE p \in s.parents : p.node = Head(back[n - 1])).parent>> \o back[n - 1]
    IN  back[Cardinality(s.visited)]

---------------------------------------------------------------------------
NoSearch == [op |-> "none", step |-> "idle"]

Ask(q) ==
    /\ search = NoSearch
    /\ search' = IF q.op = "path" THEN StartPath(q) ELSE StartNeighbors(q)
    /\ UNCHANGED graph

QueryNext(queries) == (\E q \in queries : Ask(q)) \/ NeighborsStep \/ PathStep \/ SearchEnds

---------------------------------------------------------------------------
(* Properties.                                                             *)

\* The nodes a walk from source reaches in at most k steps if it goes on only
\* from the source and from nodes that may be passed.
Reach(source, direction, passable(_), k) ==
    LET within[n \in 0..k] ==
            IF n = 0 THEN {source}
            ELSE within[n - 1] \cup UNION {{x.neighbor : x \in ToSet(Adjacent(graph, id, direction))} :
                                            id \in {i \in within[n - 1] : i = source \/ passable(i)}}
    IN  within[k]

\* A path that is found is one: its edges join its nodes, it passes no hub, and
\* no such path is shorter, whether or not the search was cut; and a search that
\* was not cut finds a path if there is one.  Neighbours that are not cut are
\* every node in reach without passing a hub, and those that are cut are some
\* (graph_query.py shortest_path, neighbors).
SearchIsRight ==
    search.op \in {"path", "neighbors"} /\ search.step = "done" =>
    LET plain(id) == ~ IsHub(graph, id, search.q.hubDegree)
    IN  CASE search.op = "path" ->
                LET all     == Cardinality(NodeIds(graph))
                    within(k) == search.target \in Reach(search.source, search.q.direction, plain, k)
                    nodes   == PathNodes(search)
                    joined(a, b) == \E x \in ToSet(Adjacent(graph, a, search.q.direction)) : x.neighbor = b
                IN  IF Found(search)
                    THEN /\ Head(nodes) = search.source
                         /\ \A i \in 1..(Len(nodes) - 1) : joined(nodes[i], nodes[i + 1])
                         /\ \A i \in 2..(Len(nodes) - 1) : plain(nodes[i])
                         /\ Len(nodes) > 1 => ~ within(Len(nodes) - 2)
                    ELSE search.truncated \/ ~ within(all)
          [] OTHER ->
                LET reached == Reach(search.source, search.q.direction, plain, search.q.depth)
                IN  /\ search.seen \subseteq reached
                    /\ search.omitted = 0 => search.seen = reached
                    /\ Len(search.edges) <= search.q.limit

=============================================================================
