---------------------------- MODULE MCMcpServer ----------------------------
(* Four of the tools, one of each kind; sessions that use some of them.    *)
EXTENDS McpServer

MCKeys == {<<"graph.json", 5>>, <<"graph.json", 50>>}

Session(agenda, scope, disclosure, n, metrics) ==
    [agenda |-> agenda, scope |-> scope, disclosure |-> disclosure, cancels |-> n,
     metrics |-> metrics]

\* Sessions that look graphs up, that retrieve without being recorded - of all
\* tools, of a scope with a core tool, of one without - and one that records its
\* usage while metrics commands run.
MCSessions ==
    {Session({"graph_query"}, {}, FALSE, 0, FALSE),
     Session({"query_repo"}, {}, TRUE, 1, FALSE),
     Session({"query_repo", "session"}, {"query_repo", "session"}, TRUE, 0, FALSE),
     Session({"query_repo"}, {"graph_query", "session"}, TRUE, 0, FALSE),
     Session({"scout_repo"}, {}, FALSE, 0, TRUE)}
===========================================================================
