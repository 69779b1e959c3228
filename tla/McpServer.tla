----------------------------- MODULE McpServer -----------------------------
(***************************************************************************)
(* The MCP server of one session (integrations/mcp.py).  Tool calls run    *)
(* concurrently: the event loop starts and finishes them, an executor      *)
(* thread does the work and records its usage in the metrics ledger.  The  *)
(* session begins with few tools advertised; the first retrieval that      *)
(* succeeds opens the disclosure gate, and the client must come to know.   *)
(* Graph tools go through a cache of parsed graph artifacts, which         *)
(* `archex graph export` may rewrite at any time.                          *)
(*                                                                         *)
(* What the tools answer is modelled elsewhere.  Here a tool does its work *)
(* and records it, or raises; of a graph answer the version of the         *)
(* artifact counts.                                                        *)
(***************************************************************************)
EXTENDS MetricsLedger, Sequences, SequencesExt

CONSTANTS
    Sessions,       \* records: the tools an agent calls, --tools, disclosure, and
                    \* two bounds: requests it cancels, and whether its usage may be
                    \* recorded while metrics commands run
    Keys,           \* <<artifact path, hub degree>> of graph calls
    CacheSize,      \* _GRAPH_QUERY_CACHE_MAXSIZE
    MaxExports      \* bound: archex graph export

Calls == Recorders    \* requests in flight at once

\* The tools by what their handlers do: answer with source code, answer with the
\* structure of a repository, answer from an exported graph artifact through
\* the cache, work on the session ledger.
RetrievalTools == {"context", "query_repo", "scout_repo"}

StructuralTools ==
    {"analyze_repo", "compare_repos", "get_file_tree", "get_file_outline", "search_symbols",
     "get_symbol", "get_symbols_batch", "get_impact", "explain_target", "generate_onboarding"}

GraphTools ==
    {"graph_query", "graph_lookup", "graph_neighbors", "graph_path", "graph_stats", "graph_hubs"}

Tools == RetrievalTools \cup StructuralTools \cup GraphTools \cup {"session"}

\* Usage is recorded of an answer from a repository.
Recording == RetrievalTools \cup StructuralTools

Core == {"context", "query_repo"}

ASSUME ServerAssumption ==
    /\ Sessions \subseteq [agenda : SUBSET Tools, scope : SUBSET Tools, disclosure : BOOLEAN,
                      cancels : Nat, metrics : BOOLEAN]
    /\ CacheSize \in Nat \ {0} /\ MaxExports \in Nat

VARIABLES
    session,            \* the session that is served
    cancels,
    open, pending,      \* the DisclosureGate
    call,               \* call[c]: the request in slot c
    wire,               \* messages on their way to the client, in order
    client,             \* the tool list the client last received; one that never
                        \* changes has arrived before the first call
    asked,              \* tools/list requests on their way to the server
    artifact,           \* artifact[path]: version, and whether it is complete
    cache               \* _graph_query_cache, least recently used first

gateVars == <<session, open, pending>>
clientVars == <<wire, client, asked>>
graphVars == <<artifact, cache>>
serverVars == <<gateVars, call, cancels, clientVars, graphVars, ledgerVars>>

Path == {k[1] : k \in Keys}

NoCall == [step |-> "free", tool |-> NONE, before |-> {}, cancelled |-> FALSE,
           key |-> NONE, token |-> NONE, since |-> 0, answer |-> NONE]

\* resolve_tool_scope: no scope is every tool.
Scope == IF session.scope = {} THEN Tools ELSE session.scope

Uses(tools) == session.agenda \cap tools # {}

\* A scope that shares no tool with the core is served as asked.
Visible == IF open \/ Scope \cap Core = {} THEN Scope ELSE Scope \cap Core

ServerInit ==
    /\ LedgerInit
    /\ session \in Sessions
    /\ usageEnv # "off" => session.metrics
    /\ open = ~ session.disclosure /\ pending = FALSE
    /\ cancels = 0
    /\ call = [c \in Calls |-> NoCall]
    /\ wire = <<>>
    /\ IF session.disclosure THEN client = NONE /\ asked = 1 ELSE client = Scope /\ asked = 0
    /\ artifact = [p \in Path |-> [version |-> 1, whole |-> TRUE]]
    /\ cache = <<>>

Step(c, s) == call' = [call EXCEPT ![c].step = s]

Free(c) == call' = [call EXCEPT ![c] = NoCall]

---------------------------------------------------------------------------
(* tools/list, and the client.                                             *)

\* Mutant of ListTools: the list is fixed when the server is built.
ListCoreOnly ==
    /\ asked > 0
    /\ asked' = asked - 1
    /\ wire' = Append(wire, [changed |-> FALSE, tools |-> Scope \cap Core])
    /\ UNCHANGED <<gateVars, call, cancels, client, graphVars, ledgerVars>>

ListTools ==
    /\ asked > 0
    /\ asked' = asked - 1
    /\ wire' = Append(wire, [changed |-> FALSE, tools |-> Visible])
    /\ UNCHANGED <<gateVars, call, cancels, client, graphVars, ledgerVars>>

\* A client that is told its list has changed asks for it again.
ClientReceives ==
    /\ wire # <<>>
    /\ wire' = Tail(wire)
    /\ IF Head(wire).changed
       THEN asked' = asked + 1 /\ UNCHANGED client
       ELSE client' = Head(wire).tools /\ UNCHANGED asked
    /\ UNCHANGED <<gateVars, call, cancels, graphVars, ledgerVars>>

---------------------------------------------------------------------------
(* tools/call on the event loop.                                           *)

\* Scoping never changes which names dispatch.
CallTool(c) ==
    /\ call[c].step = "free" /\ rec[c].step = "rest"
    /\ \E t \in session.agenda :
        IF t \in GraphTools
        THEN \E k \in Keys :
                call' = [call EXCEPT ![c] = [NoCall EXCEPT
                    !.step = "token", !.tool = t, !.before = Visible, !.key = k,
                    !.since = IF artifact[k[1]].whole THEN artifact[k[1]].version
                              ELSE artifact[k[1]].version - 1]]
        ELSE call' = [call EXCEPT ![c] = [NoCall EXCEPT
                    !.step = "work", !.tool = t, !.before = Visible]]
    /\ UNCHANGED <<cancels, gateVars, clientVars, graphVars, ledgerVars>>

\* A failed call has not shown that the session needs the wider surface.
ToolRaises(c) ==
    /\ call[c].step = "work"
    /\ Free(c)
    /\ UNCHANGED <<cancels, gateVars, clientVars, graphVars, ledgerVars>>

\* notifications/cancelled: the coroutine ends, the thread goes on.
CancelCall(c) ==
    /\ call[c].step # "free" /\ ~ call[c].cancelled
    /\ cancels < session.cancels /\ cancels' = cancels + 1
    /\ IF call[c].step \in {"announce", "announced"} THEN Free(c)
       ELSE call' = [call EXCEPT ![c].cancelled = TRUE]
    /\ UNCHANGED <<gateVars, clientVars, graphVars, ledgerVars>>

\* Opening does not always change what is advertised.
Finish(c) ==
    /\ call[c].step = "finish"
    /\ IF call[c].cancelled THEN Free(c) /\ UNCHANGED gateVars
       ELSE LET opens == ~ open /\ call[c].tool \in Core
            IN  /\ open' = (open \/ opens)
                /\ pending' = (pending \/ (opens /\ Scope # call[c].before))
                /\ UNCHANGED session
                /\ IF pending' THEN Step(c, "announce") ELSE Free(c)
    /\ UNCHANGED <<cancels, clientVars, graphVars, ledgerVars>>

Announce(c) ==
    /\ call[c].step = "announce"
    /\ wire' = Append(wire, [changed |-> TRUE, tools |-> {}])
    /\ Step(c, "announced")
    /\ UNCHANGED <<cancels, gateVars, client, asked, graphVars, ledgerVars>>

\* Mutant of AnnounceLost: an announcement is made once.
AnnounceForgotten(c) ==
    /\ call[c].step = "announce"
    /\ pending' = FALSE
    /\ Free(c)
    /\ UNCHANGED <<cancels, session, open, clientVars, graphVars, ledgerVars>>

\* The send raised.  The answer is returned all the same, and the next call
\* that succeeds announces again.
AnnounceLost(c) ==
    /\ call[c].step = "announce"
    /\ Free(c)
    /\ UNCHANGED <<cancels, gateVars, clientVars, graphVars, ledgerVars>>

MarkAnnounced(c) ==
    /\ call[c].step = "announced"
    /\ pending' = FALSE
    /\ Free(c)
    /\ UNCHANGED <<cancels, session, open, clientVars, graphVars, ledgerVars>>

---------------------------------------------------------------------------
(* The executor thread: the work of a tool, and the record of its usage.   *)

StartRecording(c) ==
    /\ call[c].step = "work" /\ call[c].tool \in Recording
    /\ \E root \in Roots : BeginRecording(c, root)
    /\ Step(c, "record")
    /\ UNCHANGED <<cancels, gateVars, clientVars, graphVars>>

\* No local repository or no baseline: nothing to record.
SkipRecording(c) ==
    /\ call[c].step = "work"
    /\ Step(c, "finish")
    /\ UNCHANGED <<cancels, gateVars, clientVars, graphVars, ledgerVars>>

ThreadRecords(c) ==
    /\ call[c].step = "record"
    /\ \/ Record(c) /\ UNCHANGED call
       \/ rec[c].step = "rest" /\ Step(c, "finish") /\ UNCHANGED ledgerVars
    /\ UNCHANGED <<cancels, gateVars, clientVars, graphVars>>

---------------------------------------------------------------------------
(* The executor thread: a graph tool.  The token of an artifact is its     *)
(* mtime and size, taken to differ whenever the file has been written.     *)

Token(path) == artifact[path]

\* The entry of a key: the cache holds one at most.
Entries(key) == {i \in 1..Len(cache) : cache[i].key = key}

Without(key) ==
    IF Entries(key) = {} THEN cache ELSE RemoveAt(cache, CHOOSE i \in Entries(key) : TRUE)

ReadToken(c) ==
    /\ call[c].step = "token"
    /\ call' = [call EXCEPT ![c].step = "lookup", ![c].token = Token(call[c].key[1])]
    /\ UNCHANGED <<cancels, gateVars, clientVars, graphVars, ledgerVars>>

\* Under the cache lock.
LookUpGraph(c) ==
    /\ call[c].step = "lookup"
    /\ LET hits == {i \in Entries(call[c].key) : cache[i].token = call[c].token}
       IN  \/ /\ hits = {}
              /\ Step(c, "build") /\ UNCHANGED cache
           \/ \E i \in hits :
                /\ call' = [call EXCEPT ![c].step = "answered", ![c].answer = cache[i].graph]
                /\ cache' = Append(Without(call[c].key), cache[i])
    /\ UNCHANGED <<cancels, gateVars, clientVars, artifact, ledgerVars>>

\* Outside the lock.  A file that is being written is not a valid artifact:
\* the handler answers with the error.
BuildGraph(c) ==
    /\ call[c].step = "build"
    /\ LET file == artifact[call[c].key[1]]
       IN  call' = [call EXCEPT ![c].step = IF file.whole THEN "store" ELSE "finish",
                                ![c].answer = IF file.whole THEN file.version ELSE NONE]
    /\ UNCHANGED <<cancels, gateVars, clientVars, graphVars, ledgerVars>>

\* Mutant of StoredToken: the token of the file when the graph is stored.
TokenNow(c) == Token(call[c].key[1])

StoredToken(c) == call[c].token

\* The last of several builders wins; the least recently used entry goes.
StoreGraph(c) ==
    /\ call[c].step = "store"
    /\ LET all == Append(Without(call[c].key),
                    [key |-> call[c].key, token |-> StoredToken(c), graph |-> call[c].answer])
       IN  cache' = IF Len(all) > CacheSize THEN Tail(all) ELSE all
    /\ Step(c, "answered")
    /\ UNCHANGED <<cancels, gateVars, clientVars, artifact, ledgerVars>>

RenderGraph(c) ==
    /\ call[c].step = "answered"
    /\ Step(c, "finish")
    /\ UNCHANGED <<cancels, gateVars, clientVars, graphVars, ledgerVars>>

\* `archex graph export` writes in place: truncated first, then complete.
ExportGraph(path) ==
    /\ artifact' = [artifact EXCEPT ![path] =
            IF @.whole THEN [version |-> @.version + 1, whole |-> FALSE]
            ELSE [@ EXCEPT !.whole = TRUE]]
    /\ artifact[path].whole => artifact[path].version <= MaxExports
    /\ UNCHANGED <<gateVars, call, cancels, clientVars, cache, ledgerVars>>

GraphCall(c) ==
    ReadToken(c) \/ LookUpGraph(c) \/ BuildGraph(c) \/ StoreGraph(c) \/ RenderGraph(c)

---------------------------------------------------------------------------
ServeCall(c) ==
    \/ Finish(c) \/ MarkAnnounced(c)
    \/ SkipRecording(c) \/ StartRecording(c) \/ ThreadRecords(c) \/ GraphCall(c)

ServerNext ==
    \/ ListTools \/ ClientReceives
    \/ \E c \in Calls :
        \/ CallTool(c) \/ ToolRaises(c) \/ CancelCall(c)
        \/ ServeCall(c) \/ Announce(c) \/ AnnounceLost(c)
    \/ \E path \in Path : Uses(GraphTools) /\ ExportGraph(path)
    \/ /\ session.metrics
       /\ MetricsCommand \/ DayPasses
       /\ UNCHANGED <<gateVars, call, cancels, clientVars, graphVars>>

\* The event loop, the threads and the client do not stop.  The agent goes on
\* calling, its calls succeed again and again, and so does sending.
ServerFairness ==
    /\ WF_serverVars(ListTools) /\ WF_serverVars(ClientReceives)
    /\ \A c \in Calls :
        /\ WF_serverVars(CallTool(c)) /\ WF_serverVars(ServeCall(c))
        /\ SF_serverVars(SkipRecording(c)) /\ SF_serverVars(Announce(c))

ServerSpec == ServerInit /\ [][ServerNext]_serverVars

ServerFairSpec == ServerSpec /\ ServerFairness

---------------------------------------------------------------------------
(* Properties.                                                             *)

\* Whatever calls overlap, fail or are cancelled and whatever announcements are
\* lost: while the list the client holds is not the one advertised, an
\* announcement is owed, or it, the client's request or the list is on its way
\* (call_tool: "stranding the client on the minimal list").
NobodyStranded ==
    client # Visible =>
        \/ pending \/ asked > 0
        \/ \E i \in 1..Len(wire) : wire[i].changed \/ wire[i].tools = Visible

\* Once the gate is open the client comes to hold the full list.
ListReaches == open ~> client = Scope

\* A graph answer is never of an older export than the last one complete when
\* the call came in, however builds, exports and evictions interleave
\* (_cached_graph_query: "keep serving the first snapshot it loaded").
GraphAnswerIsCurrent ==
    \A c \in Calls : call[c].step = "answered" => call[c].answer >= call[c].since

=============================================================================
