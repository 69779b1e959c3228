-------------------------- MODULE EnsureIndexFresh --------------------------
(***************************************************************************)
(* What a call of _ensure_index answers, as theorems: through exact hits,  *)
(* deltas and rebuilds, a call that returns answers from the working tree. *)
(* It is proved for the project layout, for any files, contents, imports   *)
(* and configurations, and for calls that nothing disturbs: one caller at  *)
(* a time on a tree that holds still, none of them killed, and either run  *)
(* on clean checkouts only or on one commit.  Without any one of these the *)
(* runs have a counterexample, or the hazards of the code name one.        *)
(*                                                                         *)
(* A delta rewrites the rows of a few files; nothing in it looks at the    *)
(* others.  So the invariant says, for every moment between two            *)
(* transactions, which snapshot t the database was an index of when the    *)
(* delta began, and how far each row has come from t to the tree.          *)
(***************************************************************************)
EXTENDS EnsureIndexProofs

Undisturbed ==
    /\ \E p : Procs = {p}
    /\ ~ EditDuringCalls
    /\ MaxCrashes = 0
    /\ ProjectLayout
    /\ Unlisted = {}
    /\ CleanCallsOnly \/ Moves \subseteq {"edit"}

---------------------------------------------------------------------------
(* Stores that are an index of a snapshot.                                 *)

Ids(t) == {i \in ChunkId : t[i[1]] = i[2]}

FullEdges(t) == {e \in Files \X Files : t[e[1]] # NONE /\ t[e[2]] # NONE /\ e[2] \in Imports[t[e[1]]]}

Rows(st, t) ==
    /\ st.chunks = [f \in Files |-> ChunksOf(t, f)]
    /\ st.fts = [i \in ChunkId |-> IF i \in Ids(t) THEN 1 ELSE 0]
    /\ st.edges \subseteq FullEdges(t)
    /\ st.states = t

\* The signature that snapshot t has at commit n.
SignatureOf(n, t) ==
    {<<f, history[n][f] # NONE, t[f]>> : f \in {x \in Files : t[x] # history[n][x]}}

\* A database that no call is writing to, as the index of snapshot t.
SettledAs(st, t) ==
    /\ Rows(st, t)
    /\ st.commit \in Commit /\ history[st.commit] \in Tree
    /\ CleanCallsOnly => t = history[st.commit]
    /\ ~ CleanCallsOnly => st.commit = head

Signed(st, t) == st.signature = SignatureOf(st.commit, t)

\* Nobody reads the signature of a database without a meta file.
AtRest ==
    \/ dbs[0] = NONE /\ metas[0] = NONE
    \/ /\ \E t \in Tree : SettledAs(dbs[0], t) /\ (metas[0] # NONE => Signed(dbs[0], t))
       /\ metas[0] \in {NONE, dbs[0].commit}

\* The index of the working tree, under its commit and signature.
Current(st) ==
    /\ Rows(st, tree)
    /\ st.commit = head
    /\ st.signature = WorkingTreeSignature

---------------------------------------------------------------------------
(* A delta under way.  m is its manifest, D the renames it has applied.    *)

\* What a manifest has to say for the rows of t to become the rows of u.
Describes(m, t, u) ==
    /\ m.renamed \in Pairings(Present(t) \ Present(u), Present(u) \ Present(t))
    /\ m.deleted = (Present(t) \ Present(u)) \ {r[1] : r \in m.renamed}
    /\ Reprocess(m) = {f \in Files : u[f] # NONE /\ u[f] # t[f]}
    /\ RemovePaths(m) = {f \in Files : t[f] # NONE /\ u[f] # NONE /\ u[f] # t[f]} \cup Renamed(m)

Kept(m, t, u, f) == (t[f] # NONE => u[f] # NONE) /\ f \notin Renamed(m)

Renaming(st, t, D) ==
    /\ \A r \in D : /\ st.chunks[r[1]] = {} /\ st.chunks[r[2]] = ChunksOf(t, r[1])
                    /\ st.states[r[1]] = NONE
    /\ \A f \in Files : (\A r \in D : f # r[1] /\ f # r[2]) =>
            st.chunks[f] = ChunksOf(t, f) /\ st.states[f] = t[f]
    /\ st.fts = [i \in ChunkId |-> IF i \in Ids(t) THEN 1 ELSE 0]
    /\ \A e \in st.edges :
            /\ \A r \in D : e[1] # r[1] /\ e[2] # r[1]
            /\ e \in FullEdges(t) \/ \E r \in D : e[1] = r[2] \/ e[2] = r[2]

\* The rows of what is gone are deleted, those of the rest have still to change.
Trimmed(st, t, m, u) ==
    /\ \A f \in Files : t[f] # NONE /\ u[f] = NONE => st.chunks[f] = {}
    /\ \A r \in m.renamed : st.chunks[r[2]] = ChunksOf(t, r[1])
    /\ \A f \in Files : Kept(m, t, u, f) => st.chunks[f] = ChunksOf(t, f)
    /\ st.fts = [i \in ChunkId |-> IF i \in Ids(t) /\ i[1] \notin m.deleted THEN 1 ELSE 0]
    /\ \A e \in st.edges :
            /\ \A i \in {1, 2} : t[e[i]] # NONE => u[e[i]] # NONE
            /\ e \in FullEdges(t) \/ e[1] \in Renamed(m) \/ e[2] \in Renamed(m)

\* Their states: the rows that were moved away, and those of what is kept.
KeptStates(st, t, m, u) ==
    /\ \A r \in m.renamed : st.states[r[1]] = NONE
    /\ \A f \in Files : Kept(m, t, u, f) => st.states[f] = t[f]

Forgotten(st, t, u) == \A f \in Files : t[f] # NONE /\ u[f] = NONE => st.states[f] = NONE

\* The new rows are in, except for full text.
Swapped(st, t, u) ==
    /\ st.chunks = [f \in Files |-> ChunksOf(u, f)]
    /\ st.fts = [i \in ChunkId |-> IF i \in Ids(t) \cap Ids(u) THEN 1 ELSE 0]
    /\ st.edges \subseteq FullEdges(u)
    /\ st.states = u

\* The sources that a delta from t read.
HasRead(c, t) ==
    /\ c.read = tree
    /\ c.discovered = Present(tree)
    /\ c.sources = {f \in Files : tree[f] # NONE /\ tree[f] # t[f]}

Applying == {"rename", "forget", "read", "states", "swap", "bm25"}

Underway(p) ==
    LET st == dbs[0]
        c  == call[p]
        m  == c.manifest
    IN  \E t \in Tree :
            /\ Describes(m, t, tree)
            /\ pc[p] = "rename" =>
                c.renames \subseteq m.renamed /\ Renaming(st, t, m.renamed \ c.renames)
            /\ pc[p] \in {"forget", "read", "states", "swap"} => Trimmed(st, t, m, tree)
            /\ pc[p] \in {"forget", "read", "states"} => KeptStates(st, t, m, tree)
            /\ pc[p] \in {"read", "states"} => Forgotten(st, t, tree)
            /\ pc[p] \in {"states", "swap", "bm25"} => HasRead(c, t)
            /\ pc[p] = "swap" => st.states = tree
            /\ pc[p] = "bm25" => Swapped(st, t, tree)

---------------------------------------------------------------------------
(* What the transactions of a call have established for the ones after it. *)

OnDatabase == Applying \cup {"manifest", "commit", "sign", "finalize"}

CallFresh(p) ==
    LET c == call[p] IN
    /\ pc[p] # "idle" =>
        /\ seen[p] = {tree} /\ c.key = head /\ ~ c.detached
        /\ CleanCallsOnly => tree = history[head]
    /\ pc[p] \in {"signature", "lookup", "find"} => c.path = NONE
    /\ pc[p] \in {"put_db", "put_meta"} => c.path \in {NONE, 0}
    /\ pc[p] \in OnDatabase => c.path = 0 /\ c.current = head
    /\ pc[p] = "manifest" => dbs[0] # NONE /\ c.base = dbs[0].commit
    /\ pc[p] \in Applying => Underway(p)
    /\ pc[p] \in Applying \cup {"commit"} => ~ NothingToDo(p, c.manifest)
    /\ pc[p] \in {"commit", "sign"} => Rows(dbs[0], tree)
    /\ pc[p] = "sign" => dbs[0].commit = head
    /\ pc[p] = "finalize" => Current(dbs[0])
    /\ pc[p] \in {"sign", "finalize"} /\ NothingToDo(p, c.manifest) => metas[0] \in {NONE, head}
    /\ pc[p] = "full_states" => scratch[p] = FullRows(tree) /\ c.sources = Present(tree)
    /\ pc[p] \in {"full_commit", "full_sign"} => Rows(scratch[p], tree)
    /\ pc[p] = "full_sign" => scratch[p].commit = head
    /\ pc[p] \in {"put_db", "put_meta"} => Current(Handle(p))
    /\ pc[p] = "put_meta" => dbs[0] = Handle(p)
    /\ pc[p] = "done" => Rows(result[p], tree)

\* Labels at which the database is as the last call left it.
Resting == {"idle", "signature", "lookup", "find", "manifest", "full",
            "full_states", "full_commit", "full_sign", "done"}

\* The signature a call will publish is the one the tree has.
SignaturesTaken ==
    \A p \in Procs : pc[p] \notin {"idle", "signature"} => call[p].signature = WorkingTreeSignature

FreshInv ==
    /\ \A x \in Path \ {0} : dbs[x] = NONE
    /\ \A p \in Procs : pc[p] \in Resting \/ (pc[p] = "put_db" /\ call[p].path = NONE) => AtRest
    /\ \A p \in Procs : CallFresh(p)

---------------------------------------------------------------------------
(* Snapshots: what an index of one says of it.                             *)

LEMMA FullRowsAre ==
    ASSUME NEW t \in Tree
    PROVE  /\ FullRows(t).chunks = [f \in Files |-> ChunksOf(t, f)]
           /\ FullRows(t).fts = [i \in ChunkId |-> IF i \in Ids(t) THEN 1 ELSE 0]
           /\ FullRows(t).edges = FullEdges(t)
           /\ FullRows(t).states = [f \in Files |-> NONE]
<1> DEFINE chunks == [f \in Files |-> ChunksOf(t, f)]
           edges  == UNION {EdgesOf(t, f, Present(t)) : f \in Files}
           rows   == [EmptyStore EXCEPT !.chunks = chunks, !.edges = edges]
<1>1. FullRows(t) = Bm25Build(rows)
  BY DEF FullRows
<1>2. rows.chunks = chunks /\ rows.edges = edges /\ rows.states = [f \in Files |-> NONE]
  BY DEF EmptyStore
<1>3. \A i \in ChunkId : i \in AllChunks(rows) <=> i \in Ids(t)
  <2>1. \A i : i \in AllChunks(rows) <=> \E f \in Files : i \in ChunksOf(t, f)
    BY <1>2 DEF AllChunks
  <2> SUFFICES ASSUME NEW i \in ChunkId
               PROVE  (\E f \in Files : i \in ChunksOf(t, f)) <=> t[i[1]] = i[2]
    BY <2>1 DEF Ids
  <2>2. i[1] \in Files /\ i[2] # NONE /\ i = <<i[1], i[2]>>
    BY StoreAssumption DEF ChunkId
  <2> QED
    BY <2>2 DEF ChunksOf
<1>4. edges = FullEdges(t)
  <2>1. \A f \in Files : \A e : e \in EdgesOf(t, f, Present(t)) <=>
          e \in FullEdges(t) /\ e[1] = f
    <3> SUFFICES ASSUME NEW f \in Files, NEW e
                 PROVE  e \in EdgesOf(t, f, Present(t)) <=> e \in FullEdges(t) /\ e[1] = f
      OBVIOUS
    <3>1. ASSUME e \in EdgesOf(t, f, Present(t))
          PROVE  e \in FullEdges(t) /\ e[1] = f
      BY <3>1 DEF EdgesOf, FullEdges, Present
    <3>2. ASSUME e \in FullEdges(t), e[1] = f
          PROVE  e \in EdgesOf(t, f, Present(t))
      <4>1. e = <<f, e[2]>> /\ e[2] \in Imports[t[f]] \cap Present(t) /\ t[f] # NONE
        BY <3>2 DEF FullEdges, Present
      <4> QED
        BY <4>1 DEF EdgesOf
    <3> QED
      BY <3>1, <3>2
  <2>2. \A e \in FullEdges(t) : e[1] \in Files
    BY DEF FullEdges
  <2> QED
    BY <2>1, <2>2
<1> HIDE DEF chunks, edges
<1>5. /\ Bm25Build(rows).chunks = rows.chunks /\ Bm25Build(rows).edges = rows.edges
      /\ Bm25Build(rows).states = rows.states
      /\ Bm25Build(rows).fts = [i \in ChunkId |-> IF i \in AllChunks(rows) THEN 1 ELSE 0]
  BY DEF Bm25Build, EmptyStore
<1> HIDE DEF rows
<1> QED
  BY <1>1, <1>2, <1>3, <1>4, <1>5 DEF chunks

LEMMA RowsServe ==
    ASSUME NEW t \in Tree, NEW st, Rows(st, t)
    PROVE  Serves(st, t)
BY FullRowsAre DEF Rows, Serves

\* An index is of one snapshot.
LEMMA ServesOne ==
    ASSUME NEW t \in Tree, NEW u \in Tree, NEW st, Serves(st, t), Serves(st, u)
    PROVE  t = u
<1>1. [f \in Files |-> ChunksOf(t, f)] = [f \in Files |-> ChunksOf(u, f)]
  <2>1. FullRows(t).chunks = [f \in Files |-> ChunksOf(t, f)]
    BY FullRowsAre
  <2>2. FullRows(u).chunks = [f \in Files |-> ChunksOf(u, f)]
    BY FullRowsAre
  <2> QED
    BY <2>1, <2>2 DEF Serves
<1>2. ASSUME NEW f \in Files
      PROVE  t[f] = u[f]
  <2>1. ChunksOf(t, f) = ChunksOf(u, f)
    <3> DEFINE T == [x \in Files |-> ChunksOf(t, x)]
               U == [x \in Files |-> ChunksOf(u, x)]
    <3>1. T[f] = U[f]
      BY <1>1
    <3> QED
      BY <3>1
  <2>2. \A v, w \in Tree : v[f] # NONE /\ ChunksOf(v, f) = ChunksOf(w, f) => v[f] = w[f]
    <3> SUFFICES ASSUME NEW v \in Tree, NEW w \in Tree, v[f] # NONE,
                        ChunksOf(v, f) = ChunksOf(w, f)
                 PROVE  v[f] = w[f]
      OBVIOUS
    <3>1. <<f, v[f]>> \in ChunksOf(w, f)
      BY DEF ChunksOf
    <3> QED
      BY <3>1 DEF ChunksOf
  <2> QED
    BY <2>1, <2>2
<1> QED
  BY <1>2 DEF Tree

LEMMA SignatureIs ==
    Unlisted = {} => WorkingTreeSignature = SignatureOf(head, tree)
BY DEF WorkingTreeSignature, SignatureOf, Dirty

\* Against one commit, equal signatures are equal trees.
LEMMA SignatureOfOne ==
    ASSUME NEW t \in Tree, NEW u \in Tree, NEW n, history[n] \in Tree,
           SignatureOf(n, t) = SignatureOf(n, u)
    PROVE  t = u
<1> SUFFICES ASSUME NEW f \in Files PROVE t[f] = u[f]
  BY DEF Tree
<1>1. ASSUME NEW v \in Tree, NEW w \in Tree, SignatureOf(n, v) = SignatureOf(n, w),
             v[f] # history[n][f]
      PROVE  v[f] = w[f]
  <2>1. <<f, history[n][f] # NONE, v[f]>> \in SignatureOf(n, w)
    BY <1>1 DEF SignatureOf
  <2> QED
    BY <2>1 DEF SignatureOf
<1>2. CASE t[f] # history[n][f]
  BY <1>1, <1>2
<1>3. CASE u[f] # history[n][f]
  BY <1>1, <1>3
<1> QED
  BY <1>2, <1>3

---------------------------------------------------------------------------
(* Manifests say what there is to do.                                      *)

LEMMA ClassifiedDescribes ==
    ASSUME NEW t \in Tree, NEW u \in Tree,
           NEW R \in Pairings(Present(t) \ Present(u), Present(u) \ Present(t))
    PROVE  Describes(Classified(t, u, Present(t) \ Present(u), Present(u) \ Present(t),
                                Present(t) \cap Present(u), R), t, u)
<1> DEFINE gone == Present(t) \ Present(u)
           come == Present(u) \ Present(t)
           both == Present(t) \cap Present(u)
           late == {r[2] : r \in {s \in R : t[s[1]] # u[s[2]]}}
           m    == Classified(t, u, gone, come, both, R)
<1>1. /\ m.modified = {f \in both : t[f] # u[f]} \cup late
      /\ m.added = come \ {r[2] : r \in R} /\ m.deleted = gone \ {r[1] : r \in R}
      /\ m.renamed = R
  BY DEF Classified
<1>2. late \subseteq Renamed(m)
  BY <1>1 DEF Renamed
<1>3. Renamed(m) \subseteq come
  <2>1. \A r \in R : r[2] \in come
    BY DEF Pairings
  <2> HIDE DEF m, come
  <2> QED
    BY <1>1, <2>1 DEF Renamed
<1> HIDE DEF late, m
<1>4. Reprocess(m) = {f \in Files : u[f] # NONE /\ u[f] # t[f]}
  <2>1. Reprocess(m) = {f \in both : t[f] # u[f]} \cup come
    BY <1>1, <1>2, <1>3 DEF Reprocess, Renamed
  <2> QED
    BY <2>1 DEF Present
<1>5. RemovePaths(m) = {f \in Files : t[f] # NONE /\ u[f] # NONE /\ u[f] # t[f]} \cup Renamed(m)
  BY <1>1, <1>2 DEF RemovePaths, Present
<1> QED
  BY <1>1, <1>4, <1>5 DEF Describes, m

\* No renames and no states: the index is empty, and everything is new.
LEMMA MtimeDescribes ==
    ASSUME NEW t \in Tree, NEW u \in Tree, tree = u, NEW st, Rows(st, t), Present(t) = {},
           NEW m \in MtimeDeltas(st)
    PROVE  Describes(m, t, u)
<1>1. \A f \in Files : t[f] = NONE /\ st.chunks[f] = {}
  BY DEF Present, Rows, ChunksOf
<1>2. m.modified = {} /\ m.added = Present(u) /\ m.deleted = {} /\ m.renamed = {}
  BY <1>1 DEF MtimeDeltas
<1>3. Renamed(m) = {}
  BY <1>2 DEF Renamed
<1>4. {} \in Pairings(Present(t) \ Present(u), Present(u) \ Present(t))
  BY DEF Pairings
<1>5. Reprocess(m) = Present(u) /\ RemovePaths(m) = {}
  BY <1>2, <1>3 DEF Reprocess, RemovePaths
<1>6. m.deleted = (Present(t) \ Present(u)) \ {r[1] : r \in m.renamed}
  BY <1>2
<1> QED
  BY <1>1, <1>2, <1>3, <1>4, <1>5, <1>6 DEF Describes, Present

LEMMA WorkingTreeDescribes ==
    ASSUME NEW t \in Tree, tree \in Tree, NEW st, Rows(st, t), NEW m \in WorkingTreeDeltas(st)
    PROVE  Describes(m, t, tree)
<1>1. CASE Present(t) = {}
  BY <1>1, MtimeDescribes DEF WorkingTreeDeltas, Rows
<1>2. CASE Present(t) # {}
  <2> DEFINE gone == Present(t) \ Present(tree)
             come == Present(tree) \ Present(t)
  <2>1. \E R \in Pairings(gone, come) :
          m = Classified(t, tree, gone, come, Present(t) \cap Present(tree), R)
    BY <1>2 DEF WorkingTreeDeltas, Rows
  <2> QED
    BY <2>1, ClassifiedDescribes
<1> QED
  BY <1>1, <1>2

LEMMA GitDescribes ==
    ASSUME NEW base, NEW current, history[base] \in Tree, history[current] \in Tree,
           NEW m \in GitDiffs(base, current)
    PROVE  Describes(m, history[base], history[current])
<1> DEFINE old  == history[base]
           new  == history[current]
           gone == Present(old) \ Present(new)
           come == Present(new) \ Present(old)
<1>1. \E R \in Pairings(gone, come) :
        m = Classified(old, new, gone, come, Present(old) \cap Present(new), R)
  BY DEF GitDiffs
<1> QED
  BY <1>1, ClassifiedDescribes

\* A manifest without an entry is of two equal snapshots.
LEMMA NothingDescribed ==
    ASSUME NEW t \in Tree, NEW u \in Tree, Describes(NoChanges, t, u)
    PROVE  t = u
<1>1. /\ Reprocess(NoChanges) = {} /\ NoChanges.deleted = {}
      /\ {r[1] : r \in NoChanges.renamed} = {}
  BY DEF Reprocess, Renamed, NoChanges
<1>2. \A f \in Files : ~ (u[f] # NONE /\ u[f] # t[f]) /\ ~ (t[f] # NONE /\ u[f] = NONE)
  BY <1>1 DEF Describes, Present
<1> QED
  BY <1>2 DEF Tree

---------------------------------------------------------------------------
(* What each transaction of a delta does to the rows.                      *)

LEMMA RenameRow ==
    ASSUME NEW st \in StoreType, NEW r \in Files \X Files, r[1] # r[2]
    PROVE  LET new == UpdateFilePaths(st, r)
           IN  /\ new.chunks[r[1]] = {}
               /\ new.chunks[r[2]] = st.chunks[r[1]] \cup st.chunks[r[2]]
               /\ new.states[r[1]] = NONE
               /\ \A f \in Files : f # r[1] /\ f # r[2] =>
                    new.chunks[f] = st.chunks[f] /\ new.states[f] = st.states[f]
               /\ new.fts = st.fts
               /\ \A e \in new.edges : \E d \in st.edges :
                    /\ e[1] = IF d[1] = r[1] THEN r[2] ELSE d[1]
                    /\ e[2] = IF d[2] = r[1] THEN r[2] ELSE d[2]
                    /\ e = <<e[1], e[2]>>
<1> DEFINE To(f)  == IF f = r[1] THEN r[2] ELSE f
           chunks == [f \in Files |-> UNION {st.chunks[o] : o \in {x \in Files : To(x) = f}}]
           states == [f \in Files |->
                        IF f = r[1] THEN NONE
                        ELSE IF f = r[2] /\ st.states[r[1]] # NONE THEN st.states[r[1]]
                        ELSE st.states[f]]
           edges  == {<<To(e[1]), To(e[2])>> : e \in st.edges}
           new    == UpdateFilePaths(st, r)
<1>1. new = [st EXCEPT !.chunks = chunks, !.states = states, !.edges = edges]
  BY DEF UpdateFilePaths
<1>2. chunks[r[1]] = {} /\ chunks[r[2]] = st.chunks[r[1]] \cup st.chunks[r[2]]
  <2>1. {x \in Files : To(x) = r[1]} = {}
    OBVIOUS
  <2>2. {x \in Files : To(x) = r[2]} = {r[1], r[2]}
    OBVIOUS
  <2> QED
    BY <2>1, <2>2
<1>3. ASSUME NEW f \in Files, f # r[1], f # r[2]
      PROVE  chunks[f] = st.chunks[f]
  <2>1. {x \in Files : To(x) = f} = {f}
    BY <1>3
  <2> QED
    BY <2>1
<1>4. \A e \in edges : \E d \in st.edges : e = <<To(d[1]), To(d[2])>>
  OBVIOUS
<1>5. new.chunks = chunks /\ new.states = states /\ new.edges = edges /\ new.fts = st.fts
  <2> HIDE DEF chunks, states, edges, new
  <2> QED
    BY <1>1 DEF StoreType
<1> HIDE DEF chunks, edges, new
<1>6. /\ new.chunks[r[1]] = {} /\ new.chunks[r[2]] = st.chunks[r[1]] \cup st.chunks[r[2]]
      /\ new.states[r[1]] = NONE /\ new.fts = st.fts
      /\ \A f \in Files : f # r[1] /\ f # r[2] =>
            new.chunks[f] = st.chunks[f] /\ new.states[f] = st.states[f]
  BY <1>2, <1>3, <1>5
<1>7. \A e \in new.edges : \E d \in st.edges :
        /\ e[1] = IF d[1] = r[1] THEN r[2] ELSE d[1]
        /\ e[2] = IF d[2] = r[1] THEN r[2] ELSE d[2]
        /\ e = <<e[1], e[2]>>
  BY <1>4, <1>5
<1> QED
  BY <1>6, <1>7 DEF new

\* The next rename of a pairing finds its old path as it was, its new one free.
LEMMA RenameMoves ==
    ASSUME NEW t \in Tree, NEW u \in Tree, NEW st \in StoreType, NEW R, NEW D, NEW r \in R,
           R \in Pairings(Present(t) \ Present(u), Present(u) \ Present(t)),
           D \subseteq R, r \notin D, Renaming(st, t, D)
    PROVE  /\ ~ RenameConflict(st, r)
           /\ Renaming(UpdateFilePaths(st, r), t, D \cup {r})
<1> DEFINE new == UpdateFilePaths(st, r)
<1>1. /\ r \in Files \X Files /\ t[r[1]] # NONE /\ t[r[2]] = NONE /\ r[1] # r[2]
      /\ \A d \in D : /\ d[1] # r[1] /\ d[2] # r[2] /\ d[1] # r[2] /\ d[2] # r[1]
                      /\ d[1] \in Files /\ d[2] \in Files
  BY DEF Pairings, Present
<1>2. /\ st.chunks[r[1]] = ChunksOf(t, r[1]) /\ st.states[r[1]] = t[r[1]]
      /\ st.chunks[r[2]] = {} /\ st.states[r[2]] = NONE
  <2>1. r[1] \in Files /\ r[2] \in Files
    BY <1>1
  <2> QED
    BY <1>1, <2>1 DEF Renaming, ChunksOf
<1>3. /\ new.chunks[r[1]] = {} /\ new.chunks[r[2]] = ChunksOf(t, r[1])
      /\ new.states[r[1]] = NONE /\ new.fts = st.fts
      /\ \A f \in Files : f # r[1] /\ f # r[2] =>
            new.chunks[f] = st.chunks[f] /\ new.states[f] = st.states[f]
  <2>1. new.chunks[r[2]] = st.chunks[r[1]] \cup st.chunks[r[2]]
    BY <1>1, RenameRow
  <2>2. /\ new.chunks[r[1]] = {} /\ new.states[r[1]] = NONE /\ new.fts = st.fts
        /\ \A f \in Files : f # r[1] /\ f # r[2] =>
              new.chunks[f] = st.chunks[f] /\ new.states[f] = st.states[f]
    BY <1>1, RenameRow
  <2> HIDE DEF new
  <2> QED
    BY <1>2, <2>1, <2>2
<1>4. \A e \in new.edges : \E d \in st.edges :
        /\ e[1] = IF d[1] = r[1] THEN r[2] ELSE d[1]
        /\ e[2] = IF d[2] = r[1] THEN r[2] ELSE d[2]
        /\ e = <<e[1], e[2]>>
  BY <1>1, RenameRow
<1> HIDE DEF new
<1>5. ASSUME NEW e \in new.edges
      PROVE  /\ \A d \in D \cup {r} : e[1] # d[1] /\ e[2] # d[1]
             /\ e \in FullEdges(t) \/ \E d \in D \cup {r} : e[1] = d[2] \/ e[2] = d[2]
  <2>1. PICK o \in st.edges :
          /\ e[1] = IF o[1] = r[1] THEN r[2] ELSE o[1]
          /\ e[2] = IF o[2] = r[1] THEN r[2] ELSE o[2]
          /\ e = <<e[1], e[2]>>
    BY <1>4
  <2>2. o \in Files \X Files
    BY DEF StoreType
  <2>3. \A d \in D : o[1] # d[1] /\ o[2] # d[1]
    BY DEF Renaming
  <2>4. \A d \in D \cup {r} : e[1] # d[1] /\ e[2] # d[1]
    BY <1>1, <2>1, <2>3
  <2>5. CASE o[1] = r[1] \/ o[2] = r[1]
    BY <2>1, <2>4, <2>5
  <2>6. CASE o[1] # r[1] /\ o[2] # r[1]
    <3>1. e = o
      BY <2>1, <2>2, <2>6
    <3>2. o \in FullEdges(t) \/ \E d \in D : o[1] = d[2] \/ o[2] = d[2]
      BY DEF Renaming
    <3> QED
      BY <2>4, <3>1, <3>2
  <2> QED
    BY <2>5, <2>6
<1>6. \A d \in D \cup {r} : /\ new.chunks[d[1]] = {} /\ new.chunks[d[2]] = ChunksOf(t, d[1])
                            /\ new.states[d[1]] = NONE
  <2>1. \A d \in D : /\ new.chunks[d[1]] = st.chunks[d[1]] /\ new.chunks[d[2]] = st.chunks[d[2]]
                     /\ new.states[d[1]] = st.states[d[1]]
    BY <1>1, <1>3
  <2> QED
    BY <1>3, <2>1 DEF Renaming
<1>7. \A f \in Files : (\A d \in D \cup {r} : f # d[1] /\ f # d[2]) =>
        new.chunks[f] = ChunksOf(t, f) /\ new.states[f] = t[f]
  BY <1>3 DEF Renaming
<1>8. Renaming(new, t, D \cup {r})
  BY <1>3, <1>5, <1>6, <1>7 DEF Renaming
<1>9. ~ RenameConflict(st, r)
  BY <1>2 DEF RenameConflict
<1> QED
  BY <1>8, <1>9 DEF new

LEMMA DeleteTrims ==
    ASSUME NEW t \in Tree, NEW u \in Tree, NEW st \in StoreType, NEW m \in ManifestType,
           Describes(m, t, u), Renaming(st, t, m.renamed)
    PROVE  LET new == DeleteEdgesForFiles(DeleteChunksForFiles(st, m.deleted), m.deleted)
           IN  Trimmed(new, t, m, u) /\ KeptStates(new, t, m, u)
<1> DEFINE gone == m.deleted
           new  == DeleteEdgesForFiles(DeleteChunksForFiles(st, gone), gone)
           ids  == UNION {st.chunks[f] : f \in gone}
<1>1. /\ new.chunks = [f \in Files |-> IF f \in gone THEN {} ELSE st.chunks[f]]
      /\ new.fts = [i \in ChunkId |-> IF i \in ids THEN 0 ELSE st.fts[i]]
      /\ new.edges = {e \in st.edges : e[1] \notin gone /\ e[2] \notin gone}
      /\ new.states = st.states
  <2> HIDE DEF gone
  <2> QED
    BY DEF DeleteEdgesForFiles, DeleteChunksForFiles, StoreType
<1>2. \A r \in m.renamed : /\ r[1] \in Files /\ t[r[1]] # NONE /\ u[r[1]] = NONE
                           /\ r[2] \in Files /\ t[r[2]] = NONE /\ u[r[2]] # NONE
  BY DEF Describes, Pairings, Present
<1>3. \A f \in Files : f \in gone <=>
        t[f] # NONE /\ u[f] = NONE /\ \A r \in m.renamed : f # r[1]
  <2>1. gone = (Present(t) \ Present(u)) \ {r[1] : r \in m.renamed}
    BY DEF Describes
  <2> HIDE DEF gone
  <2> QED
    BY <2>1 DEF Present
<1>4. gone \subseteq Files
  BY DEF ManifestType
<1>5. \A i \in ChunkId : i \in ids <=> i \in Ids(t) /\ i[1] \in gone
  <2>1. \A f \in gone : st.chunks[f] = ChunksOf(t, f) /\ t[f] # NONE
    BY <1>2, <1>3, <1>4 DEF Renaming
  <2>2. \A i : i \in ids <=> \E f \in gone : i = <<f, t[f]>>
    BY <2>1 DEF ChunksOf
  <2>3. \A i \in ChunkId : i = <<i[1], i[2]>>
    BY DEF ChunkId
  <2> HIDE DEF ids, gone
  <2> QED
    BY <2>2, <2>3 DEF Ids
<1> HIDE DEF ids, gone, new
<1>6. \A f \in Files : t[f] # NONE /\ u[f] = NONE => new.chunks[f] = {}
  <2> SUFFICES ASSUME NEW f \in Files, t[f] # NONE, u[f] = NONE PROVE new.chunks[f] = {}
    OBVIOUS
  <2>1. CASE f \in gone
    BY <1>1, <2>1
  <2>2. CASE f \notin gone
    <3>1. PICK r \in m.renamed : f = r[1]
      BY <1>3, <2>2
    <3>2. st.chunks[f] = {}
      BY <3>1 DEF Renaming
    <3> QED
      BY <1>1, <2>2, <3>2
  <2> QED
    BY <2>1, <2>2
<1>7. \A r \in m.renamed : new.chunks[r[2]] = ChunksOf(t, r[1]) /\ new.states[r[1]] = NONE
  BY <1>1, <1>2, <1>3 DEF Renaming
<1>8. \A f \in Files : Kept(m, t, u, f) =>
        new.chunks[f] = ChunksOf(t, f) /\ new.states[f] = t[f]
  <2> SUFFICES ASSUME NEW f \in Files, Kept(m, t, u, f)
               PROVE  new.chunks[f] = ChunksOf(t, f) /\ new.states[f] = t[f]
    OBVIOUS
  <2>1. f \notin gone /\ \A r \in m.renamed : f # r[1] /\ f # r[2]
    BY <1>2, <1>3 DEF Kept, Renamed
  <2> QED
    BY <1>1, <2>1 DEF Renaming
<1>9. new.fts = [i \in ChunkId |-> IF i \in Ids(t) /\ i[1] \notin gone THEN 1 ELSE 0]
  BY <1>1, <1>5 DEF Renaming
<1>10. ASSUME NEW e \in new.edges
       PROVE  /\ \A i \in {1, 2} : t[e[i]] # NONE => u[e[i]] # NONE
              /\ e \in FullEdges(t) \/ e[1] \in Renamed(m) \/ e[2] \in Renamed(m)
  <2>1. e \in st.edges /\ e[1] \notin gone /\ e[2] \notin gone
    BY <1>1
  <2>2. e[1] \in Files /\ e[2] \in Files
    BY <2>1 DEF StoreType
  <2> QED
    BY <1>3, <2>1, <2>2 DEF Renaming, Renamed
<1>11. Trimmed(new, t, m, u)
  BY <1>6, <1>7, <1>8, <1>9, <1>10 DEF Trimmed, gone
<1> QED
  BY <1>7, <1>8, <1>11 DEF KeptStates, new, gone

LEMMA ForgetForgets ==
    ASSUME NEW t \in Tree, NEW u \in Tree, NEW st \in StoreType, NEW m \in ManifestType,
           Describes(m, t, u), Trimmed(st, t, m, u), KeptStates(st, t, m, u)
    PROVE  LET new == DeleteFileStates(st, m.deleted)
           IN  /\ Trimmed(new, t, m, u) /\ KeptStates(new, t, m, u)
               /\ Forgotten(new, t, u)
<1> DEFINE new == DeleteFileStates(st, m.deleted)
<1>1. /\ new.chunks = st.chunks /\ new.fts = st.fts /\ new.edges = st.edges
      /\ new.states = [f \in Files |-> IF f \in m.deleted THEN NONE ELSE st.states[f]]
  BY DEF DeleteFileStates, StoreType
<1>2. \A f \in Files : f \in m.deleted <=>
        t[f] # NONE /\ u[f] = NONE /\ \A r \in m.renamed : f # r[1]
  <2>1. m.deleted = (Present(t) \ Present(u)) \ {r[1] : r \in m.renamed}
    BY DEF Describes
  <2> QED
    BY <2>1 DEF Present
<1>3. \A r \in m.renamed : r[1] \in Files
  BY DEF Describes, Pairings, Present
<1> HIDE DEF new
<1>4. Trimmed(new, t, m, u)
  BY <1>1 DEF Trimmed
<1>5. KeptStates(new, t, m, u)
  BY <1>1, <1>2, <1>3 DEF KeptStates, Kept
<1>6. Forgotten(new, t, u)
  BY <1>1, <1>2, <1>3 DEF Forgotten, KeptStates
<1> QED
  BY <1>4, <1>5, <1>6 DEF new

LEMMA RecordRecords ==
    ASSUME NEW t \in Tree, NEW u \in Tree, NEW st \in StoreType, NEW m \in ManifestType,
           Describes(m, t, u), Trimmed(st, t, m, u), KeptStates(st, t, m, u),
           Forgotten(st, t, u), NEW paths,
           paths = {f \in Files : u[f] # NONE /\ u[f] # t[f]}
    PROVE  LET new == UpsertFileStates(st, paths, u)
           IN  Trimmed(new, t, m, u) /\ new.states = u
<1> DEFINE new == UpsertFileStates(st, paths, u)
<1>1. /\ new.chunks = st.chunks /\ new.fts = st.fts /\ new.edges = st.edges
      /\ new.states = [f \in Files |-> IF f \in paths /\ u[f] # NONE THEN u[f] ELSE st.states[f]]
  <2> HIDE DEF Tree
  <2> QED
    BY DEF UpsertFileStates, StoreType
<1>2. ASSUME NEW f \in Files
      PROVE  new.states[f] = u[f]
  <2>1. CASE f \in paths
    BY <1>1, <2>1
  <2>2. CASE f \notin paths /\ t[f] # NONE /\ u[f] = NONE
    BY <1>1, <2>2 DEF Forgotten
  <2>3. CASE f \notin paths /\ (t[f] # NONE => u[f] # NONE)
    <3>1. f \notin Renamed(m) /\ u[f] = t[f]
      <4>1. Renamed(m) \subseteq Reprocess(m)
        BY DEF Reprocess
      <4> QED
        BY <2>3, <4>1 DEF Describes
    <3> QED
      BY <1>1, <2>3, <3>1 DEF KeptStates, Kept
  <2> QED
    BY <2>1, <2>2, <2>3
<1> HIDE DEF new
<1>3. new.states = u
  <2>1. new.states = [f \in Files |-> new.states[f]]
    BY <1>1
  <2> QED
    BY <1>2, <2>1 DEF Tree
<1>4. Trimmed(new, t, m, u)
  BY <1>1 DEF Trimmed
<1> QED
  BY <1>3, <1>4 DEF new

LEMMA SwapSwaps ==
    ASSUME NEW t \in Tree, NEW u \in Tree, NEW st \in StoreType, NEW m \in ManifestType,
           Describes(m, t, u), Trimmed(st, t, m, u), st.states = u, NEW sources,
           sources = {f \in Files : u[f] # NONE /\ u[f] # t[f]}
    PROVE  Swapped(DeleteAndInsertForFiles(st, RemovePaths(m), sources, u, Present(u)), t, u)
<1> DEFINE paths == RemovePaths(m)
           cut   == DeleteEdgesForFiles(DeleteChunksForFiles(st, paths), paths)
           ids   == UNION {st.chunks[f] : f \in paths}
           fresh == UNION {ChunksOf(u, f) : f \in sources}
           new   == DeleteAndInsertForFiles(st, paths, sources, u, Present(u))
<1>1. /\ cut.chunks = [f \in Files |-> IF f \in paths THEN {} ELSE st.chunks[f]]
      /\ cut.fts = [i \in ChunkId |-> IF i \in ids THEN 0 ELSE st.fts[i]]
      /\ cut.edges = {e \in st.edges : e[1] \notin paths /\ e[2] \notin paths}
      /\ cut.states = st.states
  <2> HIDE DEF paths
  <2> QED
    BY DEF DeleteEdgesForFiles, DeleteChunksForFiles, StoreType
<1>2. cut \in StoreType
  BY DeleteChunksTyped, DeleteEdgesTyped
<1>3. /\ new.chunks = [f \in Files |-> (cut.chunks[f] \ fresh) \cup {i \in fresh : i[1] = f}]
      /\ new.edges = cut.edges \cup UNION {EdgesOf(u, f, Present(u)) : f \in sources}
      /\ new.fts = cut.fts /\ new.states = cut.states
  <2>1. new = [cut EXCEPT
            !.chunks = [f \in Files |-> (cut.chunks[f] \ fresh) \cup {i \in fresh : i[1] = f}],
            !.edges  = cut.edges \cup UNION {EdgesOf(u, f, Present(u)) : f \in sources}]
    BY DEF DeleteAndInsertForFiles
  <2> HIDE DEF new, cut, fresh
  <2> QED
    BY <1>2, <2>1 DEF StoreType
<1>4. \A f \in Files : f \in paths <=>
        (t[f] # NONE /\ u[f] # NONE /\ u[f] # t[f]) \/ f \in Renamed(m)
  BY DEF Describes
<1>5. \A f \in Renamed(m) : f \in Files /\ t[f] = NONE /\ u[f] # NONE
  <2>1. \A r \in m.renamed : r[2] \in Files /\ t[r[2]] = NONE /\ u[r[2]] # NONE
    BY DEF Describes, Pairings, Present
  <2> QED
    BY <2>1 DEF Renamed
<1>6. \A i : i \in fresh <=> \E f \in sources : i = <<f, u[f]>>
  BY DEF ChunksOf
<1> HIDE DEF paths, cut, ids, fresh, new
<1>7. ASSUME NEW f \in Files
      PROVE  new.chunks[f] = ChunksOf(u, f)
  <2>1. new.chunks[f] = (cut.chunks[f] \ fresh) \cup {i \in fresh : i[1] = f}
    BY <1>3
  <2>2. CASE f \in sources
    <3>1. cut.chunks[f] = {}
      <4>1. CASE f \in paths
        BY <1>1, <4>1
      <4>2. CASE f \notin paths
        <5>1. t[f] = NONE /\ Kept(m, t, u, f)
          BY <1>4, <2>2, <4>2 DEF Kept
        <5> QED
          BY <1>1, <4>2, <5>1 DEF Trimmed, ChunksOf
      <4> QED
        BY <4>1, <4>2
    <3>2. {i \in fresh : i[1] = f} = {<<f, u[f]>>}
      BY <1>6, <2>2
    <3> QED
      BY <2>1, <2>2, <3>1, <3>2 DEF ChunksOf
  <2>3. CASE f \notin sources
    <3>1. \A i \in fresh : i[1] # f
      BY <1>6, <2>3
    <3>2. cut.chunks[f] = ChunksOf(u, f)
      <4>1. CASE t[f] # NONE /\ u[f] = NONE
        BY <1>1, <4>1 DEF Trimmed, ChunksOf
      <4>2. CASE ~ (t[f] # NONE /\ u[f] = NONE)
        <5>1. u[f] = t[f] /\ f \notin paths
          BY <1>4, <1>5, <2>3, <4>2
        <5>2. Kept(m, t, u, f)
          BY <1>4, <4>2, <5>1 DEF Kept
        <5> QED
          BY <1>1, <5>1, <5>2 DEF Trimmed, ChunksOf
      <4> QED
        BY <4>1, <4>2
    <3>3. \A i \in ChunksOf(u, f) : i[1] = f
      BY DEF ChunksOf
    <3> QED
      BY <2>1, <3>1, <3>2, <3>3
  <2> QED
    BY <2>2, <2>3
<1>8. ASSUME NEW i \in ChunkId
      PROVE  new.fts[i] = IF i \in Ids(t) \cap Ids(u) THEN 1 ELSE 0
  <2>1. /\ new.fts[i] = IF i \in ids THEN 0 ELSE st.fts[i]
        /\ st.fts[i] = IF i \in Ids(t) /\ i[1] \notin m.deleted THEN 1 ELSE 0
        /\ i[1] \in Files /\ i[2] # NONE /\ i = <<i[1], i[2]>>
    BY <1>1, <1>3, StoreAssumption DEF Trimmed, ChunkId
  <2> DEFINE f == i[1]
  <2>2. i \in ids <=> \E x \in paths : i \in st.chunks[x]
    BY DEF ids
  <2>3. CASE i \in Ids(t) /\ i \in Ids(u)
    <3>1. t[f] = i[2] /\ u[f] = i[2]
      BY <2>3 DEF Ids
    <3>2. f \notin m.deleted
      BY <2>1, <3>1 DEF Describes, Present
    <3>3. ASSUME NEW x \in paths, i \in st.chunks[x]
          PROVE  FALSE
      <4>1. CASE x \in Renamed(m)
        <5>1. PICK r \in m.renamed : x = r[2]
          BY <4>1 DEF Renamed
        <5>2. st.chunks[x] = ChunksOf(t, r[1]) /\ r[1] \in Files /\ u[r[1]] = NONE
          BY <5>1 DEF Trimmed, Describes, Pairings, Present
        <5>3. f = r[1]
          BY <3>3, <5>2 DEF ChunksOf
        <5> QED
          BY <2>1, <3>1, <5>2, <5>3
      <4>2. CASE x \notin Renamed(m)
        <5>1. x \in Files /\ t[x] # NONE /\ u[x] # NONE /\ u[x] # t[x]
          BY <4>2 DEF Describes, paths
        <5>2. st.chunks[x] = ChunksOf(t, x)
          BY <4>2, <5>1 DEF Trimmed, Kept
        <5>3. f = x
          BY <3>3, <5>2 DEF ChunksOf
        <5> QED
          BY <3>1, <5>1, <5>3
      <4> QED
        BY <4>1, <4>2
    <3> QED
      BY <2>1, <2>2, <2>3, <3>2, <3>3
  <2>4. CASE i \in Ids(t) /\ i \notin Ids(u)
    <3>1. t[f] = i[2] /\ u[f] # t[f]
      BY <2>4 DEF Ids
    <3>0. i \in ChunksOf(t, f)
      <4> HIDE DEF f
      <4>1. i = <<f, t[f]>> /\ t[f] # NONE
        BY <2>1, <3>1 DEF f
      <4> QED
        BY <4>1 DEF ChunksOf
    <3>2. CASE u[f] # NONE
      <4>1. f \in paths /\ Kept(m, t, u, f)
        BY <1>4, <1>5, <2>1, <3>1, <3>2 DEF Kept
      <4>2. i \in st.chunks[f]
        BY <2>1, <3>0, <4>1 DEF Trimmed
      <4> QED
        BY <2>1, <2>2, <2>4, <4>1, <4>2
    <3>3. CASE u[f] = NONE
      <4>1. CASE f \in m.deleted
        BY <2>1, <2>4, <4>1
      <4>2. CASE f \notin m.deleted
        <5>1. PICK r \in m.renamed : f = r[1]
          BY <2>1, <3>1, <3>3, <4>2 DEF Describes, Present
        <5>2. i \in st.chunks[r[2]]
          BY <3>0, <5>1 DEF Trimmed
        <5>3. r[2] \in paths
          BY <1>4, <1>5 DEF Renamed
        <5> QED
          BY <2>1, <2>2, <2>4, <5>2, <5>3
      <4> QED
        BY <4>1, <4>2
    <3> QED
      BY <3>2, <3>3
  <2>5. CASE i \notin Ids(t)
    BY <2>1, <2>5
  <2> QED
    BY <2>3, <2>4, <2>5
<1>9. ASSUME NEW e \in new.edges
      PROVE  e \in FullEdges(u)
  <2>1. CASE e \in cut.edges
    <3>1. /\ e \in st.edges /\ e[1] \notin paths /\ e[2] \notin paths
          /\ e \in Files \X Files
      BY <1>1, <2>1 DEF StoreType
    <3>2. e \in FullEdges(t) /\ \A i \in {1, 2} : t[e[i]] # NONE => u[e[i]] # NONE
      BY <1>4, <1>5, <3>1 DEF Trimmed
    <3>3. u[e[1]] = t[e[1]] /\ u[e[2]] = t[e[2]] /\ u[e[2]] # NONE
      BY <1>4, <3>1, <3>2 DEF FullEdges
    <3> QED
      BY <3>1, <3>2, <3>3 DEF FullEdges
  <2>2. CASE \E f \in sources : e \in EdgesOf(u, f, Present(u))
    <3>1. PICK f \in sources : e \in EdgesOf(u, f, Present(u))
      BY <2>2
    <3>2. f \in Files /\ u[f] # NONE
      OBVIOUS
    <3>3. e[1] = f /\ e = <<e[1], e[2]>> /\ e[2] \in Imports[u[f]] /\ e[2] \in Present(u)
      BY <3>1, <3>2 DEF EdgesOf
    <3> QED
      BY <3>2, <3>3 DEF FullEdges, Present
  <2> QED
    BY <1>3, <2>1, <2>2
<1>10. new.fts = [i \in ChunkId |-> IF i \in Ids(t) \cap Ids(u) THEN 1 ELSE 0]
  <2>1. new.fts = [i \in ChunkId |-> new.fts[i]]
    BY <1>1, <1>3
  <2> QED
    BY <1>8, <2>1
<1>11. new.chunks = [f \in Files |-> ChunksOf(u, f)]
  <2>1. new.chunks = [f \in Files |-> new.chunks[f]]
    BY <1>3
  <2> QED
    BY <1>7, <2>1
<1> QED
  BY <1>1, <1>3, <1>9, <1>10, <1>11 DEF Swapped, new, paths

LEMMA Bm25Fresh ==
    ASSUME NEW t \in Tree, NEW u \in Tree, NEW st \in StoreType, Swapped(st, t, u), NEW sources,
           sources = {f \in Files : u[f] # NONE /\ u[f] # t[f]}
    PROVE  Rows(Bm25Build(st), u) /\ Rows(Bm25Update(st, sources, u), u)
<1>1. \A i \in ChunkId : i[1] \in Files /\ i[2] # NONE /\ i = <<i[1], i[2]>>
  BY StoreAssumption DEF ChunkId
<1>2. \A i \in ChunkId : i \in AllChunks(st) <=> i \in Ids(u)
  <2>1. \A i : i \in AllChunks(st) <=> \E f \in Files : i \in ChunksOf(u, f)
    BY DEF AllChunks, Swapped
  <2> SUFFICES ASSUME NEW i \in ChunkId
               PROVE  (\E f \in Files : i \in ChunksOf(u, f)) <=> u[i[1]] = i[2]
    BY <2>1 DEF Ids
  <2> QED
    BY <1>1 DEF ChunksOf
<1>3. Rows(Bm25Build(st), u)
  <2>1. /\ Bm25Build(st).chunks = st.chunks /\ Bm25Build(st).edges = st.edges
        /\ Bm25Build(st).states = st.states
        /\ Bm25Build(st).fts = [i \in ChunkId |-> IF i \in AllChunks(st) THEN 1 ELSE 0]
    BY DEF Bm25Build, StoreType
  <2> QED
    BY <1>2, <2>1 DEF Rows, Swapped
<1>4. Rows(Bm25Update(st, sources, u), u)
  <2> DEFINE fresh == UNION {ChunksOf(u, f) : f \in sources}
             new   == Bm25Update(st, sources, u)
  <2>1. /\ new.chunks = st.chunks /\ new.edges = st.edges /\ new.states = st.states
        /\ new.fts = [i \in ChunkId |-> IF i \in fresh THEN InsertRow(st.fts[i]) ELSE st.fts[i]]
    BY DEF Bm25Update, StoreType
  <2>2. \A i \in ChunkId : i \in fresh <=> i \in Ids(u) /\ i \notin Ids(t)
    <3> SUFFICES ASSUME NEW i \in ChunkId
                 PROVE  i \in fresh <=> u[i[1]] = i[2] /\ t[i[1]] # i[2]
      BY DEF Ids
    <3>1. i \in fresh <=> \E f \in sources : i = <<f, u[f]>>
      BY DEF ChunksOf
    <3>2. i \in fresh => u[i[1]] = i[2] /\ t[i[1]] # i[2]
      BY <3>1
    <3>3. ASSUME u[i[1]] = i[2], t[i[1]] # i[2]
          PROVE  i \in fresh
      <4>1. i[1] \in sources /\ i = <<i[1], u[i[1]]>>
        BY <1>1, <3>3
      <4> QED
        BY <3>1, <4>1
    <3> QED
      BY <3>2, <3>3
  <2>3. InsertRow(0) = 1
    BY StoreAssumption DEF InsertRow
  <2>4. \A i \in ChunkId : st.fts[i] = IF i \in Ids(t) \cap Ids(u) THEN 1 ELSE 0
    BY DEF Swapped
  <2> HIDE DEF fresh, new
  <2>5. \A i \in ChunkId : new.fts[i] = IF i \in Ids(u) THEN 1 ELSE 0
    BY <2>1, <2>2, <2>3, <2>4
  <2>6. new.fts = [i \in ChunkId |-> IF i \in Ids(u) THEN 1 ELSE 0]
    BY <2>1, <2>5
  <2> QED
    BY <2>1, <2>6 DEF Rows, Swapped, new
<1> QED
  BY <1>3, <1>4

---------------------------------------------------------------------------
(* The steps of a call, each judged by what the ones before established.   *)

LEMMA OneDatabase ==
    ASSUME Undisturbed
    PROVE  /\ 0 \in Path /\ NONE # 0
           /\ \A key : DbPath(key) = 0
BY RepositoryAssumption, PathAssumption DEF Undisturbed, DbPath, Path

LEMMA OneCall ==
    ASSUME Undisturbed, NEW p \in Procs, CallFresh(p)',
           \A x \in Path \ {0} : dbs'[x] = NONE,
           pc'[p] \in Resting \/ (pc'[p] = "put_db" /\ call'[p].path = NONE) => AtRest'
    PROVE  FreshInv'
<1>1. \A q \in Procs : q = p
  BY DEF Undisturbed
<1> QED
  BY <1>1 DEF FreshInv

LEMMA StillAtRest ==
    ASSUME AtRest, UNCHANGED <<dbs, metas, history, head>>
    PROVE  AtRest'
BY DEF AtRest, SettledAs, Signed, SignatureOf

\* The database of a call that has brought it up to date.
LEMMA CurrentSettles ==
    ASSUME Undisturbed, RepoTypeOK, Current(dbs[0]), metas[0] \in {NONE, head},
           CleanCallsOnly => tree = history[head]
    PROVE  AtRest
<1>1. SettledAs(dbs[0], tree) /\ Signed(dbs[0], tree)
  BY SignatureIs DEF Undisturbed, Current, SettledAs, Signed, RepoTypeOK
<1> QED
  BY <1>1 DEF AtRest, RepoTypeOK, Current

\* The user adds commits and moves between them, but changes none.
LEMMA CommitsStay ==
    ASSUME IInv, Undisturbed, User
    PROVE  /\ \A n \in Commit : history[n] \in Tree => history'[n] = history[n]
           /\ ~ CleanCallsOnly => head' = head
<1>1. \A n \in Commit : history[n] \in Tree => history'[n] = history[n]
  <2>1. CASE UserCommits
    <3>1. PICK n \in Commit : history[n] = NONE /\ \E t : history' = [history EXCEPT ![n] = t]
      BY <2>1 DEF UserCommits, GitCommit
    <3> QED
      BY <3>1, RepositoryAssumption DEF IInv, TypeOK, RepoTypeOK
  <2>2. CASE ~ UserCommits
    BY <2>2 DEF User, UserEdits, UserChecksOut, Edit, Checkout
  <2> QED
    BY <2>1, <2>2
<1>2. ~ CleanCallsOnly => head' = head
  BY DEF Undisturbed, User, UserEdits, UserCommits, UserChecksOut, Edit
<1> QED
  BY <1>1, <1>2

LEMMA UserFresh ==
    ASSUME IInv, Undisturbed, FreshInv, User
    PROVE  FreshInv'
<1>1. Idle /\ UNCHANGED <<pc, call, dbs, metas>>
  BY DEF User, UserEdits, UserCommits, UserChecksOut, Moved, Undisturbed, procVars, diskVars
<1>2. ASSUME NEW p \in Procs
      PROVE  AtRest'
  <2>1. AtRest
    BY <1>1 DEF Idle, FreshInv, Resting
  <2> QED
    BY <1>1, <2>1, CommitsStay DEF AtRest, SettledAs, Signed, SignatureOf
<1>3. \A p \in Procs : CallFresh(p)'
  BY <1>1 DEF Idle, CallFresh, OnDatabase, Applying
<1> QED
  BY <1>1, <1>2, <1>3 DEF FreshInv

LEMMA EntryFresh ==
    ASSUME IInv, Undisturbed, FreshInv, NEW p \in Procs,
           (\E cfg \in Configs : Begin(p, cfg)) \/ TakeSignature(p)
    PROVE  FreshInv'
<1>1. UNCHANGED <<repoVars, dbs, metas>> /\ call[p] \in CallType
  BY DEF Begin, TakeSignature, diskVars, IInv, TypeOK
<1>2. pc[p] \in {"idle", "signature"} /\ pc'[p] \in {"signature", "lookup"} /\ AtRest
  BY DEF Begin, TakeSignature, At, Goto, IInv, TypeOK, FreshInv, Resting
<1>3. AtRest'
  BY <1>1, <1>2, StillAtRest DEF repoVars
<1>4. CallFresh(p)'
  <2>1. ASSUME NEW cfg \in Configs, Begin(p, cfg)
        PROVE  CallFresh(p)'
    <3>1. /\ pc'[p] = "signature" /\ seen'[p] = {tree}
          /\ call'[p] = [NoCall EXCEPT !.key = head, !.config = cfg]
      BY <2>1 DEF Begin, Goto, IInv, TypeOK
    <3>2. call'[p].key = head /\ ~ call'[p].detached /\ call'[p].path = NONE
      BY <3>1 DEF NoCall
    <3>3. ASSUME CleanCallsOnly PROVE tree = history[head]
      <4>1. \A f \in Files : tree[f] = history[head][f]
        BY <2>1, <3>3 DEF Begin, Dirty
      <4> QED
        BY <4>1 DEF IInv, TypeOK, RepoTypeOK, Tree
    <3> QED
      BY <1>1, <3>1, <3>2, <3>3 DEF CallFresh, OnDatabase, Applying, repoVars
  <2>2. CASE TakeSignature(p)
    <3>1. /\ pc[p] = "signature" /\ pc'[p] = "lookup" /\ seen' = seen
          /\ call'[p] = [call[p] EXCEPT !.signature = WorkingTreeSignature]
      BY <2>2 DEF TakeSignature, At, Goto, IInv, TypeOK
    <3>2. /\ call'[p].key = call[p].key /\ call'[p].detached = call[p].detached
          /\ call'[p].path = call[p].path /\ call'[p].signature = WorkingTreeSignature
      BY <1>1, <3>1 DEF CallType
    <3>3. WorkingTreeSignature' = WorkingTreeSignature
      BY <1>1 DEF WorkingTreeSignature, Dirty, repoVars
    <3> QED
      BY <1>1, <3>1, <3>2, <3>3 DEF FreshInv, CallFresh, OnDatabase, Applying, repoVars
  <2> QED
    BY <2>1, <2>2
<1> QED
  BY <1>1, <1>3, <1>4, OneCall DEF FreshInv

\* An exact hit: one commit, one signature, hence one tree.
LEMMA CacheHitFresh ==
    ASSUME IInv, Undisturbed, FreshInv, SignaturesTaken, NEW p \in Procs, CacheHit(p)
    PROVE  FreshInv'
<1>1. /\ pc[p] = "lookup" /\ pc'[p] = "done" /\ result'[p] = dbs[0]
      /\ UNCHANGED <<repoVars, diskVars, call, seen>>
      /\ CacheGet(call[p].key) /\ SignatureMatches(p, dbs[0])
  BY OneDatabase DEF CacheHit, At, Goto, IInv, TypeOK
<1>2. AtRest /\ CallFresh(p)
  BY <1>1 DEF FreshInv, Resting
<1>3. /\ call[p].key = head /\ metas[0] = head /\ dbs[0] # NONE
      /\ dbs[0].signature = WorkingTreeSignature
  BY <1>1, <1>2, OneDatabase DEF CallFresh, SignaturesTaken, CacheGet, SignatureMatches, Undisturbed
<1>4. tree \in Tree /\ history[head] \in Tree /\ head \in Commit /\ head # NONE
  BY PathAssumption DEF IInv, TypeOK, RepoTypeOK, Commit, Path
<1>5. PICK t \in Tree : SettledAs(dbs[0], t) /\ Signed(dbs[0], t)
  BY <1>2, <1>3, <1>4 DEF AtRest
<1>6. dbs[0].commit = head
  BY <1>2, <1>3, <1>4 DEF AtRest
<1>7. t = tree
  BY <1>3, <1>4, <1>5, <1>6, SignatureIs, SignatureOfOne DEF SettledAs, Signed, Undisturbed
<1>8. Rows(result'[p], tree)
  BY <1>1, <1>5, <1>7 DEF SettledAs
<1>9. AtRest' /\ WorkingTreeSignature' = WorkingTreeSignature
  BY <1>1, <1>2, StillAtRest DEF repoVars, diskVars, WorkingTreeSignature, Dirty
<1>10. CallFresh(p)'
  BY <1>1, <1>2, <1>8, <1>9 DEF CallFresh, OnDatabase, Applying, repoVars
<1> QED
  BY <1>1, <1>9, <1>10, OneCall DEF FreshInv, diskVars

LEMMA CacheRejectFresh ==
    ASSUME IInv, Undisturbed, FreshInv, NEW p \in Procs, CacheReject(p)
    PROVE  FreshInv'
<1>1. pc[p] = "lookup" /\ pc'[p] = "find" /\ UNCHANGED <<repoVars, seen>>
  BY DEF CacheReject, At, Goto, IInv, TypeOK
<1>2. call'[p] = call[p]
  BY <1>1 DEF CacheReject, Detach, IInv, TypeOK
<1>3. \/ UNCHANGED <<dbs, metas>>
      \/ dbs' = [dbs EXCEPT ![0] = NONE] /\ metas' = [metas EXCEPT ![0] = NONE]
  BY OneDatabase DEF CacheReject, diskVars
<1>4. AtRest /\ CallFresh(p)
  BY <1>1 DEF FreshInv, Resting
<1>5. AtRest'
  <2>1. CASE UNCHANGED <<dbs, metas>>
    BY <1>1, <1>4, <2>1, StillAtRest DEF repoVars
  <2>2. CASE dbs' = [dbs EXCEPT ![0] = NONE] /\ metas' = [metas EXCEPT ![0] = NONE]
    BY <2>2, OneDatabase DEF AtRest, IInv, TypeOK
  <2> QED
    BY <1>3, <2>1, <2>2
<1>6. \A x \in Path \ {0} : dbs'[x] = NONE
  BY <1>3 DEF FreshInv, IInv, TypeOK
<1>7. CallFresh(p)'
  BY <1>1, <1>2, <1>4 DEF CallFresh, OnDatabase, Applying, repoVars, WorkingTreeSignature, Dirty
<1> QED
  BY <1>5, <1>6, <1>7, OneCall

LEMMA FindFresh ==
    ASSUME IInv, Undisturbed, FreshInv, NEW p \in Procs, FindStore(p) \/ NoUsableStore(p)
    PROVE  FreshInv'
<1>1. /\ pc[p] = "find" /\ UNCHANGED <<repoVars, dbs, metas, seen>> /\ call[p] \in CallType
      /\ WorkingTreeSignature' = WorkingTreeSignature
  BY DEF FindStore, NoUsableStore, At, IInv, TypeOK, diskVars, WorkingTreeSignature, Dirty, repoVars
<1>2. AtRest /\ CallFresh(p)
  BY <1>1 DEF FreshInv, Resting
<1>3. AtRest'
  BY <1>1, <1>2, StillAtRest DEF repoVars
<1>4. CallFresh(p)'
  <2>1. CASE NoUsableStore(p)
    <3>1. pc'[p] = "full" /\ call'[p] = call[p]
      BY <2>1 DEF NoUsableStore, Goto, IInv, TypeOK
    <3> QED
      BY <1>1, <1>2, <3>1 DEF CallFresh, OnDatabase, Applying, repoVars
  <2>2. CASE FindStore(p)
    <3>1. PICK path \in Published :
            call' = [call EXCEPT ![p].path = path, ![p].base = dbs[path].commit,
                                 ![p].current = head]
      BY <2>2 DEF FindStore
    <3>2. path = 0 /\ dbs[0] # NONE
      BY DEF FreshInv, Published
    <3>3. /\ pc'[p] = "manifest"
          /\ call'[p] = [call[p] EXCEPT !.path = path, !.base = dbs[path].commit, !.current = head]
      BY <2>2, <3>1 DEF FindStore, Goto, IInv, TypeOK
    <3>4. /\ call'[p].path = 0 /\ call'[p].base = dbs[0].commit /\ call'[p].current = head
          /\ call'[p].key = call[p].key /\ call'[p].detached = call[p].detached
          /\ call'[p].signature = call[p].signature
      BY <1>1, <3>2, <3>3 DEF CallType
    <3> QED
      BY <1>1, <1>2, <3>2, <3>3, <3>4 DEF CallFresh, OnDatabase, Applying, repoVars
  <2> QED
    BY <2>1, <2>2
<1> QED
  BY <1>1, <1>3, <1>4, OneCall DEF FreshInv

\* Whichever question git or the file system is asked, the manifest leads from
\* the snapshot in the database to the working tree.
LEMMA ManifestDescribes ==
    ASSUME IInv, Undisturbed, FreshInv, NEW p \in Procs, pc[p] = "manifest",
           NEW m \in Manifests(p), NEW t \in Tree, SettledAs(dbs[0], t)
    PROVE  Describes(m, t, tree)
<1>1. /\ CallFresh(p) /\ tree \in Tree /\ history[head] \in Tree
  BY DEF FreshInv, IInv, TypeOK, RepoTypeOK
<1>2. /\ call[p].path = 0 /\ call[p].current = head /\ call[p].base = dbs[0].commit
      /\ dbs[0] # NONE
  BY <1>1 DEF CallFresh, OnDatabase
<1>3. CASE call[p].base = call[p].current
  <2>1. m \in WorkingTreeDeltas(dbs[0])
    BY <1>2, <1>3 DEF Manifests, Opened
  <2> QED
    BY <1>1, <2>1, WorkingTreeDescribes DEF SettledAs
<1>4. CASE call[p].base # call[p].current
  <2>1. m \in GitDiffs(dbs[0].commit, head) /\ CleanCallsOnly
    BY <1>2, <1>4 DEF Manifests, SettledAs
  <2>2. t = history[dbs[0].commit] /\ tree = history[head]
    BY <1>1, <2>1 DEF SettledAs, CallFresh
  <2> QED
    BY <1>1, <2>1, <2>2, GitDescribes
<1> QED
  BY <1>3, <1>4

\* A delta that is not taken, or not to be had: the database stays as it is.
LEMMA GiveUpFresh ==
    ASSUME IInv, Undisturbed, FreshInv, NEW p \in Procs, pc[p] = "manifest",
           pc' = [pc EXCEPT ![p] = "full"], call' = [call EXCEPT ![p].path = NONE],
           dbs' = dbs \/ dbs' = [dbs EXCEPT ![call[p].path] = Opened(call[p].path)],
           UNCHANGED <<repoVars, metas, scratch, result, seen, moves, crashes>>
    PROVE  FreshInv'
<1>1. AtRest /\ CallFresh(p) /\ call[p] \in CallType
  BY DEF FreshInv, Resting, IInv, TypeOK
<1>2. dbs' = dbs
  BY <1>1, OneDatabase DEF CallFresh, OnDatabase, Opened, IInv, TypeOK
<1>3. AtRest'
  BY <1>1, <1>2, StillAtRest DEF repoVars
<1>4. pc'[p] = "full" /\ call'[p] = [call[p] EXCEPT !.path = NONE]
  BY DEF IInv, TypeOK
<1>5. /\ call'[p].path = NONE /\ call'[p].key = call[p].key
      /\ call'[p].detached = call[p].detached /\ call'[p].signature = call[p].signature
  BY <1>1, <1>4 DEF CallType
<1>6. CallFresh(p)'
  BY <1>1, <1>4, <1>5 DEF CallFresh, OnDatabase, Applying, repoVars, WorkingTreeSignature, Dirty
<1> QED
  BY <1>2, <1>3, <1>6, OneCall DEF FreshInv

\* The hash-confirmed delta: nothing to do is said of a current index only.
LEMMA ComputeManifestFresh ==
    ASSUME IInv, Undisturbed, FreshInv, NEW p \in Procs, ComputeManifest(p)
    PROVE  FreshInv'
<1> DEFINE path == call[p].path
<1>1. pc[p] = "manifest" /\ UNCHANGED <<repoVars, metas, scratch, result, seen, moves, crashes>>
  BY DEF ComputeManifest, At
<1>2. PICK m \in Manifests(p) :
        LET over == TooLarge(m) /\ ~ NothingToDo(p, m)
        IN  /\ IF over /\ call[p].base # call[p].current
               THEN UNCHANGED dbs
               ELSE dbs' = [dbs EXCEPT ![path] = Opened(path)]
            /\ call' = IF over THEN [call EXCEPT ![p].path = NONE]
                       ELSE [call EXCEPT ![p].manifest = m,
                                         ![p].renames = m.renamed,
                                         ![p].rebuild = ~ HasData(Opened(path))]
            /\ Goto(p, IF over THEN "full"
                       ELSE IF NothingToDo(p, m) THEN "sign" ELSE "rename")
  BY DEF ComputeManifest
<1>3. CASE TooLarge(m) /\ ~ NothingToDo(p, m)
  BY <1>1, <1>2, <1>3, GiveUpFresh DEF Goto
<1>4. CASE ~ (TooLarge(m) /\ ~ NothingToDo(p, m))
  <2>1. /\ AtRest /\ CallFresh(p) /\ call[p] \in CallType /\ tree \in Tree
        /\ \A x \in Path \ {0} : dbs[x] = NONE
    BY <1>1 DEF FreshInv, Resting, IInv, TypeOK, RepoTypeOK
  <2>2. /\ call[p].path = 0 /\ call[p].current = head /\ call[p].base = dbs[0].commit
        /\ dbs[0] # NONE
    BY <1>1, <2>1 DEF CallFresh, OnDatabase
  <2>3. dbs' = dbs
    BY <1>2, <1>4, <2>2 DEF Opened, IInv, TypeOK
  <2>4. /\ call'[p] = [call[p] EXCEPT !.manifest = m, !.renames = m.renamed,
                                      !.rebuild = ~ HasData(Opened(path))]
        /\ pc'[p] = IF NothingToDo(p, m) THEN "sign" ELSE "rename"
    BY <1>2, <1>4 DEF Goto, IInv, TypeOK
  <2>5. /\ call'[p].path = call[p].path /\ call'[p].key = call[p].key
        /\ call'[p].detached = call[p].detached /\ call'[p].signature = call[p].signature
        /\ call'[p].base = call[p].base /\ call'[p].current = call[p].current
        /\ call'[p].manifest = m /\ call'[p].renames = m.renamed
    BY <2>1, <2>4 DEF CallType
  <2>6. NothingToDo(p, call[p].manifest)' = NothingToDo(p, m)
    BY <2>5 DEF NothingToDo
  <2>7. PICK t \in Tree : SettledAs(dbs[0], t)
    BY <2>1, <2>2 DEF AtRest
  <2>8. Describes(m, t, tree)
    BY <1>1, <2>7, ManifestDescribes
  <2>9. WorkingTreeSignature' = WorkingTreeSignature /\ tree' = tree /\ head' = head
        /\ history' = history /\ seen' = seen /\ metas' = metas
    BY <1>1 DEF repoVars, WorkingTreeSignature, Dirty
  <2>10. CASE NothingToDo(p, m)
    <3>1. t = tree /\ dbs[0].commit = head
      BY <2>1, <2>2, <2>8, <2>10, NothingDescribed DEF NothingToDo
    <3>2. Rows(dbs[0], tree) /\ metas[0] \in {NONE, head}
      BY <2>1, <2>2, <2>7, <3>1 DEF SettledAs, AtRest
    <3>3. pc'[p] = "sign"
      BY <2>4, <2>10
    <3>4. CallFresh(p)'
      BY <1>1, <2>1, <2>2, <2>3, <2>5, <2>6, <2>9, <3>1, <3>2, <3>3
         DEF CallFresh, OnDatabase, Applying
    <3> QED
      BY <2>1, <2>3, <3>3, <3>4, OneCall DEF Resting
  <2>11. CASE ~ NothingToDo(p, m)
    <3>1. pc'[p] = "rename"
      BY <2>4, <2>11
    <3>2. Renaming(dbs[0], t, m.renamed \ m.renamed)
      <4>1. Rows(dbs[0], t)
        BY <2>7 DEF SettledAs
      <4> QED
        BY <4>1 DEF Rows, Renaming
    <3>3. Underway(p)'
      BY <2>3, <2>5, <2>8, <2>9, <3>1, <3>2 DEF Underway
    <3>4. CallFresh(p)'
      BY <1>1, <2>1, <2>2, <2>5, <2>6, <2>9, <2>11, <3>1, <3>3 DEF CallFresh, OnDatabase, Applying
    <3> QED
      BY <2>1, <2>3, <3>1, <3>4, OneCall DEF Resting
  <2> QED
    BY <2>10, <2>11
<1> QED
  BY <1>3, <1>4

\* A delta works on the one database, which nobody takes away from it.
LEMMA DeltaOnDatabase ==
    ASSUME IInv, Undisturbed, FreshInv, NEW p \in Procs,
           pc[p] \in Applying \cup {"commit", "sign", "finalize"}
    PROVE  /\ Handle(p) = dbs[0] /\ dbs[0] \in StoreType
           /\ CallFresh(p) /\ call[p] \in CallType /\ tree \in Tree
           /\ \A st : Write(p, st) => dbs' = [dbs EXCEPT ![0] = st] /\ dbs'[0] = st
                                      /\ \A x \in Path \ {0} : dbs'[x] = NONE
<1>1. CallFresh(p) /\ call[p] \in CallType /\ tree \in Tree
  BY DEF FreshInv, IInv, TypeOK, RepoTypeOK
<1>2. call[p].path = 0 /\ ~ call[p].detached
  BY <1>1 DEF CallFresh, OnDatabase, Applying
<1>3. Handle(p) = dbs[0] /\ ~ OwnFile(p)
  BY <1>2, OneDatabase DEF Handle, OwnFile
<1>4. Handle(p) \in StoreType
  BY DEF IInv, OpenHandles, DeltaOpen, Applying
<1> QED
  BY <1>1, <1>2, <1>3, <1>4, OneDatabase DEF Write, IInv, TypeOK, FreshInv

\* A step of apply_delta to the next label, on the same manifest.
LEMMA ApplyingStep ==
    ASSUME IInv, Undisturbed, FreshInv, NEW p \in Procs, pc[p] \in Applying,
           NEW label \in Applying, pc'[p] = label, UNCHANGED <<repoVars, metas, seen>>,
           \A x \in Path \ {0} : dbs'[x] = NONE,
           call'[p].path = call[p].path, call'[p].key = call[p].key,
           call'[p].detached = call[p].detached, call'[p].signature = call[p].signature,
           call'[p].base = call[p].base, call'[p].current = call[p].current,
           call'[p].manifest = call[p].manifest,
           Underway(p)'
    PROVE  FreshInv'
<1>1. NothingToDo(p, call[p].manifest)' = NothingToDo(p, call[p].manifest)
  BY DEF NothingToDo
<1>2. WorkingTreeSignature' = WorkingTreeSignature
  BY DEF repoVars, WorkingTreeSignature, Dirty
<1>3. CallFresh(p)
  BY DEF FreshInv
<1>4. CallFresh(p)'
  BY <1>1, <1>2, <1>3 DEF CallFresh, OnDatabase, Applying, repoVars
<1> QED
  BY <1>4, OneCall DEF Resting, Applying

LEMMA RenameFresh ==
    ASSUME IInv, Undisturbed, FreshInv, NEW p \in Procs, RenamePath(p)
    PROVE  FreshInv'
<1> DEFINE c == call[p]
           m == call[p].manifest
<1>1. PICK r \in c.renames :
        /\ Write(p, UpdateFilePaths(Handle(p), r))
        /\ call' = [call EXCEPT ![p].renames = @ \ {r}]
  BY DEF RenamePath
<1>2. pc[p] = "rename" /\ pc' = pc /\ UNCHANGED <<repoVars, metas, seen>>
  BY DEF RenamePath, At
<1>3. /\ Handle(p) = dbs[0] /\ dbs[0] \in StoreType /\ CallFresh(p) /\ c \in CallType
      /\ tree \in Tree /\ dbs'[0] = UpdateFilePaths(dbs[0], r)
      /\ \A x \in Path \ {0} : dbs'[x] = NONE
  BY <1>1, <1>2, DeltaOnDatabase DEF Applying
<1>4. PICK t \in Tree : /\ Describes(m, t, tree)
                        /\ c.renames \subseteq m.renamed
                        /\ Renaming(dbs[0], t, m.renamed \ c.renames)
  BY <1>2, <1>3 DEF CallFresh, Underway, Applying
<1>5. call'[p] = [c EXCEPT !.renames = c.renames \ {r}]
  BY <1>1 DEF IInv, TypeOK
<1>6. /\ call'[p].path = c.path /\ call'[p].key = c.key
      /\ call'[p].detached = c.detached /\ call'[p].signature = c.signature
      /\ call'[p].base = c.base /\ call'[p].current = c.current
      /\ call'[p].manifest = m /\ call'[p].renames = c.renames \ {r}
  BY <1>3, <1>5 DEF CallType
<1> HIDE DEF c, m
<1>7. Renaming(dbs'[0], t, (m.renamed \ c.renames) \cup {r})
  <2>1. /\ r \in m.renamed /\ r \notin m.renamed \ c.renames
        /\ m.renamed \ c.renames \subseteq m.renamed
        /\ m.renamed \in Pairings(Present(t) \ Present(tree), Present(tree) \ Present(t))
    BY <1>4 DEF Describes
  <2> DEFINE R == m.renamed
             D == R \ c.renames
  <2>2. /\ r \in R /\ r \notin D /\ D \subseteq R /\ Renaming(dbs[0], t, D)
        /\ R \in Pairings(Present(t) \ Present(tree), Present(tree) \ Present(t))
    BY <1>4, <2>1
  <2>3. Renaming(UpdateFilePaths(dbs[0], r), t, D \cup {r})
    <3> HIDE DEF D, R
    <3> QED
      BY <1>3, <2>2, RenameMoves
  <2> QED
    BY <1>3, <2>3
<1>8. (m.renamed \ c.renames) \cup {r} = m.renamed \ (c.renames \ {r})
  BY <1>4
<1>9. Underway(p)'
  <2>1. Renaming(dbs'[0], t, m.renamed \ call'[p].renames)
    BY <1>6, <1>7, <1>8
  <2>2. call'[p].renames \subseteq m.renamed
    BY <1>4, <1>6
  <2> QED
    BY <1>2, <1>4, <1>6, <2>1, <2>2 DEF Underway, repoVars
<1> QED
  BY <1>2, <1>3, <1>6, <1>9, ApplyingStep DEF Applying, c, m

LEMMA DeleteRowsFresh ==
    ASSUME IInv, Undisturbed, FreshInv, NEW p \in Procs, DeleteRows(p)
    PROVE  FreshInv'
<1> DEFINE c == call[p]
           m == call[p].manifest
<1>1. /\ pc[p] = "rename" /\ c.renames = {} /\ pc'[p] = "forget"
      /\ UNCHANGED <<repoVars, metas, seen, call>>
      /\ Write(p, DeleteEdgesForFiles(DeleteChunksForFiles(Handle(p), m.deleted), m.deleted))
  BY DEF DeleteRows, At, Goto, IInv, TypeOK
<1>2. /\ Handle(p) = dbs[0] /\ dbs[0] \in StoreType /\ CallFresh(p) /\ m \in ManifestType
      /\ dbs'[0] = DeleteEdgesForFiles(DeleteChunksForFiles(dbs[0], m.deleted), m.deleted)
      /\ tree \in Tree /\ \A x \in Path \ {0} : dbs'[x] = NONE
  BY <1>1, DeltaOnDatabase DEF Applying, CallType
<1>3. PICK t \in Tree : /\ Describes(m, t, tree)
                        /\ Renaming(dbs[0], t, m.renamed)
  <2>1. m.renamed \ {} = m.renamed
    OBVIOUS
  <2> QED
    BY <1>1, <1>2, <2>1 DEF CallFresh, Underway, Applying
<1>4. Trimmed(dbs'[0], t, m, tree) /\ KeptStates(dbs'[0], t, m, tree)
  BY <1>2, <1>3, DeleteTrims
<1>5. Underway(p)'
  BY <1>1, <1>3, <1>4 DEF Underway, repoVars
<1> QED
  BY <1>1, <1>2, <1>5, ApplyingStep DEF Applying

LEMMA ForgetFresh ==
    ASSUME IInv, Undisturbed, FreshInv, NEW p \in Procs, ForgetStates(p)
    PROVE  FreshInv'
<1> DEFINE m == call[p].manifest
<1>1. /\ pc[p] = "forget" /\ pc'[p] = "read" /\ UNCHANGED <<repoVars, metas, seen, call>>
      /\ Write(p, DeleteFileStates(Handle(p), m.deleted))
  BY DEF ForgetStates, At, Goto, IInv, TypeOK
<1>2. /\ Handle(p) = dbs[0] /\ dbs[0] \in StoreType /\ CallFresh(p) /\ m \in ManifestType
      /\ dbs'[0] = DeleteFileStates(dbs[0], m.deleted)
      /\ tree \in Tree /\ \A x \in Path \ {0} : dbs'[x] = NONE
  BY <1>1, DeltaOnDatabase DEF Applying, CallType
<1>3. PICK t \in Tree : /\ Describes(m, t, tree) /\ Trimmed(dbs[0], t, m, tree)
                        /\ KeptStates(dbs[0], t, m, tree)
  BY <1>1, <1>2 DEF CallFresh, Underway, Applying
<1>4. /\ Trimmed(dbs'[0], t, m, tree) /\ KeptStates(dbs'[0], t, m, tree)
      /\ Forgotten(dbs'[0], t, tree)
  BY <1>2, <1>3, ForgetForgets
<1>5. Underway(p)'
  BY <1>1, <1>3, <1>4 DEF Underway, repoVars
<1> QED
  BY <1>1, <1>2, <1>5, ApplyingStep DEF Applying

LEMMA ReadSourcesFresh ==
    ASSUME IInv, Undisturbed, FreshInv, NEW p \in Procs, ReadSources(p)
    PROVE  FreshInv'
<1> DEFINE c == call[p]
           m == call[p].manifest
<1>1. /\ pc[p] = "read" /\ pc'[p] = "states" /\ UNCHANGED <<repoVars, dbs, metas, seen>>
      /\ call'[p] = [c EXCEPT !.discovered = Present(tree),
                              !.sources = Reprocess(m) \cap Present(tree), !.read = tree]
  BY DEF ReadSources, At, Goto, IInv, TypeOK, diskVars
<1>2. /\ dbs[0] \in StoreType /\ CallFresh(p) /\ c \in CallType
  BY <1>1, DeltaOnDatabase DEF Applying
<1>3. PICK t \in Tree : /\ Describes(m, t, tree) /\ Trimmed(dbs[0], t, m, tree)
                        /\ KeptStates(dbs[0], t, m, tree) /\ Forgotten(dbs[0], t, tree)
  BY <1>1, <1>2 DEF CallFresh, Underway, Applying
<1>4. /\ call'[p].path = c.path /\ call'[p].key = c.key
      /\ call'[p].detached = c.detached /\ call'[p].signature = c.signature
      /\ call'[p].base = c.base /\ call'[p].current = c.current
      /\ call'[p].manifest = m /\ call'[p].discovered = Present(tree)
      /\ call'[p].sources = Reprocess(m) \cap Present(tree) /\ call'[p].read = tree
  BY <1>1, <1>2 DEF CallType
<1>5. HasRead(call'[p], t)
  <2>1. Reprocess(m) \cap Present(tree) = {f \in Files : tree[f] # NONE /\ tree[f] # t[f]}
    BY <1>3 DEF Describes, Present
  <2> QED
    BY <1>4, <2>1 DEF HasRead
<1>6. Underway(p)'
  BY <1>1, <1>3, <1>4, <1>5 DEF Underway, HasRead, repoVars
<1> QED
  BY <1>1, <1>4, <1>6, ApplyingStep DEF Applying, FreshInv

LEMMA RecordStatesFresh ==
    ASSUME IInv, Undisturbed, FreshInv, NEW p \in Procs, RecordStates(p)
    PROVE  FreshInv'
<1> DEFINE c == call[p]
           m == call[p].manifest
<1>1. /\ pc[p] = "states" /\ pc'[p] = "swap" /\ UNCHANGED <<repoVars, metas, seen, call>>
      /\ Write(p, UpsertFileStates(Handle(p), c.sources, tree))
  BY DEF RecordStates, At, Goto, IInv, TypeOK
<1>2. /\ Handle(p) = dbs[0] /\ dbs[0] \in StoreType /\ CallFresh(p) /\ m \in ManifestType
      /\ dbs'[0] = UpsertFileStates(dbs[0], c.sources, tree)
      /\ tree \in Tree /\ \A x \in Path \ {0} : dbs'[x] = NONE
  BY <1>1, DeltaOnDatabase DEF Applying, CallType
<1>3. PICK t \in Tree : /\ Describes(m, t, tree) /\ Trimmed(dbs[0], t, m, tree)
                        /\ KeptStates(dbs[0], t, m, tree) /\ Forgotten(dbs[0], t, tree)
                        /\ HasRead(c, t)
  BY <1>1, <1>2 DEF CallFresh, Underway, Applying
<1>4. Trimmed(dbs'[0], t, m, tree) /\ dbs'[0].states = tree
  BY <1>2, <1>3, RecordRecords DEF HasRead
<1>5. Underway(p)'
  BY <1>1, <1>3, <1>4 DEF Underway, HasRead, repoVars
<1> QED
  BY <1>1, <1>2, <1>5, ApplyingStep DEF Applying

LEMMA SwapRowsFresh ==
    ASSUME IInv, Undisturbed, FreshInv, NEW p \in Procs, SwapRows(p)
    PROVE  FreshInv'
<1> DEFINE c == call[p]
           m == call[p].manifest
<1>1. /\ pc[p] = "swap" /\ pc'[p] = "bm25" /\ UNCHANGED <<repoVars, metas, seen, call>>
      /\ Write(p, DeleteAndInsertForFiles(Handle(p), RemovePaths(m), c.sources,
                                          c.read, c.discovered))
  BY DEF SwapRows, At, Goto, IInv, TypeOK
<1>2. /\ Handle(p) = dbs[0] /\ dbs[0] \in StoreType /\ CallFresh(p) /\ m \in ManifestType
      /\ dbs'[0] = DeleteAndInsertForFiles(dbs[0], RemovePaths(m), c.sources,
                                           c.read, c.discovered)
      /\ tree \in Tree /\ \A x \in Path \ {0} : dbs'[x] = NONE
  BY <1>1, DeltaOnDatabase DEF Applying, CallType
<1>3. PICK t \in Tree : /\ Describes(m, t, tree) /\ Trimmed(dbs[0], t, m, tree)
                        /\ HasRead(c, t) /\ dbs[0].states = tree
  BY <1>1, <1>2 DEF CallFresh, Underway, Applying
<1>4. Swapped(dbs'[0], t, tree)
  BY <1>2, <1>3, SwapSwaps DEF HasRead
<1>5. Underway(p)'
  BY <1>1, <1>3, <1>4 DEF Underway, HasRead, repoVars
<1> QED
  BY <1>1, <1>2, <1>5, ApplyingStep DEF Applying

LEMMA UpdateBm25Fresh ==
    ASSUME IInv, Undisturbed, FreshInv, NEW p \in Procs, UpdateBm25(p)
    PROVE  FreshInv'
<1> DEFINE c == call[p]
           m == call[p].manifest
           new == IF c.rebuild THEN Bm25Build(dbs[0]) ELSE Bm25Update(dbs[0], c.sources, c.read)
<1>1. /\ pc[p] = "bm25" /\ pc'[p] = "commit" /\ UNCHANGED <<repoVars, metas, seen, call>>
      /\ Handle(p) = dbs[0] => Write(p, new)
  BY DEF UpdateBm25, At, Goto, IInv, TypeOK
<1> HIDE DEF new
<1>2. /\ Handle(p) = dbs[0] /\ dbs[0] \in StoreType /\ CallFresh(p) /\ dbs'[0] = new
      /\ tree \in Tree /\ \A x \in Path \ {0} : dbs'[x] = NONE
  BY <1>1, DeltaOnDatabase DEF Applying
<1>3. PICK t \in Tree : HasRead(c, t) /\ Swapped(dbs[0], t, tree)
  BY <1>1, <1>2 DEF CallFresh, Underway, Applying
<1>4. Rows(dbs'[0], tree)
  <2>1. /\ Rows(Bm25Build(dbs[0]), tree)
        /\ c.sources = {f \in Files : tree[f] # NONE /\ tree[f] # t[f]} => Rows(Bm25Update(dbs[0], c.sources, tree), tree)
    BY <1>2, <1>3, Bm25Fresh
  <2> QED
    BY <1>2, <1>3, <2>1 DEF HasRead, new
<1>5. ~ NothingToDo(p, m) /\ UNCHANGED NothingToDo(p, call[p].manifest)
  BY <1>1, <1>2 DEF CallFresh, Applying, NothingToDo
<1>6. CallFresh(p)'
  BY <1>1, <1>2, <1>4, <1>5 DEF CallFresh, OnDatabase, Applying, repoVars, WorkingTreeSignature, Dirty
<1> QED
  BY <1>1, <1>2, <1>6, OneCall DEF Resting

LEMMA SetCommitFresh ==
    ASSUME IInv, Undisturbed, FreshInv, NEW p \in Procs, SetCommit(p)
    PROVE  FreshInv'
<1> DEFINE new == [dbs[0] EXCEPT !.commit = call[p].current]
<1>1. /\ pc[p] = "commit" /\ pc'[p] = "sign" /\ UNCHANGED <<repoVars, metas, seen, call>>
      /\ Write(p, [Handle(p) EXCEPT !.commit = call[p].current])
  BY DEF SetCommit, At, Goto, IInv, TypeOK
<1>2. /\ Handle(p) = dbs[0] /\ dbs[0] \in StoreType /\ CallFresh(p) /\ dbs'[0] = new
      /\ \A x \in Path \ {0} : dbs'[x] = NONE
  BY <1>1, DeltaOnDatabase
<1>3. /\ Rows(dbs[0], tree) /\ call[p].current = head /\ ~ NothingToDo(p, call[p].manifest)
      /\ UNCHANGED NothingToDo(p, call[p].manifest)
  BY <1>1, <1>2 DEF CallFresh, OnDatabase, NothingToDo
<1>4. Rows(new, tree) /\ new.commit = head
  BY <1>2, <1>3 DEF Rows, StoreType
<1> HIDE DEF new
<1>5. CallFresh(p)'
  BY <1>1, <1>2, <1>3, <1>4 DEF CallFresh, OnDatabase, Applying, repoVars, WorkingTreeSignature, Dirty
<1> QED
  BY <1>1, <1>2, <1>5, OneCall DEF Resting

LEMMA SetSignatureFresh ==
    ASSUME IInv, Undisturbed, FreshInv, SignaturesTaken, NEW p \in Procs, SetSignature(p)
    PROVE  FreshInv'
<1> DEFINE new == [dbs[0] EXCEPT !.signature = call[p].signature]
<1>1. /\ pc[p] = "sign" /\ pc'[p] = "finalize" /\ UNCHANGED <<repoVars, metas, seen, call>>
      /\ Write(p, [Handle(p) EXCEPT !.signature = call[p].signature])
  BY DEF SetSignature, At, Goto, IInv, TypeOK
<1>2. /\ Handle(p) = dbs[0] /\ dbs[0] \in StoreType /\ CallFresh(p) /\ dbs'[0] = new
      /\ \A x \in Path \ {0} : dbs'[x] = NONE
  BY <1>1, DeltaOnDatabase
<1>3. /\ Rows(dbs[0], tree) /\ dbs[0].commit = head /\ call[p].signature = WorkingTreeSignature
      /\ UNCHANGED NothingToDo(p, call[p].manifest)
  BY <1>1, <1>2 DEF CallFresh, SignaturesTaken, NothingToDo
<1>4. Current(new)
  BY <1>2, <1>3 DEF Current, Rows, StoreType
<1> HIDE DEF new
<1>5. Current(dbs[0])'
  BY <1>1, <1>2, <1>4 DEF Current, Rows, Ids, FullEdges, repoVars, WorkingTreeSignature, Dirty
<1>6. CallFresh(p)'
  BY <1>1, <1>2, <1>3, <1>5 DEF CallFresh, OnDatabase, Applying, repoVars, WorkingTreeSignature, Dirty
<1> QED
  BY <1>1, <1>2, <1>6, OneCall DEF Resting

LEMMA FinalizeFresh ==
    ASSUME IInv, Undisturbed, FreshInv, NEW p \in Procs, Finalize(p)
    PROVE  FreshInv'
<1> DEFINE new == FinalizeGenerationId(dbs[0], call[p].config)
           idle == NothingToDo(p, call[p].manifest)
<1>1. /\ pc[p] = "finalize" /\ UNCHANGED <<repoVars, metas, seen, call>>
      /\ Write(p, FinalizeGenerationId(Handle(p), call[p].config))
      /\ \/ idle /\ pc'[p] = "done" /\ result'[p] = FinalizeGenerationId(Handle(p), call[p].config)
         \/ ~ idle /\ pc'[p] = "put_db"
  BY DEF Finalize, At, Goto, IInv, TypeOK
<1>2. /\ Handle(p) = dbs[0] /\ dbs[0] \in StoreType /\ CallFresh(p) /\ dbs'[0] = new
      /\ \A x \in Path \ {0} : dbs'[x] = NONE
  BY <1>1, DeltaOnDatabase
<1>3. /\ Current(dbs[0])
      /\ idle => metas[0] \in {NONE, head}
      /\ CleanCallsOnly => tree = history[head]
      /\ call[p].path = 0 /\ ~ call[p].detached
  BY <1>1, <1>2 DEF CallFresh, OnDatabase
<1>4. Current(new)
  <2>1. /\ new.chunks = dbs[0].chunks /\ new.fts = dbs[0].fts /\ new.edges = dbs[0].edges
        /\ new.states = dbs[0].states /\ new.commit = dbs[0].commit
        /\ new.signature = dbs[0].signature
    BY <1>2 DEF FinalizeGenerationId, StoreType
  <2> HIDE DEF new
  <2> QED
    BY <1>3, <2>1 DEF Current, Rows
<1> HIDE DEF new
<1>5. Current(dbs[0])'
  BY <1>1, <1>2, <1>4 DEF Current, Rows, Ids, FullEdges, repoVars, WorkingTreeSignature, Dirty
<1>6. CASE idle /\ pc'[p] = "done" /\ result'[p] = new
  <2>1. AtRest'
    <3>2. RepoTypeOK /\ Current(dbs'[0]) /\ metas'[0] \in {NONE, head}
      BY <1>1, <1>2, <1>3, <1>4, <1>6 DEF IInv, TypeOK
    <3>3. SettledAs(dbs'[0], tree) /\ Signed(dbs'[0], tree) /\ tree \in Tree
      BY <1>3, <3>2, SignatureIs DEF Undisturbed, Current, SettledAs, Signed, RepoTypeOK
    <3>4. UNCHANGED <<tree, history, head>> /\ dbs'[0].commit = head
      BY <1>1, <3>2 DEF repoVars, Current
    <3> QED
      BY <3>2, <3>3, <3>4 DEF AtRest, SettledAs, Signed, SignatureOf
  <2>2. CallFresh(p)'
    BY <1>1, <1>2, <1>4, <1>6 DEF CallFresh, OnDatabase, Applying, repoVars, WorkingTreeSignature,
                                  Dirty, Current
  <2> QED
    BY <1>2, <2>1, <2>2, OneCall
<1>7. CASE ~ idle /\ pc'[p] = "put_db"
  <2>1. call'[p] = call[p] /\ Handle(p)' = dbs'[0]
    BY <1>1, <1>3, OneDatabase DEF Handle, OwnFile
  <2>2. CallFresh(p)'
    BY <1>1, <1>2, <1>3, <1>4, <1>5, <1>7, <2>1
       DEF CallFresh, OnDatabase, Applying, repoVars, WorkingTreeSignature, Dirty, Current
  <2> QED
    BY <1>2, <1>3, <1>7, <2>1, <2>2, OneCall, OneDatabase DEF Resting
<1> QED
  BY <1>1, <1>2, <1>6, <1>7 DEF new

\* A full index is of the tree by construction; the work is to name it.
LEMMA FullFresh ==
    ASSUME IInv, Undisturbed, FreshInv, NEW p \in Procs, FullIndex(p)
    PROVE  FreshInv'
<1>1. /\ pc[p] \in {"full", "full_states", "full_commit", "full_sign"}
      /\ UNCHANGED <<repoVars, dbs, metas, seen>>
  BY DEF FullIndex, FullRead, FullStates, FullCommit, FullSign, At, diskVars
<1>2. /\ AtRest /\ CallFresh(p) /\ tree \in Tree /\ call[p] \in CallType
      /\ \A x \in Path \ {0} : dbs[x] = NONE
  BY <1>1 DEF FreshInv, Resting, IInv, TypeOK, RepoTypeOK
<1>3. AtRest'
  BY <1>1, <1>2, StillAtRest DEF repoVars
<1>4. tree' = tree /\ head' = head /\ history' = history
      /\ WorkingTreeSignature' = WorkingTreeSignature
  BY <1>1 DEF repoVars, WorkingTreeSignature, Dirty
<1> SUFFICES CallFresh(p)'
  BY <1>1, <1>2, <1>3, OneCall
<1>5. CASE FullRead(p)
  <2>1. /\ pc[p] = "full" /\ pc'[p] = "full_states" /\ scratch'[p] = FullRows(tree)
        /\ call'[p] = [call[p] EXCEPT !.path = NONE, !.sources = Present(tree)]
    BY <1>5 DEF FullRead, At, Goto, IInv, TypeOK
  <2>2. /\ call'[p].key = call[p].key /\ call'[p].detached = call[p].detached
        /\ call'[p].signature = call[p].signature /\ call'[p].sources = Present(tree)
    BY <1>2, <2>1 DEF CallType
  <2> QED
    BY <1>1, <1>2, <1>4, <2>1, <2>2 DEF CallFresh, OnDatabase, Applying
<1>6. CASE FullStates(p)
  <2>1. /\ pc[p] = "full_states" /\ pc'[p] = "full_commit" /\ call' = call
        /\ scratch'[p] = UpsertFileStates(scratch[p], call[p].sources, tree)
    BY <1>6 DEF FullStates, At, Goto, IInv, TypeOK
  <2>2. scratch[p] = FullRows(tree) /\ call[p].sources = Present(tree)
    BY <1>2, <2>1 DEF CallFresh
  <2>3. Rows(scratch'[p], tree)
    <3> DEFINE new == UpsertFileStates(FullRows(tree), Present(tree), tree)
    <3>1. FullRows(tree) \in StoreType
      BY <1>2, FullRowsTyped
    <3>2. /\ new.chunks = FullRows(tree).chunks /\ new.fts = FullRows(tree).fts
          /\ new.edges = FullRows(tree).edges
          /\ new.states = [f \in Files |-> IF f \in Present(tree) /\ tree[f] # NONE THEN tree[f]
                                           ELSE FullRows(tree).states[f]]
      <4> HIDE DEF Tree
      <4> QED
        BY <3>1 DEF UpsertFileStates, StoreType
    <3>3. ASSUME NEW f \in Files PROVE new.states[f] = tree[f]
      <4>1. FullRows(tree).states[f] = NONE
        BY <1>2, FullRowsAre
      <4>2. new.states[f] = IF f \in Present(tree) /\ tree[f] # NONE THEN tree[f]
                            ELSE FullRows(tree).states[f]
        BY <3>2
      <4> HIDE DEF new
      <4> QED
        BY ONLY <4>1, <4>2, f \in Files DEF Present
    <3>4. new.states = tree
      <4>1. new.states = [f \in Files |-> new.states[f]]
        BY <3>2
      <4> HIDE DEF new
      <4> QED
        BY <1>2, <3>3, <4>1 DEF Tree
    <3> HIDE DEF new
    <3>5. Rows(new, tree)
      BY <1>2, <3>2, <3>4, FullRowsAre DEF Rows
    <3> QED
      BY <2>1, <2>2, <3>5 DEF new
  <2> QED
    BY <1>1, <1>2, <1>4, <2>1, <2>3 DEF CallFresh, OnDatabase, Applying
<1>7. CASE FullCommit(p)
  <2>1. /\ pc[p] = "full_commit" /\ pc'[p] = "full_sign" /\ call' = call
        /\ scratch'[p] = [scratch[p] EXCEPT !.config = call[p].config, !.commit = head]
        /\ scratch[p] \in StoreType
    BY <1>7 DEF FullCommit, At, Goto, IInv, TypeOK, OpenHandles, FullOpen, Handle, OwnFile
  <2>2. Rows(scratch'[p], tree) /\ scratch'[p].commit = head
    BY <1>2, <2>1 DEF CallFresh, Rows, StoreType
  <2> QED
    BY <1>1, <1>2, <1>4, <2>1, <2>2 DEF CallFresh, OnDatabase, Applying
<1>8. CASE FullSign(p)
  <2> DEFINE new == FinalizeGenerationId([scratch[p] EXCEPT !.signature = WorkingTreeSignature],
                                         call[p].config)
  <2>1. /\ pc[p] = "full_sign" /\ pc'[p] = "put_db" /\ call' = call /\ scratch'[p] = new
        /\ scratch[p] \in StoreType /\ call[p].path = NONE
    BY <1>8 DEF FullSign, At, Goto, IInv, TypeOK, OpenHandles, FullOpen, Handle, OwnFile
  <2>2. Current(new)
    <3>1. /\ new.chunks = scratch[p].chunks /\ new.fts = scratch[p].fts
          /\ new.edges = scratch[p].edges /\ new.states = scratch[p].states
          /\ new.commit = scratch[p].commit /\ new.signature = WorkingTreeSignature
      BY <2>1 DEF FinalizeGenerationId, StoreType
    <3>2. Rows(scratch[p], tree) /\ scratch[p].commit = head
      BY <1>2, <2>1 DEF CallFresh
    <3> HIDE DEF new
    <3> QED
      BY <3>1, <3>2 DEF Current, Rows
  <2> HIDE DEF new
  <2>3. Handle(p)' = new
    BY <2>1 DEF Handle, OwnFile
  <2>4. Current(Handle(p))'
    BY <1>4, <2>2, <2>3 DEF Current, Rows, Ids, FullEdges
  <2> QED
    BY <1>1, <1>2, <1>4, <2>1, <2>4 DEF CallFresh, OnDatabase, Applying
<1> QED
  BY <1>5, <1>6, <1>7, <1>8 DEF FullIndex

LEMMA PutDbFresh ==
    ASSUME IInv, Undisturbed, FreshInv, NEW p \in Procs, PutDb(p)
    PROVE  FreshInv'
<1>1. pc[p] = "put_db" /\ pc'[p] = "put_meta" /\ UNCHANGED <<repoVars, metas, seen>>
  BY DEF PutDb, At, Goto, IInv, TypeOK
<1>2. CallFresh(p) /\ call[p].path \in {NONE, 0} /\ ~ call[p].detached
  BY <1>1 DEF FreshInv, CallFresh
<1>3. /\ Handle(p)' = Handle(p) /\ dbs'[0] = Handle(p) /\ call'[p] = call[p]
      /\ \A x \in Path \ {0} : dbs'[x] = NONE
  <2>1. CASE call[p].path = 0
    <3>1. UNCHANGED <<dbs, call, scratch>>
      BY <2>1, OneDatabase DEF PutDb
    <3> QED
      BY <1>2, <2>1, <3>1, OneDatabase DEF Handle, OwnFile, FreshInv
  <2>2. CASE call[p].path = NONE
    <3>1. /\ dbs' = [dbs EXCEPT ![0] = scratch[p]]
          /\ call'[p] = call[p] /\ scratch'[p] = scratch[p]
      BY <2>2, OneDatabase DEF PutDb, PutSource, Detach
    <3> QED
      BY <2>2, <3>1, OneDatabase DEF Handle, OwnFile, FreshInv, IInv, TypeOK
  <2> QED
    BY <1>2, <2>1, <2>2
<1>4. Current(Handle(p))
  BY <1>1, <1>2 DEF CallFresh
<1>5. Current(Handle(p))'
  BY <1>1, <1>3, <1>4 DEF Current, Rows, Ids, FullEdges, repoVars, WorkingTreeSignature, Dirty
<1>6. CallFresh(p)'
  BY <1>1, <1>2, <1>3, <1>5 DEF CallFresh, OnDatabase, Applying, repoVars, WorkingTreeSignature, Dirty
<1> QED
  BY <1>1, <1>3, <1>6, OneCall DEF Resting

LEMMA PutMetaFresh ==
    ASSUME IInv, Undisturbed, FreshInv, NEW p \in Procs, PutMeta(p)
    PROVE  FreshInv'
<1>1. /\ pc[p] = "put_meta" /\ pc'[p] = "done" /\ UNCHANGED <<repoVars, seen>>
      /\ result'[p] = Handle(p)
  BY DEF PutMeta, At, Goto, IInv, TypeOK
<1>2. /\ CallFresh(p) /\ Current(Handle(p)) /\ dbs[0] = Handle(p) /\ call[p].key = head
      /\ CleanCallsOnly => tree = history[head]
  BY <1>1 DEF FreshInv, CallFresh
<1>3. PICK evicted \in SUBSET {x \in Path \ {DbPath(call[p].key)} : dbs[x] # NONE} :
        /\ ProjectLayout => evicted = {}
        /\ dbs' = [x \in Path |-> IF x \in evicted THEN NONE ELSE dbs[x]]
        /\ metas' = [x \in Path |-> IF x = DbPath(call[p].key) THEN call[p].key
                                    ELSE IF x \in evicted THEN NONE ELSE metas[x]]
        /\ Detach(p, evicted)
  BY DEF PutMeta
<1>4. evicted = {}
  BY <1>3 DEF Undisturbed
<1>5. /\ \A x \in Path : dbs'[x] = dbs[x]
      /\ metas'[0] = head /\ call'[p] = call[p]
  BY <1>2, <1>3, <1>4, OneDatabase DEF Detach, IInv, TypeOK
<1>6. AtRest'
  <2>1. SettledAs(dbs[0], tree) /\ Signed(dbs[0], tree) /\ tree \in Tree /\ dbs[0].commit = head
    BY <1>2, SignatureIs DEF Undisturbed, Current, SettledAs, Signed, IInv, TypeOK, RepoTypeOK
  <2>2. dbs'[0] = dbs[0] /\ UNCHANGED <<tree, history, head>>
    BY <1>1, <1>5, OneDatabase DEF repoVars
  <2> QED
    BY <1>5, <2>1, <2>2 DEF AtRest, SettledAs, Signed, SignatureOf
<1>7. CallFresh(p)'
  BY <1>1, <1>2, <1>5 DEF CallFresh, OnDatabase, Applying, repoVars, WorkingTreeSignature,
                          Dirty, Current
<1>8. \A x \in Path \ {0} : dbs'[x] = NONE
  BY <1>5 DEF FreshInv
<1> QED
  BY <1>6, <1>7, <1>8, OneCall

\* A call ends with the database at rest: only a delta that is killed, or that
\* trips over a rename, would leave it half way, and neither happens here.
LEMMA ResetFresh ==
    ASSUME IInv, Undisturbed, FreshInv, NEW p \in Procs,
           Close(p) \/ RenameRaises(p) \/ PutRaises(p) \/ Crash(p)
    PROVE  FreshInv'
<1>1. ~ Crash(p)
  BY DEF Crash, Undisturbed, IInv, TypeOK
<1>2. ~ RenameRaises(p)
  <2> SUFFICES ASSUME RenameRaises(p) PROVE FALSE
    OBVIOUS
  <2>1. PICK r \in call[p].renames : pc[p] = "rename" /\ RenameConflict(Handle(p), r)
    BY DEF RenameRaises, At
  <2>2. Handle(p) = dbs[0] /\ dbs[0] \in StoreType /\ CallFresh(p) /\ tree \in Tree
    BY <2>1, DeltaOnDatabase DEF Applying
  <2>3. PICK t \in Tree : /\ Describes(call[p].manifest, t, tree)
                          /\ call[p].renames \subseteq call[p].manifest.renamed
                          /\ Renaming(dbs[0], t, call[p].manifest.renamed \ call[p].renames)
    BY <2>1, <2>2 DEF CallFresh, Underway, Applying
  <2> DEFINE R == call[p].manifest.renamed
             D == R \ call[p].renames
  <2>4. /\ r \in R /\ r \notin D /\ D \subseteq R /\ Renaming(dbs[0], t, D)
        /\ R \in Pairings(Present(t) \ Present(tree), Present(tree) \ Present(t))
    BY <2>1, <2>3 DEF Describes
  <2> HIDE DEF D, R
  <2>5. ~ RenameConflict(dbs[0], r)
    BY <2>2, <2>4, RenameMoves
  <2> QED
    BY <2>1, <2>2, <2>5
<1>3. /\ Reset(p)
      /\ pc[p] = "done" \/ (pc[p] = "put_db" /\ call[p].path # 0)
  BY <1>1, <1>2, OneDatabase DEF Close, PutRaises, At
<1>4. /\ pc'[p] = "idle" /\ UNCHANGED <<repoVars, diskVars>>
  BY <1>3 DEF Reset, Goto, IInv, TypeOK
<1>5. CallFresh(p) /\ AtRest
  BY <1>3 DEF FreshInv, Resting, CallFresh
<1>6. AtRest'
  BY <1>4, <1>5, StillAtRest DEF repoVars, diskVars
<1>7. CallFresh(p)'
  BY <1>4 DEF CallFresh, OnDatabase, Applying
<1> QED
  BY <1>4, <1>6, <1>7, OneCall DEF FreshInv, diskVars

LEMMA FreshInit ==
    ASSUME Undisturbed, Init
    PROVE  FreshInv
<1>1. AtRest
  BY OneDatabase DEF Init, AtRest
<1>2. \A p \in Procs : CallFresh(p)
  BY DEF Init, CallFresh, OnDatabase, Applying
<1> QED
  BY <1>1, <1>2 DEF FreshInv, Init

LEMMA OnlyTheUserMoves ==
    ASSUME [Next]_vars, ~ User
    PROVE  UNCHANGED repoVars
<1>1. CASE UNCHANGED vars
  BY <1>1 DEF vars
<1>2. CASE ~ UNCHANGED vars
  <2>1. PICK p \in Procs : (\E cfg \in Configs : Begin(p, cfg)) \/ Step(p) \/ Close(p) \/ Crash(p)
    BY <1>2 DEF Next
  <2> QED
    BY <2>1 DEF Begin, Step, Close, Crash, Reset, TakeSignature, CacheHit, CacheReject, TryDelta,
       FullIndex, PutDb, PutRaises, PutMeta, FindStore, NoUsableStore, ComputeManifest, GitFails,
       ApplyDelta, RenameRaises, SetSignature, Finalize, RenamePath, DeleteRows, ForgetStates,
       ReadSources, RecordStates, SwapRows, UpdateBm25, SetCommit, FullRead, FullStates,
       FullCommit, FullSign
<1> QED
  BY <1>1, <1>2

\* The tree does not move under a call, and a call takes its signature once.
LEMMA SignaturesNext ==
    ASSUME IInv, Undisturbed, SignaturesTaken, [Next]_vars
    PROVE  SignaturesTaken'
<1>1. CASE User
  BY <1>1 DEF User, UserEdits, UserCommits, UserChecksOut, Moved, Undisturbed, procVars, Idle, SignaturesTaken
<1>2. ASSUME ~ User, ~ UNCHANGED vars
      PROVE  SignaturesTaken'
  <2>1. PICK p \in Procs : (\E cfg \in Configs : Begin(p, cfg)) \/ Step(p) \/ Close(p) \/ Crash(p)
    BY <1>2 DEF Next
  <2>2. \A q \in Procs : q = p
    BY DEF Undisturbed
  <2>3. call[p] \in CallType /\ DOMAIN pc = Procs /\ DOMAIN call = Procs /\ pc[p] \in Label
    BY DEF IInv, TypeOK
  <2>4. WorkingTreeSignature' = WorkingTreeSignature
    <3>1. UNCHANGED repoVars
      BY <1>2, OnlyTheUserMoves
    <3> QED
      BY <3>1 DEF repoVars, WorkingTreeSignature, Dirty
  <2> SUFFICES ASSUME pc'[p] \notin {"idle", "signature"}
               PROVE  call'[p].signature = WorkingTreeSignature
    BY <2>2, <2>4 DEF SignaturesTaken
  <2>5. CASE TakeSignature(p)
    BY <2>3, <2>5 DEF TakeSignature, CallType
  <2>6. CASE ~ TakeSignature(p)
    <3>1. pc[p] \notin {"idle", "signature"}
      BY <2>1, <2>3, <2>6 DEF Begin, Step, Close, Crash, Reset, CacheHit, CacheReject, TryDelta,
         FullIndex, PutDb, PutRaises, PutMeta, FindStore, NoUsableStore, ComputeManifest, GitFails,
         ApplyDelta, RenameRaises, SetSignature, Finalize, RenamePath, DeleteRows, ForgetStates,
         ReadSources, RecordStates, SwapRows, UpdateBm25, SetCommit, FullRead, FullStates,
         FullCommit, FullSign, At, Goto
    <3>2. call'[p].signature = call[p].signature
      <4>1. CASE CacheReject(p) \/ PutDb(p) \/ PutMeta(p)
        BY <2>3, <4>1 DEF CacheReject, PutDb, PutMeta, Detach
      <4>2. CASE FindStore(p) \/ GitFails(p) \/ RenamePath(p) \/ ReadSources(p) \/ FullRead(p)
        <5>1. CASE FindStore(p)
          <6>1. \E path, base, current : call' = [call EXCEPT ![p].path = path, ![p].base = base, ![p].current = current]
            BY <5>1 DEF FindStore
          <6> QED
            BY ONLY <2>3, <6>1 DEF CallType
        <5>2. CASE GitFails(p) \/ RenamePath(p)
          <6>1. (\E path : call' = [call EXCEPT ![p].path = path])
                \/ \E R : call' = [call EXCEPT ![p].renames = R]
            BY <5>2 DEF GitFails, RenamePath
          <6> QED
            BY ONLY <2>3, <6>1 DEF CallType
        <5>3. CASE ReadSources(p)
          BY <2>3, <5>3 DEF ReadSources, CallType
        <5>4. CASE FullRead(p)
          BY <2>3, <5>4 DEF FullRead, CallType
        <5> QED
          BY <4>2, <5>1, <5>2, <5>3, <5>4
      <4>3. CASE ComputeManifest(p)
        BY <2>3, <4>3 DEF ComputeManifest, CallType
      <4>4. CASE UNCHANGED call
        BY <4>4
      <4>5. ~ Reset(p) /\ ~ \E cfg \in Configs : Begin(p, cfg)
        BY <2>3, <3>1 DEF Reset, Goto, Begin, At
      <4> QED
        BY <2>1, <2>6, <4>1, <4>2, <4>3, <4>4, <4>5
           DEF Step, Close, Crash, CacheHit, TryDelta, FullIndex, PutRaises, NoUsableStore, ApplyDelta,
               RenameRaises, SetSignature, Finalize, DeleteRows, ForgetStates, RecordStates, SwapRows,
               UpdateBm25, SetCommit, FullStates, FullCommit, FullSign
    <3> QED
      BY <3>1, <3>2 DEF SignaturesTaken
  <2> QED
    BY <2>5, <2>6
<1>3. CASE UNCHANGED vars
  BY <1>3 DEF vars, repoVars, procVars, SignaturesTaken, WorkingTreeSignature, Dirty
<1> QED
  BY <1>1, <1>2, <1>3

LEMMA FreshStutter ==
    ASSUME FreshInv, UNCHANGED vars
    PROVE  FreshInv'
<1>1. UNCHANGED <<tree, history, head, dbs, metas, pc, call, scratch, result, seen>>
  BY DEF vars, repoVars, diskVars, procVars
<1>2. AtRest => AtRest'
  BY <1>1, StillAtRest
<1>3. \A p \in Procs : CallFresh(p) => CallFresh(p)'
  <2> SUFFICES ASSUME NEW p \in Procs, CallFresh(p) PROVE CallFresh(p)'
    OBVIOUS
  <2>1. Underway(p)' <=> Underway(p)
    BY <1>1 DEF Underway, HasRead
  <2>2. WorkingTreeSignature' = WorkingTreeSignature
    BY <1>1 DEF WorkingTreeSignature, Dirty
  <2>3. Handle(p)' = Handle(p) /\ UNCHANGED NothingToDo(p, call[p].manifest)
    BY <1>1 DEF Handle, OwnFile, NothingToDo
  <2>4. \A st : Current(st) => st.commit = head' /\ st.signature = WorkingTreeSignature'
                               /\ Rows(st, tree')
    BY <1>1, <2>2 DEF Current
  <2>5. /\ (Current(dbs[0]))' <=> Current(dbs[0])
        /\ (Current(Handle(p)))' <=> Current(Handle(p))
    BY <1>1, <2>2, <2>3 DEF Current
  <2> QED
    BY <1>1, <2>1, <2>2, <2>3, <2>5 DEF CallFresh
<1> QED
  BY <1>1, <1>2, <1>3 DEF FreshInv

LEMMA FreshNext ==
    ASSUME IInv, Undisturbed, FreshInv, SignaturesTaken, [Next]_vars
    PROVE  FreshInv'
<1>1. CASE User
  BY <1>1, UserFresh
<1>2. ASSUME NEW p \in Procs, Step(p)
      PROVE  FreshInv'
  <2>1. CASE TryDelta(p)
    <3>1. CASE ApplyDelta(p)
      BY <3>1, RenameFresh, DeleteRowsFresh, ForgetFresh, ReadSourcesFresh, RecordStatesFresh,
         SwapRowsFresh, UpdateBm25Fresh, SetCommitFresh DEF ApplyDelta
    <3>2. CASE GitFails(p)
      <4>1. /\ pc[p] = "manifest" /\ pc' = [pc EXCEPT ![p] = "full"]
            /\ call' = [call EXCEPT ![p].path = NONE]
            /\ dbs' = dbs \/ dbs' = [dbs EXCEPT ![call[p].path] = Opened(call[p].path)]
            /\ UNCHANGED <<repoVars, metas, scratch, result, seen, moves, crashes>>
        BY <3>2 DEF GitFails, At, Goto
      <4> QED
        BY <4>1, GiveUpFresh
    <3> QED
      BY <2>1, <3>1, <3>2, FindFresh, ComputeManifestFresh, ResetFresh, SetSignatureFresh,
         FinalizeFresh DEF TryDelta
  <2> QED
    BY <1>2, <2>1, EntryFresh, CacheHitFresh, CacheRejectFresh, FullFresh, PutDbFresh,
       PutMetaFresh, ResetFresh DEF Step
<1>3. ASSUME NEW p \in Procs,
             (\E cfg \in Configs : Begin(p, cfg)) \/ Close(p) \/ Crash(p)
      PROVE  FreshInv'
  BY <1>3, EntryFresh, ResetFresh
<1>4. CASE UNCHANGED vars
  BY <1>4, FreshStutter
<1> QED
  BY <1>1, <1>2, <1>3, <1>4 DEF Next

---------------------------------------------------------------------------
(* What the callers get.                                                   *)

LEMMA FreshAlways ==
    ASSUME Undisturbed
    PROVE  Spec => [](IInv /\ FreshInv)
<1>1. Init => IInv /\ FreshInv /\ SignaturesTaken
  BY InitTyped, FreshInit DEF Init, SignaturesTaken
<1>2. IInv /\ FreshInv /\ SignaturesTaken /\ [Next]_vars => IInv' /\ FreshInv' /\ SignaturesTaken'
  BY NextTyped, FreshNext, SignaturesNext
<1> QED
  BY <1>1, <1>2, PTL DEF Spec

LEMMA FreshReturned ==
    ASSUME IInv, Undisturbed, FreshInv
    PROVE  ReturnedIsFresh
<1> SUFFICES ASSUME NEW p \in Procs, pc[p] = "done"
             PROVE  tree \in seen[p] /\ Serves(result[p], tree)
  BY DEF ReturnedIsFresh
<1>1. seen[p] = {tree} /\ Rows(result[p], tree) /\ tree \in Tree
  BY DEF FreshInv, CallFresh, IInv, TypeOK, RepoTypeOK
<1> QED
  BY <1>1, RowsServe

\* The store a call returns is a full index of the working tree as it stood
\* during the call, in what retrieval reads, by whichever path it was reached.
THEOREM AnswersAreFresh ==
    ASSUME Undisturbed
    PROVE  Spec => []ReturnedIsFresh
BY FreshReturned, FreshAlways, PTL

LEMMA FreshEdges ==
    ASSUME IInv, Undisturbed, FreshInv
    PROVE  NoInventedEdges
<1> SUFFICES ASSUME NEW p \in Procs, pc[p] = "done"
             PROVE  tree \in seen[p] /\ result[p].edges \subseteq FullRows(tree).edges
  BY DEF NoInventedEdges
<1>1. seen[p] = {tree} /\ Rows(result[p], tree) /\ tree \in Tree
  BY DEF FreshInv, CallFresh, IInv, TypeOK, RepoTypeOK
<1> QED
  BY <1>1, FullRowsAre DEF Rows

\* And it has no import edge that a full index of that tree would not have.
THEOREM EdgesAreReal ==
    ASSUME Undisturbed
    PROVE  Spec => []NoInventedEdges
BY FreshEdges, FreshAlways, PTL

LEMMA FreshConfirmed ==
    ASSUME IInv, Undisturbed, FreshInv
    PROVE  HashConfirmed
<1> SUFFICES ASSUME NEW p \in Procs, pc[p] = "sign"
             PROVE  Serves(Handle(p), tree)
  BY DEF HashConfirmed
<1>1. Handle(p) = dbs[0] /\ CallFresh(p) /\ tree \in Tree
  BY DeltaOnDatabase
<1> QED
  BY <1>1, RowsServe DEF CallFresh

\* When change detection finds nothing to do there is nothing to do.
THEOREM NothingIsMissed ==
    ASSUME Undisturbed
    PROVE  Spec => []HashConfirmed
BY FreshConfirmed, FreshAlways, PTL

LEMMA OneVersionOf ==
    ASSUME NEW t, NEW f
    PROVE  Cardinality({}) <= 1 /\ Cardinality(ChunksOf(t, f)) <= 1
<1>1. Cardinality({}) = 0
  BY FS_EmptySet
<1>2. \A x : Cardinality({x}) = 1
  BY FS_Singleton
<1>3. ChunksOf(t, f) = {} \/ \E x : ChunksOf(t, f) = {x}
  BY DEF ChunksOf
<1> QED
  BY <1>1, <1>2, <1>3

LEMMA FreshVersions ==
    ASSUME IInv, Undisturbed, FreshInv
    PROVE  OneVersionPerFile
<1>1. ASSUME NEW st, NEW t \in Tree, Rows(st, t), NEW f \in Files
      PROVE  st.chunks[f] = ChunksOf(t, f)
  BY <1>1 DEF Rows
<1>2. ASSUME NEW st, NEW t \in Tree, NEW u \in Tree, NEW m, Describes(m, t, u),
             Trimmed(st, t, m, u), NEW f \in Files
      PROVE  st.chunks[f] = {} \/ \E o : st.chunks[f] = ChunksOf(t, o)
  <2>1. CASE f \in Renamed(m)
    BY <1>2, <2>1 DEF Trimmed, Renamed
  <2>2. CASE f \notin Renamed(m)
    BY <1>2, <2>2 DEF Trimmed, Kept
  <2> QED
    BY <2>1, <2>2
<1>3. ASSUME NEW st, NEW t, NEW D, Renaming(st, t, D), NEW f \in Files
      PROVE  st.chunks[f] = {} \/ \E o : st.chunks[f] = ChunksOf(t, o)
  <2>1. CASE \E r \in D : f = r[1] \/ f = r[2]
    BY <1>3, <2>1 DEF Renaming
  <2>2. CASE \A r \in D : f # r[1] /\ f # r[2]
    BY <1>3, <2>2 DEF Renaming
  <2> QED
    BY <2>1, <2>2
<1> SUFFICES ASSUME NEW x \in Path, dbs[x] # NONE, NEW f \in Files
             PROVE  Cardinality(dbs[x].chunks[f]) <= 1
  BY DEF OneVersionPerFile
<1>4. x = 0 /\ tree \in Tree
  BY DEF FreshInv, IInv, TypeOK, RepoTypeOK
<1> SUFFICES dbs[0].chunks[f] = {} \/ \E t, o : dbs[0].chunks[f] = ChunksOf(t, o)
  BY OneVersionOf, <1>4
<1>5. CASE AtRest
  BY <1>1, <1>4, <1>5 DEF AtRest, SettledAs
<1>6. CASE ~ AtRest
  <2>1. PICK p \in Procs : TRUE
    BY DEF Undisturbed
  <2>2. /\ CallFresh(p) /\ pc[p] \in Label /\ pc[p] \notin Resting
        /\ ~ (pc[p] = "put_db" /\ call[p].path = NONE)
    BY <1>6 DEF FreshInv, IInv, TypeOK
  <2>3. CASE pc[p] \in Applying
    <3>1. PICK t \in Tree :
            /\ Describes(call[p].manifest, t, tree)
            /\ \/ \E D : Renaming(dbs[0], t, D)
               \/ Trimmed(dbs[0], t, call[p].manifest, tree)
               \/ Swapped(dbs[0], t, tree)
      BY <2>2, <2>3 DEF CallFresh, Underway, Applying
    <3>2. CASE Swapped(dbs[0], t, tree)
      BY <3>2 DEF Swapped
    <3>3. CASE \E D : Renaming(dbs[0], t, D)
      BY <1>3, <3>3
    <3>4. CASE Trimmed(dbs[0], t, call[p].manifest, tree)
      BY <1>2, <1>4, <3>1, <3>4
    <3> QED
      BY <3>1, <3>2, <3>3, <3>4
  <2>4. CASE pc[p] \in {"commit", "sign", "finalize"}
    BY <1>1, <1>4, <2>2, <2>4 DEF CallFresh, Current
  <2>5. CASE pc[p] \in {"put_db", "put_meta"}
    <3>1. Rows(dbs[0], tree)
      BY <2>2, <2>5, OneDatabase DEF CallFresh, Current, Handle, OwnFile
    <3> QED
      BY <1>1, <1>4, <3>1
  <2> QED
    BY <2>2, <2>3, <2>4, <2>5 DEF Label, DeltaOpen, Resting, Applying
<1> QED
  BY <1>5, <1>6

\* At no moment, between no two transactions of a delta, does the database hold
\* rows of two versions of a file.
THEOREM VersionsDoNotMix ==
    ASSUME Undisturbed
    PROVE  Spec => []OneVersionPerFile
BY FreshVersions, FreshAlways, PTL

LEMMA FreshHits ==
    ASSUME IInv, Undisturbed, FreshInv
    PROVE  HitIsOfCommit
<1> SUFFICES ASSUME NEW n \in Commit, Idle, CacheGet(n)
             PROVE  dbs[0].commit = n
  BY OneDatabase DEF HitIsOfCommit
<1>1. PICK p \in Procs : pc[p] = "idle"
  BY DEF Undisturbed, Idle
<1>2. AtRest
  BY <1>1 DEF FreshInv, Resting
<1>3. dbs[0] # NONE /\ metas[0] = n /\ n # NONE
  BY OneDatabase, PathAssumption DEF CacheGet, Undisturbed, Commit, Path
<1> QED
  BY <1>2, <1>3 DEF AtRest

\* In the project layout a hit on the key of a commit is an index of that commit.
THEOREM HitsAreOfTheirCommit ==
    ASSUME Undisturbed
    PROVE  Spec => []HitIsOfCommit
BY FreshHits, FreshAlways, PTL

---------------------------------------------------------------------------
(* The index configuration, which needs one caller and nothing else: the   *)
(* user may edit while it runs, it may be killed, in either layout.        *)

SoleCaller == \A p, q \in Procs : p = q

UnderConfig ==
    \A p \in Procs :
        /\ pc[p] = "manifest" =>
            dbs[call[p].path] # NONE /\ dbs[call[p].path].config = call[p].config
        /\ pc[p] \in DeltaOpen \cup {"full_sign"} => Handle(p).config = call[p].config
        /\ pc[p] = "done" => result[p].config = call[p].config

LEMMA ConfigKept ==
    ASSUME NEW st \in StoreType
    PROVE  /\ \A paths : /\ DeleteChunksForFiles(st, paths).config = st.config
                         /\ DeleteEdgesForFiles(st, paths).config = st.config
                         /\ DeleteFileStates(st, paths).config = st.config
           /\ \A paths, t : UpsertFileStates(st, paths, t).config = st.config
           /\ \A r : UpdateFilePaths(st, r).config = st.config
           /\ Bm25Build(st).config = st.config
           /\ \A sources, read : Bm25Update(st, sources, read).config = st.config
           /\ \A cfg : FinalizeGenerationId(st, cfg).config = st.config
           /\ \A n : [st EXCEPT !.commit = n].config = st.config
           /\ \A n : [st EXCEPT !.signature = n].config = st.config
<1>1. \A paths : DeleteChunksForFiles(st, paths).config = st.config
  BY DEF DeleteChunksForFiles, StoreType
<1>2. \A r : UpdateFilePaths(st, r).config = st.config
  BY DEF UpdateFilePaths, StoreType
<1>3. /\ \A paths : /\ DeleteEdgesForFiles(st, paths).config = st.config
                    /\ DeleteFileStates(st, paths).config = st.config
      /\ \A paths, t : UpsertFileStates(st, paths, t).config = st.config
  BY DEF DeleteEdgesForFiles, DeleteFileStates, UpsertFileStates, StoreType
<1>4. /\ Bm25Build(st).config = st.config
      /\ \A sources, read : Bm25Update(st, sources, read).config = st.config
  BY DEF Bm25Build, Bm25Update, StoreType
<1>5. \A cfg : FinalizeGenerationId(st, cfg).config = st.config
  BY DEF FinalizeGenerationId, StoreType
<1>6. /\ \A n : [st EXCEPT !.commit = n].config = st.config
      /\ \A n : [st EXCEPT !.signature = n].config = st.config
  BY DEF StoreType
<1> QED
  BY <1>1, <1>2, <1>3, <1>4, <1>5, <1>6

LEMMA SwapKeepsConfig ==
    ASSUME NEW st \in StoreType, NEW paths, NEW sources, NEW read, NEW discovered
    PROVE  DeleteAndInsertForFiles(st, paths, sources, read, discovered).config = st.config
<1> DEFINE cut == DeleteEdgesForFiles(DeleteChunksForFiles(st, paths), paths)
           new == UNION {ChunksOf(read, f) : f \in sources}
           chunks == [f \in Files |-> (cut.chunks[f] \ new) \cup {i \in new : i[1] = f}]
           edges  == cut.edges \cup UNION {EdgesOf(read, f, discovered) : f \in sources}
<1>1. cut \in StoreType
  BY DeleteChunksTyped, DeleteEdgesTyped
<1>2. cut.config = st.config
  BY DeleteChunksTyped, ConfigKept
<1>3. DeleteAndInsertForFiles(st, paths, sources, read, discovered) =
        [cut EXCEPT !.chunks = chunks, !.edges = edges]
  BY DEF DeleteAndInsertForFiles
<1> HIDE DEF cut, chunks, edges
<1> QED
  BY <1>1, <1>2, <1>3 DEF StoreType

\* A transaction of a delta, seen by its own call.
LEMMA ConfigWritten ==
    ASSUME IInv, UnderConfig, NEW p \in Procs, pc[p] \in DeltaOpen, NEW st,
           Write(p, st), st.config = Handle(p).config,
           call'[p].path = call[p].path, call'[p].detached = call[p].detached,
           call'[p].config = call[p].config
    PROVE  Handle(p)'.config = call'[p].config
<1>1. call[p].path # NONE => call[p].path \in Path
  BY DEF IInv, TypeOK, CallType
<1>2. Handle(p)' = st
  BY <1>1 DEF Handle, OwnFile, Write, IInv, TypeOK
<1> QED
  BY <1>2 DEF UnderConfig

LEMMA ConfigDelta ==
    ASSUME IInv, SoleCaller, UnderConfig, NEW p \in Procs,
           ApplyDelta(p) \/ SetSignature(p) \/ Finalize(p)
    PROVE  UnderConfig'
<1>1. \A q \in Procs : q = p
  BY DEF SoleCaller
<1>2. pc[p] \in DeltaOpen /\ call[p] \in CallType
  BY DEF ApplyDelta, RenamePath, DeleteRows, ForgetStates, ReadSources, RecordStates, SwapRows,
         UpdateBm25, SetCommit, SetSignature, Finalize, At, DeltaOpen, IInv, TypeOK
<1> DEFINE st == Handle(p)
<1>3. st \in StoreType /\ st.config = call[p].config
  BY <1>2 DEF IInv, OpenHandles, UnderConfig
<1>4. CASE ReadSources(p)
  <2>1. /\ pc'[p] = "states" /\ UNCHANGED <<dbs, scratch>>
        /\ call'[p] = [call[p] EXCEPT !.discovered = Present(tree),
                            !.sources = Reprocess(call[p].manifest) \cap Present(tree),
                            !.read = tree]
    BY <1>4 DEF ReadSources, Goto, IInv, TypeOK, diskVars
  <2>2. /\ call'[p].path = call[p].path /\ call'[p].detached = call[p].detached
        /\ call'[p].config = call[p].config
    BY <1>2, <2>1 DEF CallType
  <2>3. Handle(p)' = Handle(p)
    BY <2>1, <2>2 DEF Handle, OwnFile
  <2> QED
    BY <1>1, <1>3, <2>1, <2>2, <2>3 DEF UnderConfig
<1>5. CASE ~ ReadSources(p)
  <2>1. /\ call'[p].path = call[p].path /\ call'[p].detached = call[p].detached
        /\ call'[p].config = call[p].config
    <3>1. CASE RenamePath(p)
      <4>1. PICK r : call'[p] = [call[p] EXCEPT !.renames = @ \ {r}]
        BY <3>1 DEF RenamePath, IInv, TypeOK
      <4> QED
        BY <1>2, <4>1 DEF CallType
    <3>2. CASE ~ RenamePath(p)
      BY <1>5, <3>2 DEF ApplyDelta, DeleteRows, ForgetStates, RecordStates, SwapRows,
         UpdateBm25, SetCommit, SetSignature, Finalize
    <3> QED
      BY <3>1, <3>2
  <2>2. \E new : Write(p, new) /\ new.config = st.config /\ (pc'[p] = "done" => result'[p] = new)
    <3>1. CASE RenamePath(p)
      BY <1>3, <3>1, ConfigKept DEF RenamePath, At, IInv, TypeOK
    <3>2. CASE DeleteRows(p)
      BY <1>3, <3>2, DeleteChunksTyped, ConfigKept DEF DeleteRows, Goto, IInv, TypeOK
    <3>3. CASE ForgetStates(p)
      BY <1>3, <3>3, ConfigKept DEF ForgetStates, Goto, IInv, TypeOK
    <3>7. CASE RecordStates(p)
      BY <1>3, <3>7, ConfigKept DEF RecordStates, Goto, IInv, TypeOK
    <3>8. CASE SetCommit(p) \/ SetSignature(p)
      <4>1. \A n : [st EXCEPT !.commit = n].config = st.config
                   /\ [st EXCEPT !.signature = n].config = st.config
        BY <1>3, ConfigKept
      <4>2. pc'[p] # "done"
        BY <3>8 DEF SetCommit, SetSignature, Goto, IInv, TypeOK
      <4> QED
        BY <3>8, <4>1, <4>2 DEF SetCommit, SetSignature
    <3>4. CASE SwapRows(p)
      BY <1>3, <3>4, SwapKeepsConfig DEF SwapRows, Goto, IInv, TypeOK
    <3>5. CASE UpdateBm25(p)
      BY <1>3, <3>5, ConfigKept DEF UpdateBm25, Goto, IInv, TypeOK
    <3>6. CASE Finalize(p)
      BY <1>3, <3>6, ConfigKept DEF Finalize, Goto, IInv, TypeOK
    <3> QED
      BY <1>5, <3>1, <3>2, <3>3, <3>4, <3>5, <3>6, <3>7, <3>8 DEF ApplyDelta
  <2>3. PICK new : Write(p, new) /\ new.config = st.config /\ (pc'[p] = "done" => result'[p] = new)
    BY <2>2
  <2>4. Handle(p)'.config = call'[p].config
    BY <1>2, <2>1, <2>3, ConfigWritten
  <2>5. pc'[p] # "manifest"
    BY <1>2, <1>5 DEF ApplyDelta, RenamePath, DeleteRows, ForgetStates, RecordStates, SwapRows,
       UpdateBm25, SetCommit, SetSignature, Finalize, Goto, IInv, TypeOK, DeltaOpen
  <2> QED
    BY <1>1, <1>3, <2>1, <2>3, <2>4, <2>5 DEF UnderConfig
<1> QED
  BY <1>4, <1>5

LEMMA ConfigOpening ==
    ASSUME IInv, SoleCaller, UnderConfig, NEW p \in Procs,
           FindStore(p) \/ ComputeManifest(p) \/ GitFails(p)
    PROVE  UnderConfig'
<1>1. /\ \A q \in Procs : q = p
      /\ call[p] \in CallType /\ pc[p] \in {"find", "manifest"} /\ ~ call[p].detached
  BY DEF SoleCaller, FindStore, ComputeManifest, GitFails, At, IInv, TypeOK, OpenHandles, DeltaOpen
<1>2. CASE FindStore(p)
  <2>1. PICK path \in Published :
          /\ ConfigMatches(p, dbs[path])
          /\ call' = [call EXCEPT ![p].path = path, ![p].base = dbs[path].commit,
                                  ![p].current = head]
    BY <1>2 DEF FindStore
  <2>2. pc'[p] = "manifest" /\ UNCHANGED dbs
        /\ call'[p] = [call[p] EXCEPT !.path = path, !.base = dbs[path].commit, !.current = head]
    BY <1>2, <2>1 DEF FindStore, Goto, IInv, TypeOK, diskVars
  <2>3. call'[p].path = path /\ call'[p].config = call[p].config
    BY <1>1, <2>2 DEF CallType
  <2> QED
    BY <1>1, <2>1, <2>2, <2>3 DEF UnderConfig, Published, ConfigMatches, DeltaOpen
<1>3. CASE GitFails(p)
  BY <1>1, <1>3 DEF GitFails, Goto, IInv, TypeOK, UnderConfig, DeltaOpen
<1>4. CASE ComputeManifest(p)
  <2> DEFINE path == call[p].path
  <2>1. PICK m \in Manifests(p) :
          LET over == TooLarge(m) /\ ~ NothingToDo(p, m)
          IN  /\ IF over /\ call[p].base # call[p].current
                 THEN UNCHANGED dbs
                 ELSE dbs' = [dbs EXCEPT ![path] = Opened(path)]
              /\ call' = IF over THEN [call EXCEPT ![p].path = NONE]
                         ELSE [call EXCEPT ![p].manifest = m,
                                           ![p].renames = m.renamed,
                                           ![p].rebuild = ~ HasData(Opened(path))]
              /\ Goto(p, IF over THEN "full"
                         ELSE IF NothingToDo(p, m) THEN "sign" ELSE "rename")
    BY <1>4 DEF ComputeManifest
  <2>2. CASE TooLarge(m) /\ ~ NothingToDo(p, m)
    <3>1. pc'[p] = "full"
      BY <2>1, <2>2 DEF Goto, IInv, TypeOK
    <3> QED
      BY <1>1, <3>1 DEF UnderConfig, DeltaOpen
  <2>3. CASE ~ (TooLarge(m) /\ ~ NothingToDo(p, m))
    <3>1. path \in Path /\ dbs[path] # NONE /\ dbs[path].config = call[p].config
      BY <1>4 DEF ComputeManifest, At, UnderConfig, IInv, OpenHandles
    <3>2. dbs' = [dbs EXCEPT ![path] = Opened(path)] /\ Opened(path) = dbs[path]
      BY <2>1, <2>3, <3>1 DEF Opened
    <3>3. /\ pc'[p] \in {"sign", "rename"}
          /\ call'[p] = [call[p] EXCEPT !.manifest = m, !.renames = m.renamed,
                                        !.rebuild = ~ HasData(Opened(path))]
      BY <2>1, <2>3 DEF Goto, IInv, TypeOK
    <3>4. call'[p].path = path /\ ~ call'[p].detached /\ call'[p].config = call[p].config
      BY <1>1, <3>3 DEF CallType
    <3>5. Handle(p)' = dbs[path]
      BY <3>1, <3>2, <3>4, PathAssumption DEF Handle, OwnFile, IInv, TypeOK
    <3> QED
      BY <1>1, <3>1, <3>3, <3>4, <3>5 DEF UnderConfig
  <2> QED
    BY <2>2, <2>3
<1> QED
  BY <1>2, <1>3, <1>4

LEMMA ConfigFull ==
    ASSUME IInv, SoleCaller, UnderConfig, NEW p \in Procs, FullIndex(p)
    PROVE  UnderConfig'
<1>1. \A q \in Procs : q = p
  BY DEF SoleCaller
<1>2. CASE FullRead(p) \/ FullStates(p)
  BY <1>1, <1>2 DEF FullRead, FullStates, Goto, IInv, TypeOK, UnderConfig, DeltaOpen
<1>3. CASE FullCommit(p) \/ FullSign(p)
  <2>1. /\ call' = call /\ call[p].path = NONE /\ scratch[p] \in StoreType
        /\ pc'[p] \in {"full_sign", "put_db"}
    BY <1>3 DEF FullCommit, FullSign, At, Goto, IInv, TypeOK, OpenHandles, FullOpen, Handle, OwnFile
  <2>2. scratch'[p].config = call[p].config
    <3>1. CASE FullCommit(p)
      <4>1. scratch'[p] = [scratch[p] EXCEPT !.config = call[p].config, !.commit = head]
        BY <3>1 DEF FullCommit, IInv, TypeOK
      <4> QED
        BY <2>1, <4>1 DEF StoreType
    <3>2. CASE FullSign(p)
      <4>1. scratch[p].config = call[p].config
        BY <2>1, <3>2 DEF FullSign, At, UnderConfig, Handle, OwnFile
      <4>2. scratch'[p] = FinalizeGenerationId(
                [scratch[p] EXCEPT !.signature = WorkingTreeSignature], call[p].config)
        BY <3>2 DEF FullSign, IInv, TypeOK
      <4> QED
        BY <2>1, <4>1, <4>2 DEF FinalizeGenerationId, StoreType
    <3> QED
      BY <1>3, <3>1, <3>2
  <2>3. Handle(p)' = scratch'[p]
    BY <2>1 DEF Handle, OwnFile
  <2> QED
    BY <1>1, <2>1, <2>2, <2>3 DEF UnderConfig
<1> QED
  BY <1>2, <1>3 DEF FullIndex

LEMMA ConfigPut ==
    ASSUME IInv, SoleCaller, UnderConfig, NEW p \in Procs, PutDb(p) \/ PutMeta(p)
    PROVE  UnderConfig'
<1>1. \A q \in Procs : q = p
  BY DEF SoleCaller
<1>2. Handle(p).config = call[p].config
  BY DEF PutDb, PutMeta, At, UnderConfig, DeltaOpen
<1>3. CASE PutMeta(p)
  <2>1. pc'[p] = "done" /\ result'[p] = Handle(p) /\ call'[p] = call[p]
    BY <1>3 DEF PutMeta, Goto, Detach, IInv, TypeOK
  <2> QED
    BY <1>1, <1>2, <2>1 DEF UnderConfig, DeltaOpen
<1>4. CASE PutDb(p)
  <2>1. pc'[p] = "put_meta" /\ call'[p] = call[p] /\ scratch'[p] = scratch[p]
    BY <1>4 DEF PutDb, Goto, Detach, IInv, TypeOK
  <2>2. ~ OwnFile(p) => dbs'[call[p].path] = dbs[call[p].path]
    BY <1>4 DEF PutDb, OwnFile, IInv, TypeOK, CallType
  <2>3. Handle(p)' = Handle(p)
    BY <2>1, <2>2 DEF Handle, OwnFile
  <2> QED
    BY <1>1, <1>2, <2>1, <2>3 DEF UnderConfig
<1> QED
  BY <1>3, <1>4

LEMMA ConfigNext ==
    ASSUME IInv, SoleCaller, UnderConfig, [Next]_vars
    PROVE  UnderConfig'
<1>1. CASE User
  <2>1. UNCHANGED <<dbs, pc, call, scratch, result>>
    BY <1>1 DEF User, UserEdits, UserCommits, UserChecksOut, Moved, procVars, diskVars
  <2> QED
    BY <2>1 DEF UnderConfig, Handle, OwnFile
<1>2. ASSUME NEW p \in Procs,
             \/ \E cfg \in Configs : Begin(p, cfg)
             \/ TakeSignature(p) \/ CacheReject(p) \/ NoUsableStore(p) \/ Reset(p)
      PROVE  UnderConfig'
  <2>1. pc'[p] \in {"signature", "lookup", "find", "full", "idle"}
    BY <1>2 DEF Begin, TakeSignature, CacheReject, NoUsableStore, Reset, Goto, IInv, TypeOK
  <2> QED
    BY <2>1 DEF UnderConfig, DeltaOpen, SoleCaller
<1>3. ASSUME NEW p \in Procs, CacheHit(p)
      PROVE  UnderConfig'
  <2>1. /\ pc'[p] = "done" /\ result'[p] = dbs[DbPath(call[p].key)] /\ call' = call
        /\ ConfigMatches(p, dbs[DbPath(call[p].key)])
    BY <1>3 DEF CacheHit, Goto, IInv, TypeOK
  <2> QED
    BY <2>1 DEF UnderConfig, DeltaOpen, SoleCaller, ConfigMatches
<1>4. ASSUME NEW p \in Procs, Step(p)
      PROVE  UnderConfig'
  <2>1. CASE TryDelta(p)
    BY <1>2, <2>1, ConfigDelta, ConfigOpening DEF TryDelta, RenameRaises
  <2>2. CASE PutRaises(p)
    BY <1>2, <2>2 DEF PutRaises
  <2> QED
    BY <1>2, <1>3, <1>4, <2>1, <2>2, ConfigFull, ConfigPut DEF Step
<1>5. ASSUME NEW p \in Procs, Close(p) \/ Crash(p)
      PROVE  UnderConfig'
  BY <1>2, <1>5 DEF Close, Crash
<1>6. CASE UNCHANGED vars
  BY <1>6 DEF vars, diskVars, procVars, UnderConfig, Handle, OwnFile
<1> QED
  BY <1>1, <1>2, <1>4, <1>5, <1>6 DEF Next

\* A store that was built for other options is rebuilt or left alone, never
\* served and never brought up to date: the configuration of a result is that
\* of its caller, whatever was killed before or is edited meanwhile.
THEOREM ConfigIsHonoured ==
    ASSUME SoleCaller
    PROVE  Spec => []AnswersUnderItsConfig
<1>1. Init => IInv /\ UnderConfig
  BY InitTyped DEF Init, UnderConfig, DeltaOpen
<1>2. IInv /\ UnderConfig /\ [Next]_vars => IInv' /\ UnderConfig'
  BY NextTyped, ConfigNext
<1>3. UnderConfig => AnswersUnderItsConfig
  BY DEF UnderConfig, AnswersUnderItsConfig
<1> QED
  BY <1>1, <1>2, <1>3, PTL DEF Spec

---------------------------------------------------------------------------
(* The refinement: a call is one Begin, one Answer and one End of          *)
(* FreshIndex, and everything between is a stutter.                        *)

PhaseOf(label) ==
    CASE label = "idle" -> "idle" [] label = "done" -> "answered" [] OTHER -> "working"

Phases == [q \in Procs |-> PhaseOf(pc[q])]

Answers == [q \in Procs |-> IF pc[q] = "done" THEN Described(result[q]) ELSE NONE]

LEMMA FreshVarsAre ==
    /\ Fresh!vars = <<tree, Phases, seen, Answers>>
    /\ Fresh!Init <=> /\ tree \in Tree
                      /\ Phases = [q \in Procs |-> "idle"]
                      /\ seen = [q \in Procs |-> {}]
                      /\ Answers = [q \in Procs |-> NONE]
    /\ \A t : Fresh!Change(t) <=>
            /\ tree' = t
            /\ seen' = [q \in Procs |-> IF Phases[q] = "working" THEN seen[q] \cup {t} ELSE seen[q]]
            /\ UNCHANGED <<Phases, Answers>>
    /\ \A p : Fresh!Begin(p) <=>
            /\ Phases[p] = "idle"
            /\ Phases' = [Phases EXCEPT ![p] = "working"]
            /\ seen' = [seen EXCEPT ![p] = {tree}]
            /\ UNCHANGED <<tree, Answers>>
    /\ \A p : Fresh!Answer(p) <=>
            /\ Phases[p] = "working"
            /\ Phases' = [Phases EXCEPT ![p] = "answered"]
            /\ \E t \in seen[p] : Answers' = [Answers EXCEPT ![p] = t]
            /\ UNCHANGED <<tree, seen>>
    /\ \A p : Fresh!End(p) <=>
            /\ Phases[p] # "idle"
            /\ Phases' = [Phases EXCEPT ![p] = "idle"]
            /\ seen' = [seen EXCEPT ![p] = {}]
            /\ Answers' = [Answers EXCEPT ![p] = NONE]
            /\ UNCHANGED tree
BY DEF Fresh!vars, Fresh!Init, Fresh!Change, Fresh!Begin, Fresh!Answer, Fresh!End,
       Phases, Answers, PhaseOf

LEMMA FreshVarsKept ==
    ASSUME UNCHANGED <<tree, seen, Phases, Answers>>
    PROVE  UNCHANGED Fresh!vars
BY DEF Fresh!vars, Phases, Answers, PhaseOf

\* What an index of the tree describes is the tree.
LEMMA DescribedIsTree ==
    ASSUME NEW t \in Tree, NEW st, Rows(st, t)
    PROVE  Described(st) = t
<1>1. Serves(st, t)
  BY RowsServe
<1>2. \A u \in Tree : Serves(st, u) => u = t
  BY <1>1, ServesOne
<1> HIDE DEF Serves
<1> QED
  BY <1>1, <1>2 DEF Described

LEMMA WorkingStutters ==
    ASSUME DOMAIN pc = Procs, NEW p \in Procs, NEW label, pc' = [pc EXCEPT ![p] = label],
           pc[p] \notin {"idle", "done"}, label \notin {"idle", "done"},
           UNCHANGED <<tree, seen, result>>
    PROVE  UNCHANGED Fresh!vars
<1>1. \A q \in Procs : pc'[q] = IF q = p THEN label ELSE pc[q]
  OBVIOUS
<1>2. Phases' = Phases
  <2>1. \A q \in Procs : PhaseOf(pc'[q]) = PhaseOf(pc[q])
    BY <1>1 DEF PhaseOf
  <2> HIDE DEF PhaseOf
  <2> QED
    BY <2>1 DEF Phases
<1>3. Answers' = Answers
  <2>1. \A q \in Procs : pc'[q] = "done" <=> pc[q] = "done"
    BY <1>1
  <2>2. \A q \in Procs : Described(result'[q]) = Described(result[q])
    OBVIOUS
  <2> HIDE DEF Described
  <2> QED
    BY <2>1, <2>2 DEF Answers
<1> QED
  BY <1>2, <1>3, FreshVarsKept

LEMMA DoneAnswers ==
    ASSUME IInv, NEW p \in Procs, pc' = [pc EXCEPT ![p] = "done"],
           pc[p] \notin {"idle", "done"}, NEW st, result' = [result EXCEPT ![p] = st],
           UNCHANGED <<tree, seen>>, seen[p] = {tree}, Rows(st, tree)
    PROVE  Fresh!Answer(p)
<1>1. /\ \A q \in Procs : pc'[q] = IF q = p THEN "done" ELSE pc[q]
      /\ \A q \in Procs : result'[q] = IF q = p THEN st ELSE result[q]
      /\ tree \in Tree
  BY DEF IInv, TypeOK, RepoTypeOK
<1>2. Phases' = [Phases EXCEPT ![p] = "answered"] /\ Phases[p] = "working"
  <2>1. \A q \in Procs : Phases'[q] = IF q = p THEN "answered" ELSE Phases[q]
    BY <1>1 DEF Phases, PhaseOf
  <2>2. Phases[p] = "working"
    BY DEF Phases, PhaseOf
  <2> QED
    BY <2>1, <2>2 DEF Phases
<1>3. Described(st) = tree
  BY <1>1, DescribedIsTree
<1>4. Answers' = [Answers EXCEPT ![p] = tree]
  <2> HIDE DEF Described
  <2>1. \A q \in Procs : Answers'[q] = IF q = p THEN tree ELSE Answers[q]
    BY <1>1, <1>3 DEF Answers
  <2> QED
    BY <2>1 DEF Answers
<1> QED
  BY <1>2, <1>4, FreshVarsAre

LEMMA ResetEnds ==
    ASSUME DOMAIN pc = Procs, DOMAIN result = Procs, NEW p \in Procs, pc[p] # "idle", Reset(p)
    PROVE  Fresh!End(p)
<1>1. /\ \A q \in Procs : pc'[q] = IF q = p THEN "idle" ELSE pc[q]
      /\ \A q \in Procs : q # p => result'[q] = result[q]
      /\ seen' = [seen EXCEPT ![p] = {}] /\ tree' = tree
  BY DEF Reset, Goto, repoVars
<1>2. Phases' = [Phases EXCEPT ![p] = "idle"] /\ Phases[p] # "idle"
  BY <1>1 DEF Phases, PhaseOf
<1>3. Answers' = [Answers EXCEPT ![p] = NONE]
  <2> HIDE DEF Described
  <2>1. \A q \in Procs : Answers'[q] = IF q = p THEN NONE ELSE Answers[q]
    BY <1>1 DEF Answers
  <2> QED
    BY <2>1 DEF Answers
<1> QED
  BY <1>1, <1>2, <1>3, FreshVarsAre

LEMMA UserChanges ==
    ASSUME IInv, Undisturbed, User
    PROVE  Fresh!Change(tree') /\ tree' \in Tree
<1>1. /\ Idle /\ UNCHANGED <<pc, result>>
      /\ seen' = [p \in Procs |->
            IF pc[p] \in {"idle", "done"} THEN seen[p] ELSE seen[p] \cup {tree'}]
  BY DEF User, UserEdits, UserCommits, UserChecksOut, Moved, Undisturbed, procVars
<1>2. tree' \in Tree
  BY UserTyped DEF IInv, TypeOK, RepoTypeOK
<1>3. UNCHANGED <<Phases, Answers>>
  BY <1>1 DEF Phases, Answers
<1>4. seen' = [q \in Procs |-> IF Phases[q] = "working" THEN seen[q] \cup {tree'} ELSE seen[q]]
  BY <1>1 DEF Idle, Phases, PhaseOf
<1> QED
  BY <1>2, <1>3, <1>4, FreshVarsAre

LEMMA CallBegins ==
    ASSUME NEW p \in Procs, pc[p] = "idle", pc'[p] \notin {"idle", "done"},
           \A q \in Procs : q # p => pc'[q] = pc[q],
           UNCHANGED <<tree, result>>, seen' = [seen EXCEPT ![p] = {tree}]
    PROVE  Fresh!Begin(p)
<1>1. Phases' = [Phases EXCEPT ![p] = "working"] /\ Phases[p] = "idle"
  <2>1. \A q \in Procs : Phases'[q] = IF q = p THEN "working" ELSE Phases[q]
    BY DEF Phases, PhaseOf
  <2>2. Phases[p] = "idle"
    BY DEF Phases, PhaseOf
  <2> QED
    BY <2>1, <2>2 DEF Phases
<1>2. Answers' = Answers
  <2> HIDE DEF Described
  <2>1. \A q \in Procs : pc'[q] = "done" <=> pc[q] = "done"
    OBVIOUS
  <2>2. \A q \in Procs : Described(result'[q]) = Described(result[q])
    OBVIOUS
  <2> QED
    BY <2>1, <2>2 DEF Answers
<1> QED
  BY <1>1, <1>2, FreshVarsAre

LEMMA BeginBegins ==
    ASSUME IInv, NEW p \in Procs, NEW cfg \in Configs, Begin(p, cfg)
    PROVE  Fresh!Begin(p)
<1>1. /\ pc[p] = "idle" /\ pc'[p] = "signature" /\ \A q \in Procs : q # p => pc'[q] = pc[q]
      /\ UNCHANGED <<tree, result>> /\ seen' = [seen EXCEPT ![p] = {tree}]
  BY DEF Begin, At, Goto, IInv, TypeOK, repoVars
<1> QED
  BY <1>1, CallBegins

\* A step of a call answers, ends the call, or changes nothing one can see.
LEMMA StepRefines ==
    ASSUME IInv, Undisturbed, FreshInv, FreshInv', NEW p \in Procs, Step(p)
    PROVE  Fresh!Answer(p) \/ Fresh!End(p) \/ UNCHANGED Fresh!vars
<1>0. DOMAIN pc = Procs /\ DOMAIN result = Procs
  BY DEF IInv, TypeOK
<1>1. pc[p] # "idle" => seen[p] = {tree}
  BY DEF FreshInv, CallFresh
<1>2. pc'[p] = "done" => Rows(result'[p], tree')
  BY DEF FreshInv, CallFresh
<1>3. CASE RenameRaises(p) \/ PutRaises(p)
  BY <1>0, <1>3, ResetEnds DEF RenameRaises, PutRaises, At
<1>4. ASSUME NEW st, result' = [result EXCEPT ![p] = st], pc' = [pc EXCEPT ![p] = "done"],
             pc[p] \notin {"idle", "done"}, UNCHANGED <<tree, seen>>
      PROVE  Fresh!Answer(p)
  <2>1. Rows(st, tree)
    BY <1>2, <1>4 DEF IInv, TypeOK
  <2> QED
    BY <1>1, <1>4, <2>1, DoneAnswers
<1>5. CASE CacheHit(p) \/ PutMeta(p)
  BY <1>4, <1>5 DEF CacheHit, PutMeta, At, Goto, repoVars
<1>6. CASE Finalize(p)
  <2>1. /\ pc[p] = "finalize" /\ UNCHANGED <<tree, seen>>
        /\ \/ \E st : pc' = [pc EXCEPT ![p] = "done"] /\ result' = [result EXCEPT ![p] = st]
           \/ pc' = [pc EXCEPT ![p] = "put_db"] /\ UNCHANGED result
    BY <1>6 DEF Finalize, At, Goto, repoVars
  <2> QED
    BY <1>0, <1>4, <2>1, WorkingStutters
<1>7. CASE RenamePath(p)
  <2>1. pc' = [pc EXCEPT ![p] = "rename"] /\ pc[p] = "rename" /\ UNCHANGED <<tree, seen, result>>
    BY <1>7 DEF RenamePath, At, repoVars, IInv, TypeOK
  <2> QED
    BY <1>0, <2>1, WorkingStutters
<1>8. CASE ComputeManifest(p)
  <2>1. /\ pc[p] = "manifest" /\ UNCHANGED <<tree, seen, result>>
        /\ \E label \in {"full", "sign", "rename"} : pc' = [pc EXCEPT ![p] = label]
    BY <1>8 DEF ComputeManifest, At, Goto, repoVars
  <2> QED
    BY <1>0, <2>1, WorkingStutters
<1>9. CASE \/ TakeSignature(p) \/ CacheReject(p) \/ FindStore(p) \/ NoUsableStore(p)
           \/ GitFails(p) \/ FullIndex(p) \/ PutDb(p)
  <2>1. /\ pc[p] \in {"signature", "lookup", "find", "manifest", "full", "full_states",
                      "full_commit", "full_sign", "put_db"}
        /\ UNCHANGED <<tree, seen, result>>
        /\ \E label \in {"lookup", "find", "manifest", "full", "full_states", "full_commit",
                         "full_sign", "put_db", "put_meta"} : pc' = [pc EXCEPT ![p] = label]
    BY <1>9 DEF TakeSignature, CacheReject, FindStore, NoUsableStore, GitFails, FullIndex,
                FullRead, FullStates, FullCommit, FullSign, PutDb, At, Goto, repoVars
  <2> QED
    BY <1>0, <2>1, WorkingStutters
<1>10. CASE \/ DeleteRows(p) \/ ForgetStates(p) \/ ReadSources(p) \/ RecordStates(p)
            \/ SwapRows(p) \/ UpdateBm25(p) \/ SetCommit(p) \/ SetSignature(p)
  <2>1. /\ pc[p] \in {"rename", "forget", "read", "states", "swap", "bm25", "commit", "sign"}
        /\ UNCHANGED <<tree, seen, result>>
        /\ \E label \in {"forget", "read", "states", "swap", "bm25", "commit", "sign",
                         "finalize"} : pc' = [pc EXCEPT ![p] = label]
    BY <1>10 DEF DeleteRows, ForgetStates, ReadSources, RecordStates, SwapRows, UpdateBm25,
                 SetCommit, SetSignature, At, Goto, repoVars
  <2> QED
    BY <1>0, <2>1, WorkingStutters
<1> QED
  BY <1>3, <1>5, <1>6, <1>7, <1>8, <1>9, <1>10 DEF Step, TryDelta, ApplyDelta

LEMMA NextRefines ==
    ASSUME IInv, Undisturbed, FreshInv, FreshInv', [Next]_vars
    PROVE  [Fresh!Next]_Fresh!vars
<1>0. DOMAIN pc = Procs /\ DOMAIN result = Procs
  BY DEF IInv, TypeOK
<1>1. CASE User
  BY <1>1, UserChanges DEF Fresh!Next
<1>2. ASSUME NEW p \in Procs, NEW cfg \in Configs, Begin(p, cfg)
      PROVE  Fresh!Next
  BY <1>2, BeginBegins DEF Fresh!Next
<1>3. ASSUME NEW p \in Procs, Step(p)
      PROVE  Fresh!Next \/ UNCHANGED Fresh!vars
  BY <1>3, StepRefines DEF Fresh!Next
<1>4. ASSUME NEW p \in Procs, Close(p) \/ Crash(p)
      PROVE  Fresh!Next
  BY <1>0, <1>4, ResetEnds DEF Close, Crash, At, Fresh!Next
<1>5. CASE UNCHANGED vars
  <2>1. UNCHANGED <<tree, seen, pc, result>>
    BY <1>5 DEF vars, repoVars, procVars
  <2>2. UNCHANGED <<Phases, Answers>>
    BY <2>1 DEF Phases, Answers
  <2> QED
    BY <2>1, <2>2, FreshVarsKept
<1> QED
  BY <1>1, <1>2, <1>3, <1>4, <1>5 DEF Next

\* The safety part of ImplementsFreshIndex: no run of calls shows its callers
\* anything that FreshIndex would not.  That every call ends is not part of it.
THEOREM CallsImplementFreshIndex ==
    ASSUME Undisturbed
    PROVE  Spec => Fresh!Init /\ [][Fresh!Next]_Fresh!vars
<1>1. Init => Fresh!Init
  <2> SUFFICES ASSUME Init PROVE Fresh!Init
    OBVIOUS
  <2>1. Phases = [q \in Procs |-> "idle"] /\ Answers = [q \in Procs |-> NONE]
    BY DEF Init, Phases, Answers, PhaseOf
  <2> QED
    BY <2>1, FreshVarsAre DEF Init, RepoInit
<1>2. IInv /\ FreshInv /\ FreshInv' /\ [Next]_vars => [Fresh!Next]_Fresh!vars
  BY NextRefines
<1> QED
  BY <1>1, <1>2, FreshAlways, PTL DEF Spec

===========================================================================
