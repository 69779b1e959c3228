------------------------------- MODULE Impact ------------------------------
(***************************************************************************)
(* What a change reaches (impact.py): the files one edge away, and a risk  *)
(* from what is among them; for a diff, the symbols its hunks touch, each  *)
(* with the risk of its file.  An index carries the facts this needs: the  *)
(* stored edges, the chunks, files of a thousand tokens or more, files an  *)
(* adapter takes for entry points, and the files whose PageRank is twice   *)
(* the mean.                                                               *)
(***************************************************************************)
EXTENDS ArchGraph

CONSTANTS
    HighFanIn,           \* importers that make a change risky
    EntryPointMaxDepth,  \* import hops to an entry point that count
    ImpactConfigNames    \* configuration files by name: fewer than ConfigNames

ASSUME ImpactAssumption == HighFanIn \in Nat \ {0} /\ EntryPointMaxDepth \in Nat

Levels == <<"low", "moderate", "high">>

LevelRank(level) == CHOOSE i \in 1..3 : Levels[i] = level

---------------------------------------------------------------------------
(* analyze_impact.  A change is a path with a status; of a rename, the new *)
(* path counts.                                                            *)

ChangedPaths(changes) == {c.path : c \in changes}

AffectedFiles(index, changed) ==
    changed \cup {e.source : e \in {x \in index.edges : x.target \in changed}}
            \cup {e.target : e \in {x \in index.edges : x.source \in changed}}

\* The first part of a path; of a file in the root, none.
ModulesOf(paths) == {Dir(p) : p \in paths} \ {""}

\* Mutant of FanIn: files of the change itself are not counted.
FanInFromOutside(index, changed) ==
    Cardinality({e.source : e \in {x \in index.edges : x.target \in changed}} \ changed)

FanIn(index, changed) == Cardinality({e.source : e \in {x \in index.edges : x.target \in changed}})

RiskReasons(index, changed, relevant) ==
    {r \in {"public_interface_changed", "cross_module_impact", "unmapped_file", "config_changed",
            "test_surface_changed", "large_file_changed", "high_fan_in"} :
        CASE r = "public_interface_changed" ->
                \E c \in index.chunks : c.file \in relevant /\ IsPublicInterface(c)
          [] r = "cross_module_impact"  -> Cardinality(ModulesOf(relevant)) > 1
          [] r = "unmapped_file"        -> ~ changed \subseteq IndexedFiles(index)
          [] r = "config_changed"       -> \E p \in changed : p[2] \in ImpactConfigNames
          [] r = "test_surface_changed" -> \E p \in changed : IsTestPath(p)
          [] r = "large_file_changed"   -> relevant \cap index.large # {}
          [] OTHER                      -> FanIn(index, changed) >= HighFanIn}

RiskLevel(reasons) ==
    IF reasons \cap {"public_interface_changed", "high_fan_in", "cross_module_impact"} # {}
    THEN "high"
    ELSE IF reasons # {} THEN "moderate" ELSE "low"

AnalyzeImpact(index, changes) ==
    LET changed  == ChangedPaths(changes)
        relevant == AffectedFiles(index, changed \cap IndexedFiles(index))
        reasons  == RiskReasons(index, changed, relevant)
    IN  [files      |-> relevant,
         modules    |-> ModulesOf(relevant),
         interfaces |-> {c \in index.chunks : c.file \in relevant /\ IsPublicInterface(c)},
         tests      |-> {p \in relevant : IsTestPath(p)},
         unmapped   |-> changed \ IndexedFiles(index),
         reasons    |-> reasons,
         level      |-> RiskLevel(reasons)]

---------------------------------------------------------------------------
(* analyze_diff_impact.  hunks[p]: line ranges <<first, last>> of the new  *)
(* side of a file; a deletion is one line at its place.                    *)

Overlaps(chunk, hunk) == chunk.lines[1] <= hunk[2] /\ hunk[1] <= chunk.lines[2]

\* Deleted files have no symbols in an index of the state after the change.
TouchedSymbols(index, changes, hunks) ==
    {c \in index.chunks :
        /\ HasSymbol(c)
        /\ \E change \in changes : change.path = c.file /\ change.status # "D"
        /\ c.file \in DOMAIN hunks /\ \E h \in hunks[c.file] : Overlaps(c, h)}

\* Import hops back from a file to the nearest entry point, NONE if too far.
NearestEntryPoint(index, file) ==
    LET g == FromEdges(index.edges)
        within[d \in 0..EntryPointMaxDepth] ==
            IF d = 0 THEN {file}
            ELSE within[d - 1] \cup UNION {ImportedBy(g, p) : p \in within[d - 1]}
        hops == {d \in 0..EntryPointMaxDepth : within[d] \cap index.entries # {}}
    IN  IF hops = {} THEN NONE ELSE Min(hops)

\* An entry point is high, or two of the three signals.
ClassifyFileRisk(index, file) ==
    LET entry == NearestEntryPoint(index, file)
        fired == (IF file \in index.central THEN 1 ELSE 0)
               + (IF Cardinality(ImportedBy(FromEdges(index.edges), file)) >= HighFanIn THEN 1 ELSE 0)
               + (IF entry # NONE THEN 1 ELSE 0)
    IN  IF entry = 0 \/ fired >= 2 THEN "high" ELSE IF fired = 1 THEN "medium" ELSE "low"

AffectedSymbols(index, changes, hunks) ==
    {<<c.id, ClassifyFileRisk(index, c.file)>> : c \in TouchedSymbols(index, changes, hunks)}

=============================================================================
