------------------------------ MODULE Commands ------------------------------
(***************************************************************************)
(* The commands that read an index, or write only what belongs to others:  *)
(* structure (graph, explain, impact), context (query, context, scout),    *)
(* setup (install-client, setup), the lanes that pack a bundle again, the  *)
(* stages of index that turn files into chunks, requests with vectors, and *)
(* the watch of `archex mcp --watch`.  Each runs in a process of its own   *)
(* and shares no state with the others but the index, of which only the    *)
(* requests with vectors model a part: so a behaviour is one of one kind   *)
(* of command line.                                                        *)
(***************************************************************************)
EXTENDS StructureCommands, Scout, ClientSetup, SourceIngest, VectorLegs, EfficiencyPacking,
        IndexWatch

VARIABLE command    \* the command line that is run

commandVars == <<command, structureVars, ask, scout, setupVars, ingest, packing, vectorVars, watchVars>>

CommandsInit ==
    /\ ContextInit /\ ScoutInit /\ IngestIdle /\ PackingIdle /\ VectorsIdle /\ WatchInit
    /\ \/ command = "structure" /\ StructureInit /\ SetupIdle
       \/ command = "setup" /\ StructureIdle /\ SetupInit
       \/ command \in {"context", "ingest", "pack", "vectors", "watch"} /\ StructureIdle /\ SetupIdle

RunStructure ==
    /\ command = "structure" /\ StructureNext
    /\ UNCHANGED <<command, ask, scout, setupVars, ingest, packing, vectorVars, watchVars>>

RunContext ==
    /\ command = "context" /\ UNCHANGED <<command, structureVars, setupVars, ingest, packing, vectorVars, watchVars>>
    /\ \/ ContextNext /\ UNCHANGED scout
       \/ ScoutNext

RunSetup ==
    /\ command = "setup" /\ SetupNext
    /\ UNCHANGED <<command, structureVars, ask, scout, ingest, packing, vectorVars, watchVars>>

RunIngest ==
    /\ command = "ingest" /\ IngestNext
    /\ UNCHANGED <<command, structureVars, ask, scout, setupVars, packing, vectorVars, watchVars>>

RunPacking ==
    /\ command = "pack" /\ PackingNext
    /\ UNCHANGED <<command, structureVars, ask, scout, setupVars, ingest, vectorVars, watchVars>>

RunVectors ==
    /\ command = "vectors" /\ VectorsNext
    /\ UNCHANGED <<command, structureVars, ask, scout, setupVars, ingest, packing, watchVars>>

RunWatch ==
    /\ command = "watch" /\ WatchNext
    /\ UNCHANGED <<command, structureVars, ask, scout, setupVars, ingest, packing, vectorVars>>

CommandsNext ==
    \/ RunStructure \/ RunContext \/ RunSetup \/ RunIngest
    \/ RunPacking \/ RunVectors \/ RunWatch

CommandsSpec == CommandsInit /\ [][CommandsNext]_commandVars

\* WatchFairness, of the steps that are steps of a watch.  The other commands may
\* stop anywhere.
CommandsFairSpec ==
    /\ CommandsSpec
    /\ WF_commandVars(RunWatch /\ Observer)
    /\ \A t \in Timers : WF_commandVars(RunWatch /\ TimerThread(t))

=============================================================================
