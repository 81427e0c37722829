--------------------------- MODULE MCAnalysisPasses ---------------------------
(***************************************************************************)
(* The pass manager with two kinds of client: the pipeline of the program, *)
(* which registers one of its two sets of passes and runs them once, and   *)
(* one that calls the manager as it likes, with a few small passes.        *)
(***************************************************************************)
EXTENDS AnalysisPasses

MCBoth == {registerAllPasses, runSafetyOnlyPipeline}
MCPasses == UNION {{q[i] : i \in DOMAIN q} : q \in MCBoth}

\* Enough for chains, cycles, a pass that waits for two others, and one that
\* names the same dependency twice.
SmallNames == {"a", "b", "c"}
SmallDepLists == {<<>>, <<"a">>, <<"b">>, <<"c", "b">>, <<"b", "b">>}
SmallPasses == 3    \* bound: passes of the free client

MCNames == {p.name : p \in MCPasses} \cup SmallNames
MCDepLists == {p.deps : p \in MCPasses} \cup SmallDepLists

\* The client that has no pipeline is free to call.
Free == registered = <<>>

MCInit ==
  \/ ContextInit
  \/ Init /\ Free /\ table = {} /\ starved = {} /\ failed = {}

PipelineStep == ~Free /\ ContextStep
FreeStep == Free /\ Step /\ UNCHANGED <<registered, ctxVars>>

FreeCall ==
  /\ Free
  /\ \/ Len(passes) < SmallPasses
        /\ \E name \in SmallNames, deps \in SmallDepLists : RegisterPass(name, deps)
     \/ ResolveDependencies \/ Run \/ OutOfMemory
  /\ UNCHANGED <<registered, ctxVars>>

MCNext == PipelineStep \/ FreeStep \/ FreeCall

\* The pipeline goes on until its run has ended; the free client goes on with a
\* call it has begun, and need not begin one.
MCSpec == MCInit /\ [][MCNext]_allVars /\ WF_allVars(PipelineStep) /\ WF_allVars(FreeStep)

-----------------------------------------------------------------------------
\* A pipeline runs to its end, and every registered pass gets its turn, whatever
\* fails.
RunEnds == ~Free => <>(outcome = "ran" /\ Len(ran) = Len(registered))
=============================================================================
