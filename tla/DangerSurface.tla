---------------------------- MODULE DangerSurface ----------------------------
(***************************************************************************)
(* Which pointers matter: three passes in a row and the query the later    *)
(* passes ask.  call-graph hands over the calls that cross a language      *)
(* boundary (PassContext.cross_lang_edges), ptr-lifetime builds the memory *)
(* graph, danger-surface marks the values of the graph that are relevant,  *)
(* and isOnDangerPathFull judges a single value again for whoever reports  *)
(* an issue about it.                                                      *)
(*                                                                         *)
(* The program is any short one: which calls cross, then the instructions  *)
(* of its functions, one function after the other (analyzeFunction holds   *)
(* the mutex of the pass).  A value is the number of its instruction.      *)
(*                                                                         *)
(* Left out: language overrides, values shared by functions (globals),     *)
(* modules of unknown language, and what ptr-lifetime reports.  A node     *)
(* that handleLoad adds and propagateOrigin replaces at once is left out   *)
(* as well: no key leads to it.                                            *)
(***************************************************************************)
EXTENDS MemoryGraph, FiniteSetsExt

CONSTANTS
  FunctionCount,  \* bound: functions of the module, numbered in order
  MaxEdges,       \* bound: calls that cross a boundary
  MaxInsts        \* bound: instructions about pointers in the module

ASSUME DangerBounds == FunctionCount \in Nat /\ MaxEdges \in Nat /\ MaxInsts \in Nat

VARIABLES
  stage,                    \* the pass that runs
  failed,                   \* the passes that ran out of memory
  cross_lang_edges,         \* the crossing calls, <<caller, callee>>
  cross_edge_by_callee,     \* for each callee the places of its edges
  func,                     \* the function ptr-lifetime is in
  is_ffi_func,              \* it takes part in the memory graph
  unsafe,                   \* its zone is .unsafe
  pointer_map,              \* its values the pass knows something of
  home,                     \* the function of each value
  mem_graph,                \* ctx.memory_graph
  info,                     \* of each node what decides its relevance
  calls,                    \* call_args and call_rets, <<value, callee>>
  to_visit,                 \* keys of mem_graph.nodes danger-surface has not visited
  relevant,                 \* danger_surface_relevant and ffi_auto_relevant
  relevant_functions

edgeVars == <<failed, cross_lang_edges, cross_edge_by_callee>>
functionVars == <<func, is_ffi_func, unsafe>>
graphVars == <<pointer_map, home, mem_graph, info, calls>>
surfaceVars == <<to_visit, relevant, relevant_functions>>
vars == <<stage, edgeVars, functionVars, graphVars, surfaceVars>>

Functions == 1..FunctionCount
Callees == {"strdup", "free"}  \* one takes a pointer and returns one, one releases it
Garbage == "garbage"    \* what a released name may hold
Nobody == 0             \* a released name of a caller: NextFunction lets any function take part
Undefined == <<0>>      \* a list nobody initialised

-----------------------------------------------------------------------------
(* call-graph: the crossing calls.                                         *)

Indexed(index, callee) ==
  IF callee \in DOMAIN index THEN index[callee] ELSE <<>>

\* Mutant: the place is taken after the edge has been appended.
MutAddCrossLangEdge(caller, callee) ==
  /\ cross_lang_edges' = Append(cross_lang_edges, <<caller, callee>>)
  /\ cross_edge_by_callee' =
       WithEntry(cross_edge_by_callee, callee,
                 Append(Indexed(cross_edge_by_callee, callee), Len(cross_lang_edges') + 1))

addCrossLangEdge(caller, callee) ==
  /\ cross_lang_edges' = Append(cross_lang_edges, <<caller, callee>>)
  /\ cross_edge_by_callee' =
       WithEntry(cross_edge_by_callee, callee,
                 Append(Indexed(cross_edge_by_callee, callee), Len(cross_lang_edges')))

\* The calls of one function come after those of the one before.
Crosses(caller) ==
  /\ stage = "call-graph" /\ Len(cross_lang_edges) < MaxEdges
  /\ \A i \in DOMAIN cross_lang_edges : cross_lang_edges[i][1] <= caller

\* Every edge crosses, so is_ffi_boundary always holds.
ExtractEdge(caller, callee) ==
  /\ Crosses(caller)
  /\ addCrossLangEdge(caller, callee)
  /\ UNCHANGED <<stage, failed, functionVars, graphVars, surfaceVars>>

\* Out of memory.  When the names are copied or the edge appended, nothing has
\* happened.  When the index cannot be extended the edge stays in the list,
\* although its names are released on the way out, and the callee may have got
\* an entry whose list was never made.
ExtractFails(caller, callee) ==
  /\ Crosses(caller)
  /\ stage' = "ptr-lifetime" /\ failed' = failed \cup {"call-graph"}
  /\ \/ UNCHANGED <<cross_lang_edges, cross_edge_by_callee>>
     \/ /\ \E to \in Callees \cup {Garbage} :
             cross_lang_edges' = Append(cross_lang_edges, <<Nobody, to>>)
        /\ \/ UNCHANGED cross_edge_by_callee
           \/ /\ callee \notin DOMAIN cross_edge_by_callee
              /\ cross_edge_by_callee' = WithEntry(cross_edge_by_callee, callee, Undefined)
  /\ UNCHANGED <<functionVars, graphVars, surfaceVars>>

CallGraphEnds ==
  /\ stage = "call-graph" /\ stage' = "ptr-lifetime"
  /\ UNCHANGED <<edgeVars, functionVars, graphVars, surfaceVars>>

CrossingCallees == {e[2] : e \in {cross_lang_edges[i] : i \in DOMAIN cross_lang_edges}}
FfiNames == {e[1] : e \in {cross_lang_edges[i] : i \in DOMAIN cross_lang_edges}}

\* The place of the edge found for a callee, or 0.
getCrossEdgeByCallee(callee) ==
  LET indices == Indexed(cross_edge_by_callee, callee)
  IN  IF indices # <<>> THEN indices[1] ELSE 0

-----------------------------------------------------------------------------
(* ptr-lifetime: the memory graph.                                         *)

Inst == Len(home) + 1

\* A function takes part if an edge names it; one that reaches a boundary over
\* other calls does as well.  Its zone is classified by its name and its calls.
NextFunction ==
  /\ stage = "ptr-lifetime" /\ func < FunctionCount
  /\ func' = func + 1
  /\ \E reaches \in BOOLEAN : is_ffi_func' = (func + 1 \in FfiNames \/ reaches)
  /\ unsafe' \in BOOLEAN
  /\ pointer_map' = {}
  /\ UNCHANGED <<stage, edgeVars, home, mem_graph, info, calls, surfaceVars>>

Instruction ==
  /\ stage = "ptr-lifetime" /\ func > 0 /\ Len(home) < MaxInsts
  /\ home' = Append(home, func)
  /\ UNCHANGED <<stage, edgeVars, functionVars, surfaceVars>>

\* Of a node: its zone is .unsafe; alloc_lang differs from the language of the
\* module, in which all frees are; alloc_callee names an ownership transfer.
NodeInfo(foreign, transfer) == [unsafe |-> unsafe, foreign |-> foreign, transfer |-> transfer]

\* Zone and language of a placeholder are .unknown.
LazyInfo == [unsafe |-> FALSE, foreign |-> TRUE, transfer |-> FALSE]

NewPointer(foreign, transfer) ==
  /\ pointer_map' = pointer_map \cup {Inst}
  /\ IF is_ffi_func
       THEN mem_graph' = trackAlloc(mem_graph, Inst)
            /\ info' = Append(info, NodeInfo(foreign, transfer))
       ELSE UNCHANGED <<mem_graph, info>>

Alias(from, to) ==
  /\ mem_graph' = trackAlias(mem_graph, from, to)
  /\ info' = IF Tracked(mem_graph, to) THEN info ELSE Append(info, LazyInfo)

Alloca == Instruction /\ NewPointer(FALSE, FALSE) /\ UNCHANGED calls

\* handleCallInvoke returns before it tracks the edges of the call.
HeapAlloc ==
  /\ Instruction
  /\ \E foreign, transfer \in BOOLEAN : NewPointer(foreign, transfer)
  /\ UNCHANGED calls

\* A call may cross only if it was extracted, where no extraction failed.
MayCall(callee) ==
  \/ callee \notin CrossingCallees
  \/ \E i \in DOMAIN cross_lang_edges : cross_lang_edges[i] = <<func, callee>>
  \/ "call-graph" \in failed

trackCallEdges(callee, values) ==
  calls' = IF is_ffi_func THEN calls \cup {<<v, callee>> : v \in values} ELSE calls

\* An allocator of the knowledge base: result and argument are edges of the call.
KnownAllocator ==
  /\ Instruction /\ MayCall("strdup")
  /\ NewPointer(FALSE, FALSE)
  /\ \E args \in {{}} \cup {{v} : v \in pointer_map} :
       trackCallEdges("strdup", args \cup {Inst})

\* Load, getelementptr, cast: propagateOrigin asks for no is_ffi_func.
Derive(v) ==
  /\ Instruction /\ v \in pointer_map
  /\ pointer_map' = pointer_map \cup {Inst}
  /\ Alias(Inst, v)
  /\ UNCHANGED calls

Store(v, dest) ==
  /\ Instruction /\ v \in pointer_map /\ dest \in pointer_map /\ v # dest
  /\ IF is_ffi_func THEN Alias(dest, v) ELSE UNCHANGED <<mem_graph, info>>
  /\ UNCHANGED <<pointer_map, calls>>

\* The alias map leads to a second node when the variable was overwritten.
FreeCall(v) ==
  /\ Instruction /\ MayCall("free") /\ v \in pointer_map
  /\ LET g == trackFree(mem_graph, v, NoBlock) IN
       mem_graph' = IF is_ffi_func /\ v \in DOMAIN g.canonical
                      THEN trackFree(g, g.canonical[v], NoBlock) ELSE g
  /\ trackCallEdges("free", {v})
  /\ UNCHANGED <<pointer_map, info>>

Analyze ==
  \/ Alloca \/ HeapAlloc \/ KnownAllocator
  \/ \E v \in pointer_map : Derive(v) \/ FreeCall(v)
  \/ \E v, dest \in pointer_map : Store(v, dest)

\* danger-surface has nothing to do without edges.
LifetimeEnds ==
  /\ stage = "ptr-lifetime" /\ func = FunctionCount
  /\ stage' = IF cross_lang_edges = <<>> THEN "done" ELSE "danger-surface"
  /\ to_visit' = DOMAIN mem_graph.nodes
  /\ pointer_map' = {} /\ is_ffi_func' = FALSE /\ unsafe' = FALSE
  /\ UNCHANGED <<edgeVars, func, home, mem_graph, info, calls, relevant, relevant_functions>>

-----------------------------------------------------------------------------
(* The judge of a single value (isOnDangerPath).                           *)

InfoOf(v) == info[mem_graph.nodes[v]]
FunctionOf(v) == home[NodeOf(mem_graph, v).alloc_inst]

AtBoundary(v) == \E c \in calls : c[1] = v /\ c[2] \in CrossingCallees
FreedElsewhere(v) == NodeOf(mem_graph, v).freed /\ InfoOf(v).foreign

HasDangerOfItsOwn(v) ==
  \/ AtBoundary(v)
  \/ Tracked(mem_graph, v) /\ (InfoOf(v).unsafe \/ FreedElsewhere(v))

\* The recursive call for an alias.
AliasIsOnDangerPath(alias, visited) == alias \notin visited /\ HasDangerOfItsOwn(alias)

\* The loop notes an alias as visited before it calls itself for it.
isOnDangerPath(v) ==
  \/ HasDangerOfItsOwn(v)
  \/ /\ Tracked(mem_graph, v)
     /\ \E a \in NodeOf(mem_graph, v).aliases \ {v} : AliasIsOnDangerPath(a, {v, a})

\* The callees are cached at the first question, after call-graph.
isOnDangerPathFull(v) == IF cross_lang_edges = <<>> THEN v \in relevant ELSE isOnDangerPath(v)

-----------------------------------------------------------------------------
(* danger-surface.                                                         *)

\* Mutant: deallocators are not looked for.
MutFfiFunctions == {home[c[1]] : c \in {c \in calls : c[2] \in CrossingCallees \ {"free"}}}

FfiFunctions == {home[c[1]] : c \in {c \in calls : c[2] \in CrossingCallees}}

OnDanger(v) ==
  \/ InfoOf(v).unsafe
  \/ FreedElsewhere(v) /\ ~InfoOf(v).transfer
  \/ /\ FfiFunctions # {} => FunctionOf(v) \in FfiFunctions
     /\ \/ AtBoundary(v)
        \/ NodeOf(mem_graph, v).aliases # {} /\ isOnDangerPath(v)

\* Mutant: the value at hand may have been marked.
MutTraceAliasClosure(marked, v) == marked \cup NodeOf(mem_graph, v).aliases

\* A value that is marked has been traced; the value at hand always is.
traceAliasClosure(marked, v) ==
  IF v \in marked THEN marked ELSE marked \cup NodeOf(mem_graph, v).aliases

VisitNode(v) ==
  /\ stage = "danger-surface" /\ v \in to_visit
  /\ to_visit' = to_visit \ {v}
  /\ IF v \notin relevant /\ OnDanger(v)
       THEN /\ relevant' = traceAliasClosure(relevant \cup {v}, v)
            /\ relevant_functions' =
                 relevant_functions \cup {FunctionOf(v)}
       ELSE UNCHANGED <<relevant, relevant_functions>>
  /\ UNCHANGED <<stage, edgeVars, functionVars, graphVars>>

\* Out of memory at one of the three marks.
VisitFails(v) ==
  /\ stage = "danger-surface" /\ v \in to_visit
  /\ v \notin relevant /\ OnDanger(v)
  /\ stage' = "done" /\ failed' = failed \cup {"danger-surface"}
  /\ \/ UNCHANGED <<relevant, relevant_functions>>
     \/ /\ relevant' = relevant \cup {v}
        /\ relevant_functions' \in
             {relevant_functions, relevant_functions \cup {FunctionOf(v)}}
  /\ UNCHANGED <<cross_lang_edges, cross_edge_by_callee, functionVars, graphVars, to_visit>>

SurfaceEnds ==
  /\ stage = "danger-surface" /\ to_visit = {} /\ stage' = "done"
  /\ UNCHANGED <<edgeVars, functionVars, graphVars, surfaceVars>>

Done == stage = "done" /\ UNCHANGED vars

-----------------------------------------------------------------------------
Init ==
  /\ stage = "call-graph" /\ failed = {}
  /\ cross_lang_edges = <<>> /\ cross_edge_by_callee = <<>>
  /\ func = 0 /\ is_ffi_func = FALSE /\ unsafe = FALSE
  /\ pointer_map = {} /\ home = <<>>
  /\ mem_graph = NewGraph({}) /\ info = <<>> /\ calls = {}
  /\ to_visit = {} /\ relevant = {} /\ relevant_functions = {}

Next ==
  \/ \E caller \in Functions, callee \in Callees :
       ExtractEdge(caller, callee) \/ ExtractFails(caller, callee)
  \/ CallGraphEnds
  \/ NextFunction \/ Analyze \/ LifetimeEnds
  \/ \E v \in to_visit : VisitNode(v) \/ VisitFails(v)
  \/ SurfaceEnds
  \/ Done

Spec == Init /\ [][Next]_vars

-----------------------------------------------------------------------------
\* Whoever asks for the edge of a callee is told of the first one that calls it,
\* and of none if there is none: the index follows the list, even where call-graph
\* runs out of memory half way through addCrossLangEdge, which undoes nothing.
\* Excepted are the edge whose names are released and, where its callee was new,
\* the list that was never made.
LookupsFindFirstEdge ==
  \A callee \in Callees :
    LET places == {i \in DOMAIN cross_lang_edges :
                     cross_lang_edges[i][1] # Nobody /\ cross_lang_edges[i][2] = callee}
    IN  IF Indexed(cross_edge_by_callee, callee) = Undefined
          THEN "call-graph" \in failed /\ places = {}
          ELSE getCrossEdgeByCallee(callee) = IF places = {} THEN 0 ELSE Min(places)

Marked == stage = "done" /\ "danger-surface" \notin failed

\* In whatever order danger-surface visits the keys, and in spite of its fast
\* path, which skips functions without boundary calls, it marks every value of an
\* unsafe zone, every argument and result of a call that crosses and every value
\* freed in another language than it was allocated in, with its function, unless
\* ownership was transferred.  And it marks nothing but these and other names of
\* theirs.
DangerIsMarked ==
  Marked =>
    /\ cross_lang_edges # <<>> =>
         \A v \in DOMAIN mem_graph.nodes :
           InfoOf(v).unsafe \/ AtBoundary(v) \/ (FreedElsewhere(v) /\ ~InfoOf(v).transfer)
             => v \in relevant /\ FunctionOf(v) \in relevant_functions
    /\ \A v \in relevant : \E d \in DOMAIN mem_graph.nodes :
         /\ HasDangerOfItsOwn(d)
         /\ d = v \/ d \in NodeOf(mem_graph, v).aliases \/ v \in NodeOf(mem_graph, d).aliases
    /\ relevant_functions \subseteq {FunctionOf(v) : v \in relevant}

\* "If a pointer was already marked relevant by a prior trace, all its aliases
\* have already been visited too": what is relevant is closed under aliases
\* (traceAliasClosure).
AliasesAreRelevant ==
  Marked /\ failed = {} =>
    \A v \in relevant : NodeOf(mem_graph, v).aliases \subseteq relevant

\* The two judges agree: what danger-surface marked is on a danger path for every
\* pass that asks later, and what is on one was marked, but for the transfers of
\* ownership in functions the fast path skips.
JudgesAgree ==
  Marked =>
    \A v \in DOMAIN mem_graph.nodes :
      /\ v \in relevant => isOnDangerPathFull(v)
      /\ isOnDangerPathFull(v) /\ v \notin relevant =>
           FreedElsewhere(v) /\ InfoOf(v).transfer /\ FunctionOf(v) \notin FfiFunctions
=============================================================================
