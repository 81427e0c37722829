---------------------------- MODULE AnalysisPasses ----------------------------
(***************************************************************************)
(* The passes the pipeline registers, scheduled by the pass manager, and   *)
(* what they hand to each other through the tables of the PassContext they *)
(* share (src/types/pass_types.zig).  A pass is its name, the dependencies *)
(* it declares, and the tables whose content decides what it reports or    *)
(* that it fills, for a module with calls between languages.  A pass that  *)
(* reports an issue reads "surfaces": addIssue asks for the surface of the *)
(* issue's function (pass_context_impl.zig:219-283).  Tables that no other *)
(* pass reads are left out, and so is what a pass computes.                *)
(***************************************************************************)
EXTENDS PassManager

CONSTANTS
  Pipelines,    \* the pipelines considered: passes in order of registration
  MaxFailures   \* bound on the passes that fail in a run

ASSUME MaxFailuresAssumption == MaxFailures \in Nat

Tables == {"edges", "memory", "functions", "allocs", "surfaces", "resolution",
           "facts", "taint", "tainted", "boundaries", "transfers"}

\* No two passes of a pipeline have the same name.
ASSUME PipelinesAssumption ==
  \A q \in Pipelines :
    /\ q \in Seq([name : Names, deps : DepLists, reads : SUBSET Tables, writes : SUBSET Tables])
    /\ \A i, j \in DOMAIN q : q[i].name = q[j].name => i = j

VARIABLES
  registered,   \* the pipeline that runs
  table,        \* the tables of the context that have been filled
  starved,      \* <<pass, table>>: the pass read the table before it was filled
  failed        \* names of the passes that failed

Pass(name, deps, reads, writes) ==
  [name |-> name, deps |-> deps, reads |-> reads, writes |-> writes]

(* The tables:                                                             *)
(*   edges       cross_lang_edges and semantics_call_graph                 *)
(*   memory      memory_graph and global_alloc_tracker                     *)
(*   functions   relevant_functions                                        *)
(*   allocs      danger_surface_relevant and ffi_auto_relevant             *)
(*   surfaces    function_surface                                          *)
(*   resolution  semantic_resolution                                       *)
(*   facts       control flow, data flow, alias and lock facts of fact_store *)
(*   taint       taint facts of fact_store                                 *)
(*   tainted     tainted nodes of data_flow_graph                          *)
(*   boundaries  FFI boundaries of data_flow_graph                         *)
(*   transfers   rust_into_raw_set and rust_from_raw_set                   *)

\* cfg, dfg, alias and lock insert their facts in a store of their own, which
\* is freed when they return: they fill no table of the context.
CFGPass == Pass("cfg", <<>>, {}, {})
DFGPass == Pass("dfg", <<"cfg">>, {}, {})
AliasPass == Pass("alias", <<"cfg", "dfg">>, {}, {})
LockPass == Pass("lock", <<>>, {}, {})

SurfaceClassifierPass == Pass("surface-classifier", <<>>, {}, {"surfaces"})
SemanticResolverPass == Pass("SemanticResolver", <<>>, {}, {"resolution"})
MallocCheckPass == Pass("malloc-check", <<>>, {"surfaces"}, {})
BufferOverflowPass == Pass("buffer-overflow", <<>>, {"allocs", "surfaces"}, {})
IntegerOverflowPass == Pass("integer-overflow", <<>>, {"surfaces"}, {})
ReturnCheckPass == Pass("return-check", <<>>, {"surfaces"}, {})
CallGraphPass == Pass("call-graph", <<>>, {}, {"edges"})
TaintPropagationPass ==
  Pass("pointer-flow", <<"call-graph">>,
       {"edges", "functions", "allocs", "surfaces"}, {"taint"})

FFIDetectorPass ==
  Pass("ffi-detector", <<"cfg", "dfg", "pointer-flow">>, {"edges", "taint"}, {})
FFIBoundaryPass ==
  Pass("ffi-boundary", <<"call-graph", "danger-surface">>,
       {"edges", "functions", "surfaces"}, {"allocs"})
FFITypeMismatchPass ==
  Pass("ffi-type-mismatch", <<"call-graph">>, {"edges", "allocs", "surfaces"}, {})
AbiCompatChecker ==
  Pass("abi-compat-checker", <<"call-graph", "ffi-boundary">>, {"edges", "surfaces"}, {})
FFIBodyCheckPass ==
  Pass("ffi-body-check", <<"ffi-boundary">>,
       {"boundaries", "resolution", "tainted", "surfaces"}, {})
JniLeakDetectorPass == Pass("jni-leak-detector", <<"ffi-boundary">>, {"surfaces"}, {})
FFIAnalysisPass ==
  Pass("ownership-violation", <<"cfg", "dfg", "pointer-flow">>, {}, {"boundaries"})
FFIUnsafePass ==
  Pass("ffi-unsafe", <<"ffi-boundary">>, {"boundaries", "surfaces"}, {})

\* Mutant of PtrLifetimePass: it still waits for the pass that waits for it.
MutPtrLifetimePass ==
  Pass("ptr-lifetime", <<"call-graph", "danger-surface">>,
       {"edges", "functions", "allocs", "surfaces"}, {"memory"})

PtrLifetimePass ==
  Pass("ptr-lifetime", <<"call-graph">>,
       {"edges", "functions", "allocs", "surfaces"}, {"memory"})

\* Mutant of DangerSurfacePass: the memory graph is no longer waited for.
MutDangerSurfacePass ==
  Pass("danger-surface", <<>>, {"edges", "memory"}, {"functions", "allocs"})

DangerSurfacePass ==
  Pass("danger-surface", <<"call-graph", "ptr-lifetime">>,
       {"edges", "memory"}, {"functions", "allocs"})
PointerOwnershipPass ==
  Pass("pointer-ownership", <<"ffi-boundary">>,
       {"edges", "memory", "functions", "resolution", "surfaces"}, {"transfers"})
CallbackEscapePass ==
  Pass("callback-escape", <<"call-graph", "danger-surface">>,
       {"edges", "memory", "functions", "allocs", "surfaces"}, {})
CallbackLifecycleChecker ==
  Pass("callback-lifecycle", <<"ffi-boundary", "call-graph">>, {"surfaces"}, {})
RustFfiAuditor ==
  Pass("rust-ffi-filter", <<"SemanticResolver">>,
       {"resolution", "memory", "transfers", "surfaces"}, {"memory"})
CrossLangDataFlowPass ==
  Pass("cross-lang-dataflow", <<"ffi-boundary", "pointer-flow">>, {"surfaces"}, {})

MemorySafetyPass ==
  Pass("memory-safety", <<"danger-surface", "ptr-lifetime">>,
       {"edges", "memory", "functions", "allocs", "surfaces"}, {})
FreeValidationPass ==
  Pass("free-validation", <<"danger-surface", "ptr-lifetime">>,
       {"edges", "memory", "functions", "allocs", "surfaces"}, {})
GcSafetyPass == Pass("gc-safety", <<"ffi-boundary", "call-graph">>, {"surfaces"}, {})
ErrorPropagationTracer ==
  Pass("error-propagation-tracer", <<"ffi-boundary", "call-graph">>, {"surfaces"}, {})
LayoutMismatchPass == Pass("layout_mismatch", <<>>, {"surfaces"}, {})
StringSafetyPass == Pass("string_safety_ffi", <<>>, {"surfaces"}, {})
UnwindBoundaryPass == Pass("unwind-boundary", <<>>, {"surfaces"}, {})

registerAllPasses ==
  << CFGPass, DFGPass, AliasPass, SurfaceClassifierPass, SemanticResolverPass,
     MallocCheckPass, BufferOverflowPass, IntegerOverflowPass, CallGraphPass,
     TaintPropagationPass, FFIDetectorPass, FFIBoundaryPass, FFITypeMismatchPass,
     AbiCompatChecker, FFIBodyCheckPass, JniLeakDetectorPass, FFIAnalysisPass,
     FFIUnsafePass, PtrLifetimePass, DangerSurfacePass, PointerOwnershipPass,
     CallbackEscapePass, CallbackLifecycleChecker, RustFfiAuditor,
     CrossLangDataFlowPass, ReturnCheckPass, MemorySafetyPass, FreeValidationPass,
     GcSafetyPass, ErrorPropagationTracer, LockPass, LayoutMismatchPass,
     StringSafetyPass, UnwindBoundaryPass >>

\* The passes for a module in one language.
runSafetyOnlyPipeline ==
  << CallGraphPass, MallocCheckPass, BufferOverflowPass, IntegerOverflowPass,
     PtrLifetimePass, DangerSurfacePass, MemorySafetyPass, FreeValidationPass,
     CallbackEscapePass >>

-----------------------------------------------------------------------------
ctxVars == <<table, starved, failed>>
allVars == <<vars, registered, ctxVars>>

ContextInit == Init /\ registered \in Pipelines /\ table = {} /\ starved = {} /\ failed = {}

\* All passes are registered before the one run.
RegisterNext ==
  /\ outcome = "none" /\ Len(passes) < Len(registered)
  /\ LET p == registered[Len(passes) + 1] IN RegisterPass(p.name, p.deps)
  /\ UNCHANGED <<registered, ctxVars>>

StartRun ==
  /\ outcome = "none" /\ Len(passes) = Len(registered)
  /\ Run
  /\ UNCHANGED <<registered, ctxVars>>

ResolveStep ==
  /\ Seed \/ Seeded \/ Dequeue \/ Relax \/ CycleDetected \/ StoreOrder
  /\ UNCHANGED <<registered, ctxVars>>

\* The pass at hand reads and fills tables; one that fails may have filled its
\* tables or not.
RunRegistered ==
  \E ok \in BOOLEAN :
    /\ RunPass(ok)
    /\ LET p == registered[resolved_order[Len(ran) + 1]] IN
         /\ starved' = starved \cup {<<p.name, t>> : t \in p.reads \ table}
         /\ \/ ok /\ table' = table \cup p.writes /\ UNCHANGED failed
            \/ /\ ~ok /\ Cardinality(failed) < MaxFailures
               /\ failed' = failed \cup {p.name}
               /\ table' \in {table, table \cup p.writes}
    /\ UNCHANGED registered

EndOfRun == EndRun /\ UNCHANGED <<registered, ctxVars>>

ContextStep == RegisterNext \/ StartRun \/ ResolveStep \/ RunRegistered \/ EndOfRun

ContextSpec == ContextInit /\ [][ContextStep]_allVars

-----------------------------------------------------------------------------
Producers(t) == {p \in {registered[i] : i \in DOMAIN registered} : t \in p.writes}

\* The passes are registered under names of their own, once.
ContextTypeOK ==
  /\ TypeOK
  /\ \A i \in DOMAIN passes : passes[i].name = registered[i].name
                             /\ pass_map[passes[i].name] = i
  /\ table \subseteq UNION {registered[i].writes : i \in DOMAIN registered}
  /\ failed \subseteq {registered[i].name : i \in DOMAIN registered}

\* A pass that reads calls between languages, the memory graph, taint facts, FFI
\* boundaries or ownership transfers finds them, unless the pass that fills them
\* failed.  What is relevant to a danger surface is known to every pass that asks
\* for it but those that run before danger-surface: ptr-lifetime in both pipelines,
\* one more in each.  Only some of these orders are declared; the rest follows from
\* the order in which the passes are registered and from swapRemove.
ConsumersFollowProducers ==
  \A s \in starved :
    s[2] \in {"edges", "memory", "taint", "boundaries", "transfers", "functions", "allocs"} =>
      \/ \E p \in Producers(s[2]) : p.name \in failed
      \/ /\ s[2] \in {"functions", "allocs"}
         /\ s[1] \in {"ptr-lifetime", IF registered = runSafetyOnlyPipeline
                                         THEN "buffer-overflow" ELSE "ffi-type-mismatch"}
=============================================================================
