------------------------- MODULE CrossLangDataFlow -------------------------
(***************************************************************************)
(* The analysis of src/pass/analysis/ffi/cross_lang_dataflow.zig on the    *)
(* modules that the C test programs compile to: one pass over the calls,   *)
(* in the order of the text, that pairs allocations with releases, then    *)
(* one over the allocations, that reports those never released, then the   *)
(* search for allocations released in several languages.                   *)
(*                                                                         *)
(* The model is the build of the test scripts (no optimisation, debug      *)
(* information): a pointer read from a variable is a new value each time,  *)
(* constants and functions are one value in the whole module, the operands *)
(* of a call are its arguments followed by the function called.            *)
(*                                                                         *)
(* Left out: Java, which no C test program uses, with the checks of its    *)
(* null results; the language of the allocation, which is C in a C module  *)
(* and only worded in reports; the checks of an orphan that look at its    *)
(* release functions, which an allocation that is not released has not,    *)
(* and those of the escape analysis, which is never given anything.        *)
(***************************************************************************)
EXTENDS CBody, FiniteSets

CONSTANT Programs   \* records [name, functions], functions as in CBody

VARIABLES program,       \* the program analysed
          module,        \* its functions and their calls
          edge_map,      \* the functions it calls across a border, with their language
          position,      \* <<function, call>>: the last call looked at
          allocations,   \* in the order they were found
          allocByPtr, freedAllocByPtr, allocBySym,  \* indices into allocations
          storeMap,      \* address of a place |-> the allocation stored in it
          checked,       \* how many allocations the orphan check has seen
          stage,         \* "calls", "orphans", "done"
          issues

moduleVars == << program, module, edge_map >>
dataflowVars == << moduleVars, position, allocations, allocByPtr, freedAllocByPtr,
                   allocBySym, storeMap, checked, stage, issues >>

\* std.mem.indexOf(u8, name, pattern) != null, for one of the patterns; and
\* std.mem.startsWith.
HasAny(name, patterns) ==
  \E p \in patterns : \E i \in 1..(Len(name) - Len(p) + 1) :
      SubSeq(name, i, i + Len(p) - 1) = p
StartsWith(name, prefix) ==
  Len(name) > Len(prefix) /\ SubSeq(name, 1, Len(prefix)) = prefix

-----------------------------------------------------------------------------
(* What the analysis knows of a function by its name.                      *)

isAllocationFunction(name) ==
  HasAny(name,
    {"malloc", "calloc", "realloc", "aligned_alloc", "posix_memalign", "mmap",
     "into_raw", "alloc::alloc", "__rust_alloc", "Allocator.alloc", "heap_alloc",
     "_Znwm", "_Znam", "new[]", "operator new",
     "PyMem_Malloc", "PyMem_New", "PyMem_Realloc", "PyMem_Calloc",
     "PyObject_Malloc", "PyObject_New", "JNI_Malloc"})

\* Mutant: the releases of C and its libraries are forgotten.
MutIsFreeFunction(name) == HasAny(name, {"from_raw", "drop", "__rust_dealloc", "delete"})

isFreeFunction(name) ==
  HasAny(name,
    {"free", "munmap", "from_raw", "drop", "__rust_dealloc", "_release",
     "arc_release", "rc_release", "Allocator.free", "heap_free", "delete",
     "PyMem_Free", "PyMem_Del", "PyMem_Realloc", "PyObject_Free", "PyObject_Del",
     "Py_DECREF", "Py_XDECREF", "JNI_Free"})

\* The caller's language, the default, is that of the module.
classifyFreeLanguage(name) ==
  CASE HasAny(name, {"from_raw", "drop", "__rust_dealloc"}) -> "rust"
    [] HasAny(name, {"Allocator.free", "heap_free"})        -> "zig"
    [] HasAny(name, {"delete"})                             -> "cpp"
    [] HasAny(name, {"PyMem_", "PyObject_", "Py_DECREF", "Py_XDECREF"}) -> "python"
    [] HasAny(name, {"JNI_", "Release", "Delete"})          -> "java"
    [] OTHER                                                  -> "c"

identifyCalleeLanguage(name) ==
  CASE HasAny(name, {"_rust_", "rs2py_", "rust_", "into_raw", "from_raw",
                       "drop_in_place", "__rust_alloc", "__rust_dealloc",
                       "__rust_realloc", "__rdl_alloc", "__rdl_dealloc",
                       "__rg_alloc", "__rg_dealloc", "exchange_malloc"}) -> "rust"
    [] HasAny(name, {"zig_", "__zig", "Allocator.", "allocImpl"})      -> "zig"
    [] HasAny(name, {"_cgo_", "_Cfunc_", "_Cgo_"})                     -> "go"
    [] OTHER                                                             -> "c"

\* The symbol of a function of the program, or of one it only declares.
classifySymbol(name, defined) ==
  CASE StartsWith(name, "llvm.") -> [abi |-> "builtin", lang |-> "unknown"]
    [] StartsWith(name, "_R")    -> [abi |-> "rust_v0", lang |-> "rust"]
    [] StartsWith(name, "_Z")    -> [abi |-> "cxx_itanium", lang |-> "cpp"]
    [] OTHER -> [abi |-> "c_abi",
                 lang |-> IF defined THEN "c" ELSE identifyCalleeLanguage(name)]

\* The names of Zig's library are those of its files and types.
isZigStdlibFunction(name) ==
  HasAny(name,
    {"debug.", "heap.", "mem.", "fmt.", "io.", "posix.", "hash_map.", "array_list.",
     "sort.", "bitmap.", "crypto.", "log.", "time.", "fs.", "net.", "process.",
     "async.", "event_loop.", "unicode", "math.", "random", "compress", "hmac",
     "aead", "aes", "loop.", ".dwarf", ".buffer", ".queue", ".stack", ".allocator",
     ".arena", ".gpa"})

isConfirmedShim(name) ==
  HasAny(name,
    {"__rust_alloc", "__rust_dealloc", "__rust_realloc", "fallback::", "Z5alloc",
     "Z7realloc", "Z5free", "mi_malloc", "mi_realloc", "mi_free", "mi_calloc",
     "mi_heap_malloc", "mi_heap_realloc", "mi_heap_free", "mi_heap_calloc",
     "mi_stl_alloc", "mi_stl_delloc", "mi_expand_heap", "mi_zone_init", "mi_collect",
     "mi_stats_merge", "mi_register", "je_mallocx", "je_rallocx", "je_dallocx",
     "je_sdallocx", "je_free", "je_mallctl", "je_nallocx",
     "rpmalloc", "rprealloc", "rpmemfree"})

\* shouldSkipAnalysis of the whitelist of Rust's library.
isRustInternal(name) ==
  HasAny(name,
    {"panic_in_cleanup", "panic_fmt", "panic_bounds_check", "panic_cannot_unwind",
     "panic_async_fmt", "panic_display", "panic_abort", "panic_unwind",
     "panic_impersonate", "panic_count_is_zero_slow_path", "panic_count_add",
     "panic_count_sub", "panic_count_fetch", "begin_panic_handler",
     "update_panic_count", "catch_unwind", "try_clone", "drop_in_place",
     "begin_short_backtrace", "unwind_backtrace", "_Unwind_RaiseException",
     "_Unwind_DeleteException", "_Unwind_FindContext", "thread::panicking",
     "thread::parking", "RawVec::grow_", "Box::new_uninit", "RawTable::fallible",
     "RawTable::find_potential", "rayon_core::join", "rayon_core::registry::worker",
     "ErrorPropagationTracer", "check_errno", "last_os_error", "from_error_code"})

\* The contracts whose resource the caller does not own, but for Java's; a
\* collected object is among them.  No allocation function of the programs is
\* in two contracts, so that their order does not matter.
shouldReportLeak(name) ==
  ~HasAny(name,
    {"TLS_method", "TLS_server_method", "TLS_client_method",
     "PyList_GetItem", "PyDict_GetItem", "PyTuple_GetItem", "PySequence_GetItem",
     "PyImport_ImportModule", "PyImport_AddModule", "PyObject_GetAttr",
     "PyBytes_AsString", "JSObject", "JSString", "JSContextRef", "JSValueRef",
     "JSPropertyNameArrayRef", "JSValueMakeString", "JSValueProtect", "JSValueRetain"})

isIntentionalOwnershipTransfer(alloc) ==
  \/ HasAny(alloc.alloc_callee, {"leak", "into_raw", "ManuallyDrop", "forget"})
  \/ HasAny(alloc.alloc_func,
       {"leak", "donate", "transfer_ownership", "export_ptr", "handoff", "into_raw",
        "forget", "ffi_export", "c_export"})

-----------------------------------------------------------------------------
(* The module of a program: for each function its name and its calls.      *)

Module(p) ==
  [i \in 1..Len(p.functions) |->
     [name |-> p.functions[i].name, calls |-> Calls(p.functions[i].body)]]

Functions == {module[i] : i \in 1..Len(module)}
CalledBy(f) == {f.calls[j].fn : j \in 1..Len(f.calls)}

Symbol ==
  LET defined == {f.name : f \in Functions}
  IN  [n \in defined \cup UNION {CalledBy(f) : f \in Functions} |->
         classifySymbol(n, n \in defined)]

\* The functions called from another language or through another ABI, with
\* their language.
EdgeMap(symbol) ==
  [n \in {c \in DOMAIN symbol :
            \E f \in Functions : c \in CalledBy(f) /\ symbol[c] # symbol[f.name]} |->
     symbol[n].lang]

\* The values: the result of the j-th call of the i-th function and its
\* n-th operand, a function.
Result(i, j) == <<"temp", ToString(<<i, j, 0>>)>>
FunctionValue(f) == <<"function", f>>
Operand(i, j, n, a) ==
  CASE a[1] = "i64"     -> a
    [] a[1] = "address" -> <<"address", ToString(<<i, a[2]>>)>>
    [] OTHER            -> <<"temp", ToString(<<i, j, n>>)>>
Operands(i, j, call) ==
  Append([n \in 1..Len(call.args) |-> Operand(i, j, n, call.args[n])],
         FunctionValue(call.fn))

NoKeys == [k \in {} |-> 0]

DataflowInit ==
  /\ program \in Programs
  /\ module = Module(program)
  /\ edge_map = EdgeMap(Symbol)
  /\ position = <<1, 0>>
  /\ allocations = <<>> /\ checked = 0
  /\ allocByPtr = NoKeys /\ freedAllocByPtr = NoKeys /\ allocBySym = NoKeys
  /\ storeMap = NoKeys
  /\ stage = "calls"
  /\ issues = {}

\* A module without a call between languages is not analysed.
SkipModule ==
  /\ stage = "calls" /\ edge_map = [n \in {} |-> ""]
  /\ stage' = "done"
  /\ UNCHANGED << moduleVars, position, allocations, allocByPtr, freedAllocByPtr,
                  allocBySym, storeMap, checked, issues >>

NewAlloc(ptr, func, callee) ==
  [ptr_val |-> ptr, alloc_func |-> func, alloc_callee |-> callee, freed |-> FALSE,
   free_langs |-> <<>>, passed_to_other_lang |-> FALSE]

\* 1. An allocation is found by its value, or by the function it is made in,
\* which remembers its last one.
Tracked(state, i, j, func, callee) ==
  LET ptr == Result(i, j)
      idx == Len(state.allocs) + 1
  IN  [state EXCEPT !.allocs = Append(@, NewAlloc(ptr, func, callee)),
                    !.byPtr  = (ptr :> idx) @@ @,
                    !.bySym  = (func :> idx) @@ @]

\* 2. The allocation that a release ends: operand 1, counted from 0, is the
\* function itself when there is one argument only.
ReleasedKey(state, ops) ==
  IF ops[2] \in DOMAIN state.store THEN state.store[ops[2]] ELSE ops[2]
\* Mutant: a release that is not matched by its value ends the last
\* allocation, whatever function made it.
MutReleasedAlloc(state, key, func) ==
  IF key \in DOMAIN state.byPtr THEN {state.byPtr[key]}
  ELSE {Len(state.allocs)} \ {0}
ReleasedAlloc(state, key, func) ==
  IF key \in DOMAIN state.byPtr THEN {state.byPtr[key]}
  ELSE IF func \in DOMAIN state.bySym THEN {state.bySym[func]} ELSE {}
MarkFreed(state, idx, key, callee) ==
  IF state.allocs[idx].freed THEN state
  ELSE [state EXCEPT !.allocs[idx].freed = TRUE,
                     !.allocs[idx].free_langs = Append(@, classifyFreeLanguage(callee)),
                     !.freedByPtr = (key :> idx) @@ @]
Freed(state, ops, func, callee) ==
  LET key == ReleasedKey(state, ops)
      idx == ReleasedAlloc(state, key, func)
  IN  IF Len(ops) < 2 \/ idx = {} THEN state
      ELSE MarkFreed(state, CHOOSE x \in idx : TRUE, key, callee)

\* 3. The first operand that is an allocation is passed to the other language.
Passed(state, ops, callee) ==
  LET known == {n \in 1..Len(ops) : ops[n] \in DOMAIN state.byPtr} IN
  IF callee \notin DOMAIN edge_map \/ known = {} THEN state
  ELSE LET n == CHOOSE n \in known : \A m \in known : n <= m
       IN  [state EXCEPT !.allocs[state.byPtr[ops[n]]].passed_to_other_lang = TRUE]

\* 4. A call that has an operand released in another language than its own.
UseLanguage(callee) ==
  IF callee \in DOMAIN edge_map THEN edge_map[callee] ELSE "c"

UsesAfterFree(state, ops, func, callee) ==
  {[kind |-> "use_after_free", func |-> func, idx |-> state.freedByPtr[ops[n]]] :
     n \in {m \in 1..Len(ops) :
              /\ ops[m] \in DOMAIN state.freedByPtr
              /\ UseLanguage(callee) # "unknown"
              /\ LET langs == state.allocs[state.freedByPtr[ops[m]]].free_langs
                 IN  \E l \in 1..Len(langs) : langs[l] # UseLanguage(callee)}}

\* The store of the result, which follows the call: it is remembered only
\* when the value is an allocation.
Stored(state, i, j, call) ==
  IF call.to = "" \/ Result(i, j) \notin DOMAIN state.byPtr THEN state
  ELSE [state EXCEPT !.store = (<<"address", ToString(<<i, call.to>>)>> :> Result(i, j)) @@ @]

State == [allocs |-> allocations, byPtr |-> allocByPtr, freedByPtr |-> freedAllocByPtr,
          bySym |-> allocBySym, store |-> storeMap]

\* A call goes through the four steps, then its result is stored.  Each step
\* binds the state it leaves to the next.  The stores seen are those of one
\* function.
ScanCall ==
  LET i == position[1]
      f == module[i]
      j == position[2] + 1
      call == f.calls[j]
  IN  /\ stage = "calls" /\ edge_map # [n \in {} |-> ""]
      /\ i <= Len(module) /\ j <= Len(f.calls)
      /\ position' = <<i, j>>
      /\ \E ops \in {Operands(i, j, call)} :
         \E s1 \in {IF isAllocationFunction(call.fn)
                      THEN Tracked(State, i, j, f.name, call.fn) ELSE State} :
         \E s2 \in {IF isFreeFunction(call.fn) THEN Freed(s1, ops, f.name, call.fn) ELSE s1} :
         \E s3 \in {Passed(s2, ops, call.fn)} :
         \E s4 \in {Stored(s3, i, j, call)} :
           /\ issues' = issues \cup UsesAfterFree(s3, ops, f.name, call.fn)
           /\ allocations' = s4.allocs
           /\ allocByPtr' = s4.byPtr
           /\ freedAllocByPtr' = s4.freedByPtr
           /\ allocBySym' = s4.bySym
           /\ storeMap' = s4.store
      /\ UNCHANGED << moduleVars, checked, stage >>

NextFunction ==
  LET i == position[1] IN
  /\ stage = "calls" /\ edge_map # [n \in {} |-> ""]
  /\ position[2] = Len(module[i].calls)
  /\ IF i < Len(module)
     THEN /\ position' = <<i + 1, 0>> /\ storeMap' = NoKeys
          /\ UNCHANGED stage
     ELSE /\ stage' = "orphans"
          /\ UNCHANGED << position, storeMap >>
  /\ UNCHANGED << moduleVars, allocations, allocByPtr, freedAllocByPtr, allocBySym,
                  checked, issues >>

\* 5. An allocation that is neither released nor passed on is an orphan,
\* unless it is made by the library of a language, a contract says that it is
\* not its caller's, or its transfer is meant.
IsOrphan(alloc) ==
  /\ ~alloc.freed
  /\ ~alloc.passed_to_other_lang
  /\ ~isZigStdlibFunction(alloc.alloc_func)
  /\ ~isZigStdlibFunction(alloc.alloc_callee)
  /\ ~isConfirmedShim(alloc.alloc_callee)
  /\ ~isRustInternal(alloc.alloc_func)
  /\ shouldReportLeak(alloc.alloc_callee)
  /\ ~isIntentionalOwnershipTransfer(alloc)

CheckOrphan ==
  LET alloc == allocations[checked + 1] IN
  /\ stage = "orphans" /\ checked < Len(allocations)
  /\ checked' = checked + 1
  /\ issues' = IF IsOrphan(alloc)
               THEN issues \cup {[kind |-> "cross_language_leak", func |-> alloc.alloc_func,
                                  idx |-> checked + 1]}
               ELSE issues
  /\ UNCHANGED << moduleVars, position, allocations, allocByPtr, freedAllocByPtr,
                  allocBySym, storeMap, stage >>

\* An allocation released in two languages.
DetectDoubleFreePaths ==
  /\ stage = "orphans" /\ checked = Len(allocations)
  /\ stage' = "done"
  /\ issues' = issues \cup
       {[kind |-> "double_free", func |-> allocations[k].alloc_func, idx |-> k] :
          k \in {n \in 1..Len(allocations) :
                   /\ allocations[n].freed
                   /\ LET langs == allocations[n].free_langs
                      IN  \E l \in 2..Len(langs) : langs[l] # langs[1]}}
  /\ UNCHANGED << moduleVars, position, allocations, allocByPtr, freedAllocByPtr,
                  allocBySym, storeMap, checked >>

Analyse == SkipModule \/ ScanCall \/ NextFunction \/ CheckOrphan \/ DetectDoubleFreePaths
=============================================================================
