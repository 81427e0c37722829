--------------------------- MODULE FunctionWorkers ---------------------------
(***************************************************************************)
(* One run of a pass that hands the module's functions to the work-stealing *)
(* pool: pointer_ownership, callback_escape, ptr_lifetime or ffi_boundary. *)
(* The pool is the bag of tasks ParallelExecutor implements; here a thread *)
(* takes any item left.  Each thread filters a function without a lock and *)
(* analyses it under the pass's mutex.  The state of the Rust ownership    *)
(* hook (src/registry/hooks.zig) is threadlocal: every thread has its own, *)
(* and only the thread that ran initHookStates has an initialised one.     *)
(***************************************************************************)
EXTENDS Naturals, FiniteSets, Sequences, FiniteSetsExt, SequencesExt

CONSTANTS Passes,        \* the passes considered
          WorkerCount,   \* threads of the pool
          MinPerWorker,  \* the pool's sequential threshold per worker
          MaxFunctions,  \* bound: the longest function_list considered
          SlotLimit,     \* CB_MAX_WORKERS, PTR_LIFETIME_MAX_WORKERS (16)
          FunctionKinds  \* the functions each pass may meet; see IsFunction

AllPasses == {"pointer_ownership", "callback_escape", "ptr_lifetime", "ffi_boundary"}
Values == {"null", "box", "raw"}

\* A function as the workers see it: which filters it falls into, whether its
\* analysis fails, and its calls of into_raw and from_raw, in order, with
\* whether there is memory to store the value of an into_raw.
IsFunction(f) ==
  /\ f.noise \in BOOLEAN       \* classified as compiler or library code
  /\ f.relevant \in BOOLEAN    \* ctx.isRelevantFunction
  /\ f.third \in BOOLEAN       \* classified as third-party code
  /\ f.known \in BOOLEAN       \* a known false positive of the whitelist
  /\ f.ffi \in BOOLEAN         \* isRustFFIRelevantFunction, ffi_names
  /\ f.release \in BOOLEAN     \* isSemanticallyRelease
  /\ f.zone \in {"safe", "ffi", "other"}
  /\ f.fails \in BOOLEAN
  /\ f.calls \in Seq([op : {"into_raw", "from_raw"}, arg : Values, res : Values,
                      stored : BOOLEAN])

ASSUME PassesAssumption == Passes \subseteq AllPasses
ASSUME BoundsAssumption ==
  /\ WorkerCount \in Nat \ {0} /\ MinPerWorker \in Nat \ {0}
  /\ MaxFunctions \in Nat /\ SlotLimit \in Nat
ASSUME KindsAssumption ==
  \A p \in Passes : \A f \in FunctionKinds[p] : IsFunction(f)

Main    == 0
Workers == 1 .. WorkerCount
Threads == {Main} \cup Workers
Nobody  == WorkerCount + 1     \* the mutex is free
Counters  == {"analyzed", "skipped", "errored"}

VARIABLES
  pass,        \* the pass that runs
  mpc,         \* the pass: "start", "running", or how run() of the pass ended
  functions,   \* ir_store.function_list
  todo,        \* the items nobody has taken
  pc,          \* where each thread is in the pass's worker function
  cur,         \* item.fir_idx of the function a thread works on
  mutex,       \* analysis_mutex: the thread that holds it
  hookReady,   \* rust_state_initialized of each thread
  transferred, \* rust_transfer_map of each thread
  results,     \* the WorkerResults of each thread, added up
  degraded,    \* recordDegradedFunction calls
  zones,       \* zone_stats: functions recorded
  slots,       \* how many fn_stats stats_arr holds
  reported     \* functions whose unpaired transfer was reported

poolVars == <<pass, mpc, functions, todo>>
hookVars == <<hookReady, transferred>>
countVars == <<results, degraded, zones, slots, reported>>
vars == <<pass, mpc, functions, todo, pc, cur, mutex, hookReady, transferred,
          results, degraded, zones, slots, reported>>

-----------------------------------------------------------------------------
(* The hook: one call changes the map of the calling thread.               *)

\* Mutant: from_raw clears the whole map.
MutRustOwnershipHook(map, call) ==
  IF call.arg = "null" THEN map
  ELSE IF call.op = "from_raw" THEN {}
  ELSE IF call.stored THEN map \cup {call.arg} ELSE map

\* DispatchHooks ignores that a value could not be stored.
RustOwnershipHook(map, call) ==
  CASE call.arg = "null" -> map
    [] call.arg # "null" /\ call.op = "into_raw" ->
         IF call.stored THEN map \cup {call.arg} ELSE map
    [] call.arg # "null" /\ call.op = "from_raw" -> map \ {call.arg}

\* Only the ownership pass calls the hook, for every call instruction.
DispatchHooks(th, f) ==
  transferred' = IF hookReady[th] /\ pass = "pointer_ownership"
                 THEN [transferred EXCEPT ![th] = FoldLeft(RustOwnershipHook, @, f.calls)]
                 ELSE transferred

\* resetHookStatesForFunction
ResetHooks(th) ==
  transferred' = IF hookReady[th] THEN [transferred EXCEPT ![th] = {}] ELSE transferred

-----------------------------------------------------------------------------
Init ==
  /\ pass \in Passes /\ mpc = "start"
  /\ functions \in UNION {[1 .. len -> FunctionKinds[pass]] : len \in 0 .. MaxFunctions}
  /\ todo = {} /\ mutex = Nobody
  /\ pc = [th \in Threads |-> "idle"] /\ cur = [th \in Threads |-> 0]
  /\ hookReady = [th \in Threads |-> FALSE]
  /\ transferred = [th \in Threads |-> {}]
  /\ results = [th \in Threads |-> [o \in Counters |-> 0]]
  /\ degraded = 0 /\ zones = 0 /\ slots = 0 /\ reported = {}

Sequential == Len(functions) < WorkerCount * MinPerWorker
Pool == IF Sequential THEN {Main} ELSE Workers

\* The pass initialises the hook state of its own thread, makes a work item of
\* each function and starts the pool, which may be out of memory or threads.
Start ==
  /\ mpc = "start"
  /\ \/ functions = <<>> /\ mpc' = "nothing_to_do" /\ UNCHANGED <<todo, hookReady>>
     \/ /\ functions # <<>>
        /\ hookReady' = [hookReady EXCEPT ![Main] = pass # "ffi_boundary"]
        /\ \/ mpc' = "running" /\ todo' = 1 .. Len(functions)
           \/ mpc' = "failed" /\ UNCHANGED todo
  /\ UNCHANGED <<pass, functions, pc, cur, mutex, transferred>> /\ UNCHANGED countVars

\* A thread of the pool gets its next item and enters the worker function.
Take(th) ==
  /\ mpc = "running" /\ th \in Pool /\ pc[th] = "idle"
  /\ \E i \in todo : /\ Sequential => i = Min(todo)
                     /\ todo' = todo \ {i}
                     /\ cur' = [cur EXCEPT ![th] = i]
  /\ pc' = [pc EXCEPT ![th] = "filter"]
  /\ UNCHANGED <<pass, mpc, functions, mutex>> /\ UNCHANGED hookVars /\ UNCHANGED countVars

Goto(th, label) == pc' = [pc EXCEPT ![th] = label]
Count(th, o) == results' = [results EXCEPT ![th][o] = @ + 1]

\* The worker function returns a result with one function skipped.
Skip(th) == Goto(th, "idle") /\ Count(th, "skipped")

\* The filters before the lock.
OwnershipFilters(f) == f.noise
CallbackFilters(f)  == f.noise \/ ~ f.relevant
LifetimeFilters(f)  == \/ f.noise /\ ~ f.ffi      \* FFI functions are never noise
                       \/ f.third /\ ~ f.relevant
                       \/ f.known
BoundaryFilters(f)  == ~ f.relevant /\ ~ f.ffi     \* nor are JNI_, Java_ and Py_ ones
Filtered(f) ==
  CASE pass = "pointer_ownership" -> OwnershipFilters(f)
    [] pass = "callback_escape"   -> CallbackFilters(f)
    [] pass = "ptr_lifetime"      -> LifetimeFilters(f)
    [] pass = "ffi_boundary"      -> BoundaryFilters(f)
AfterFilter ==
  CASE pass = "pointer_ownership" -> "cache"
    [] pass = "callback_escape"   -> "reset"
    [] pass = "ptr_lifetime"      -> "call_graph"
    [] pass = "ffi_boundary"      -> "lock"

Filter(th) ==
  /\ pc[th] = "filter"
  /\ \/ Filtered(functions[cur[th]]) /\ Skip(th)
     \/ ~ Filtered(functions[cur[th]]) /\ Goto(th, AfterFilter) /\ UNCHANGED results
  /\ UNCHANGED <<cur, mutex, degraded, zones, slots, reported>>
  /\ UNCHANGED poolVars /\ UNCHANGED hookVars

\* pointer_ownership: the ffi_relevant_cache, under the mutex; then the
\* semantic resolution, without it.
FfiRelevance(th) ==
  /\ pc[th] = "cache" /\ mutex = Nobody
  /\ LET f == functions[cur[th]] IN
     \/ (~ f.ffi \/ f.release) /\ Skip(th)
     \/ f.ffi /\ ~ f.release /\ Goto(th, "lock") /\ UNCHANGED results
  /\ UNCHANGED <<cur, mutex, degraded, zones, slots, reported>>
  /\ UNCHANGED poolVars /\ UNCHANGED hookVars

\* ptr_lifetime: the search of the call graph, under the mutex, for a function
\* that is not known to be at the boundary.
SearchCallGraph(th) ==
  /\ pc[th] = "call_graph" /\ (functions[cur[th]].ffi \/ mutex = Nobody)
  /\ Goto(th, "reset")
  /\ UNCHANGED <<cur, mutex>>
  /\ UNCHANGED poolVars /\ UNCHANGED hookVars /\ UNCHANGED countVars

\* callback_escape and ptr_lifetime reset the hook state before they lock.
Reset(th) ==
  /\ pc[th] = "reset"
  /\ ResetHooks(th)
  /\ Goto(th, "lock")
  /\ UNCHANGED <<cur, mutex, hookReady>>
  /\ UNCHANGED poolVars /\ UNCHANGED countVars

Lock(th) ==
  /\ pc[th] = "lock" /\ mutex = Nobody
  /\ mutex' = th
  /\ Goto(th, IF pass = "pointer_ownership" THEN "zone" ELSE "analyze")
  /\ zones' = IF pass \in {"pointer_ownership", "ptr_lifetime"} THEN zones + 1 ELSE zones
  /\ UNCHANGED <<cur, results, degraded, slots, reported>>
  /\ UNCHANGED poolVars /\ UNCHANGED hookVars

Unlock(th) == mutex' = Nobody /\ Goto(th, "idle")

ZoneSkips(f) == f.zone = "safe" \/ (f.zone = "other" /\ ~ f.relevant)

\* Mutant: the hook state is not reset between two functions.
MutZoneGate(th) ==
  /\ pc[th] = "zone"
  /\ \/ /\ ZoneSkips(functions[cur[th]])
        /\ Skip(th) /\ mutex' = Nobody
     \/ /\ ~ ZoneSkips(functions[cur[th]])
        /\ Goto(th, "analyze") /\ UNCHANGED <<results, mutex>>
  /\ UNCHANGED <<cur, degraded, zones, slots, reported>>
  /\ UNCHANGED poolVars /\ UNCHANGED hookVars

\* pointer_ownership: the zone gate, and the reset of the hook state.
ZoneGate(th) ==
  /\ pc[th] = "zone"
  /\ \/ /\ ZoneSkips(functions[cur[th]])
        /\ Skip(th) /\ mutex' = Nobody /\ UNCHANGED transferred
     \/ /\ ~ ZoneSkips(functions[cur[th]])
        /\ Goto(th, "analyze") /\ ResetHooks(th) /\ UNCHANGED <<results, mutex>>
  /\ UNCHANGED <<cur, hookReady, degraded, zones, slots, reported>>
  /\ UNCHANGED poolVars

\* Mutant: a function whose analysis fails is tried again.
MutAnalyzeFailsRetried(th) ==
  /\ pc[th] = "analyze" /\ functions[cur[th]].fails
  /\ DispatchHooks(th, functions[cur[th]])
  /\ todo' = todo \cup {cur[th]}
  /\ Unlock(th)
  /\ UNCHANGED <<pass, mpc, functions, cur, hookReady>> /\ UNCHANGED countVars

\* Mutant: the failed function is counted as degraded only.
MutAnalyzeFailsUncounted(th) ==
  /\ pc[th] = "analyze" /\ functions[cur[th]].fails
  /\ DispatchHooks(th, functions[cur[th]])
  /\ degraded' = degraded + 1
  /\ Unlock(th)
  /\ UNCHANGED <<cur, hookReady, results, zones, slots, reported>> /\ UNCHANGED poolVars

\* The analysis fails: the function counts as degraded, and as errored.
AnalyzeFails(th) ==
  /\ pc[th] = "analyze" /\ functions[cur[th]].fails
  /\ DispatchHooks(th, functions[cur[th]])
  /\ degraded' = degraded + 1
  /\ Count(th, "errored")
  /\ Unlock(th)
  /\ UNCHANGED <<cur, hookReady, zones, slots, reported>> /\ UNCHANGED poolVars

\* Mutant: one more slot than the array has.
MutStoreStatsOverrun ==
  slots' = IF pass \in {"callback_escape", "ptr_lifetime"} /\ slots <= SlotLimit
           THEN slots + 1 ELSE slots

\* The statistics of a function go to the next slot of stats_arr.
StoreStats ==
  slots' = IF pass \in {"callback_escape", "ptr_lifetime"} /\ slots < SlotLimit
           THEN slots + 1 ELSE slots

\* The analysis succeeds: its statistics get a slot if one is left, and the hook
\* says whether an ownership transfer is left unpaired.
Analyze(th) ==
  LET f == functions[cur[th]] IN
  /\ pc[th] = "analyze" /\ ~ f.fails
  /\ DispatchHooks(th, f)
  /\ Count(th, "analyzed")
  /\ StoreStats
  /\ reported' = IF transferred'[th] # {} THEN reported \cup {cur[th]} ELSE reported
  /\ Unlock(th)
  /\ UNCHANGED <<cur, hookReady, degraded, zones>> /\ UNCHANGED poolVars

\* All items are done: the pool returns, the pass merges the slots and its
\* deferred deinitHookStates runs.
Finish ==
  /\ mpc = "running" /\ todo = {} /\ \A th \in Threads : pc[th] = "idle"
  /\ mpc' = "done"
  /\ hookReady' = [hookReady EXCEPT ![Main] = FALSE]
  /\ transferred' = [transferred EXCEPT ![Main] = {}]
  /\ UNCHANGED <<pass, functions, todo, pc, cur, mutex>> /\ UNCHANGED countVars

Ended == mpc \in {"done", "failed", "nothing_to_do"}
Stopped == Ended /\ UNCHANGED vars

Worker(th) == \/ Take(th) \/ Filter(th) \/ FfiRelevance(th) \/ SearchCallGraph(th)
              \/ Reset(th) \/ Lock(th) \/ ZoneGate(th) \/ AnalyzeFails(th) \/ Analyze(th)

Next == Start \/ Finish \/ Stopped \/ \E th \in Threads : Worker(th)

Spec == Init /\ [][Next]_vars

\* The scheduler runs every thread that can run.
Fairness == /\ WF_vars(Start) /\ WF_vars(Finish)
            /\ \A th \in Threads : WF_vars(Worker(th))
FairSpec == Spec /\ Fairness

-----------------------------------------------------------------------------
(* Properties.                                                             *)

Labels == {"idle", "filter", "cache", "call_graph", "reset", "lock", "zone", "analyze"}

(* The values the variables take. *)
TypeOK ==
  /\ pass \in Passes
  /\ mpc \in {"start", "running", "done", "failed", "nothing_to_do"}
  /\ \A i \in DOMAIN functions : functions[i] \in FunctionKinds[pass]
  /\ todo \subseteq DOMAIN functions /\ reported \subseteq DOMAIN functions
  /\ pc \in [Threads -> Labels] /\ cur \in [Threads -> 0 .. MaxFunctions]
  /\ mutex \in Threads \cup {Nobody}
  /\ hookReady \in [Threads -> BOOLEAN]
  /\ transferred \in [Threads -> SUBSET Values]
  /\ results \in [Threads -> [Counters -> Nat]]
  /\ degraded \in Nat /\ zones \in Nat /\ slots \in 0 .. SlotLimit

\* What the pool adds up when it returns.
Total(o) == SumFunction([th \in Threads |-> results[th][o]])

(* What became of each function is on record, whichever of its six paths its *)
(* worker function returned on and whatever thread it ran on.  The degraded  *)
(* functions the user is told of are at every moment those whose analysis    *)
(* failed; when the pass is done each function is analyzed, skipped or       *)
(* errored exactly once, and the statistics that are merged miss a function  *)
(* only where all the slots are full.                                        *)
OutcomesRecorded ==
  /\ degraded = Total("errored")
  /\ mpc = "done" =>
       Total("analyzed") + Total("skipped") + Total("errored") = Len(functions)
  /\ mpc = "done" /\ pass \in {"callback_escape", "ptr_lifetime"} =>
       slots = Min({SlotLimit, Total("analyzed")})

\* The values handed to an into_raw that was stored and not to a later from_raw.
LeftOpen(calls) ==
  {calls[k].arg : k \in {i \in DOMAIN calls :
      /\ calls[i].op = "into_raw" /\ calls[i].arg # "null" /\ calls[i].stored
      /\ \A j \in (i + 1) .. Len(calls) :
            ~ (calls[j].op = "from_raw" /\ calls[j].arg = calls[i].arg)}}

(* The hook state of one function never leaks into the next: a report is     *)
(* about a function that itself leaves a transfer unpaired.                  *)
ReportsOwnTransfers ==
  \A i \in reported : LeftOpen(functions[i].calls) # {}

\* Functions the ownership pass analyses to the end and that leave a transfer open.
LeavesTransferOpen(f) ==
  /\ pass = "pointer_ownership"
  /\ ~ Filtered(f) /\ f.ffi /\ ~ f.release /\ ~ ZoneSkips(f) /\ ~ f.fails
  /\ LeftOpen(f.calls) # {}

UnpairedReported ==
  mpc = "done" =>
    \A i \in DOMAIN functions : LeavesTransferOpen(functions[i]) => i \in reported

(* When the pool falls back to the thread that initialised the hook, that is *)
(* what happens: no transfer of an earlier function or of a failed one hides *)
(* an unpaired transfer of a later one that could be stored.                 *)
UnpairedReportedSequentially == Sequential => UnpairedReported

(* The pass ends: no return path of a worker function keeps the mutex.       *)
PassEnds == <>Ended
=============================================================================
