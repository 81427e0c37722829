----------------------------- MODULE PassManager ------------------------------
(***************************************************************************)
(* The pass manager (src/pass/manager.zig): it registers analysis passes,  *)
(* orders them by their dependencies with Kahn's algorithm over indices,   *)
(* caches the order, and runs the passes in it, going on when one fails.   *)
(*                                                                         *)
(* One step of the model is one iteration of a loop of the code: seeding   *)
(* the queue, taking a node from it, and relaxing one edge.  The adjacency *)
(* lists are not kept as state: the list of a node is the set of its edges *)
(* in the order in which the code appends them.  ctx.early_exit, which no  *)
(* pass ever sets, is left out, as are statistics and timing, and so is    *)
(* the insertion into pass_map that fails after the pass was appended: it  *)
(* leaves the manager inconsistent, but every caller then gives it up.     *)
(***************************************************************************)
EXTENDS Integers, Sequences, FiniteSets

CONSTANTS
  Names,      \* names of passes
  DepLists,   \* the dependency lists a pass may declare
  MaxPasses   \* bound on the number of registered passes

ASSUME DepListsAssumption == DepLists \subseteq Seq(Names)
ASSUME MaxPassesAssumption == MaxPasses \in Nat

VARIABLES
  passes,           \* the registered passes, in order of registration
  pass_map,         \* registered name -> index in passes
  resolved,         \* resolved_order is not null
  resolved_order,   \* its value, when it is not null
  named,            \* execution_names is not null
  pc,               \* "idle", or the loop a call is in: "seed", "kahn", "running"
  caller,           \* the call in progress: "order" (resolveDependencies) or "run"
  scan,             \* the index the seeding loop looks at next
  in_degree,        \* index -> edges into it not yet relaxed
  queue,            \* passes that wait for nothing any more
  todo,             \* the edges of the current node still to be relaxed
  result,           \* the order found so far
  outcome,          \* what the last call returned
  ran               \* the passes run by the current or last run, and how they ended

registry == <<passes, pass_map>>
cache == <<resolved, resolved_order, named>>
kahn == <<scan, in_degree, queue, todo, result>>
vars == <<registry, cache, pc, caller, kahn, outcome, ran>>

Indices == 1..Len(passes)

\* The k-th dependency of pass i as an edge <<i, k>>, and the pass it leads from.
EdgesInto(i) == {<<i, k>> : k \in DOMAIN passes[i].deps}
Edges == UNION {EdgesInto(i) : i \in Indices}
Dep(e) == passes[e[1]].deps[e[2]]
Provider(e) == pass_map[Dep(e)]

\* adjacency.items[node]
EdgesFrom(node) == {e \in Edges : Provider(e) = node}

\* Edges are appended pass by pass, and dependency by dependency.
Earlier(e, f) == e[1] < f[1] \/ (e[1] = f[1] /\ e[2] <= f[2])
FirstEdges(S) == {e \in S : \A f \in S : Earlier(e, f)}

\* Mutant of SwapRemoveFirst: the elements keep their place, so the last is lost.
MutSwapRemoveFirst(q) == [j \in 1..(Len(q) - 1) |-> q[j]]

\* The last element takes the place of the first one.
SwapRemoveFirst(q) ==
  [j \in 1..(Len(q) - 1) |-> IF j = 1 THEN q[Len(q)] ELSE q[j]]

-----------------------------------------------------------------------------
Init ==
  /\ passes = <<>> /\ pass_map = [name \in {} |-> 0]
  /\ resolved = FALSE /\ resolved_order = <<>> /\ named = FALSE
  /\ pc = "idle" /\ caller = "order"
  /\ scan = 1 /\ in_degree = <<>> /\ queue = <<>> /\ todo = {} /\ result = <<>>
  /\ outcome = "none" /\ ran = <<>>

\* Mutant of RegisterPass: the cached order survives.
MutRegisterPass(name, deps) ==
  /\ pc = "idle" /\ Len(passes) < MaxPasses
  /\ passes' = Append(passes, [name |-> name, deps |-> deps])
  /\ pass_map' = [n \in DOMAIN pass_map \cup {name} |->
                    IF n = name THEN Len(passes) + 1 ELSE pass_map[n]]
  /\ UNCHANGED <<cache, pc, caller, kahn, outcome, ran>>

RegisterPass(name, deps) ==
  /\ pc = "idle" /\ Len(passes) < MaxPasses
  /\ passes' = Append(passes, [name |-> name, deps |-> deps])
  /\ pass_map' = [n \in DOMAIN pass_map \cup {name} |->
                    IF n = name THEN Len(passes) + 1 ELSE pass_map[n]]
  /\ resolved' = FALSE /\ named' = FALSE
  /\ UNCHANGED <<resolved_order, pc, caller, kahn, outcome, ran>>

\* Building the graph: a dependency without a provider ends the call.
BuildGraph ==
  \/ /\ \E e \in Edges : Dep(e) \notin DOMAIN pass_map
     /\ outcome' = "missing"
     /\ UNCHANGED <<pc, kahn>>
  \/ /\ \A e \in Edges : Dep(e) \in DOMAIN pass_map
     /\ pc' = "seed" /\ scan' = 1
     /\ in_degree' = [i \in Indices |-> Len(passes[i].deps)]
     /\ queue' = <<>> /\ todo' = {} /\ result' = <<>>
     /\ UNCHANGED outcome

ResolveDependencies ==
  /\ pc = "idle" /\ caller' = "order"
  /\ BuildGraph
  /\ UNCHANGED <<registry, cache, ran>>

\* run: an order that is already there is used as it is.
Run ==
  /\ pc = "idle" /\ caller' = "run"
  /\ \/ ~resolved /\ BuildGraph /\ UNCHANGED ran
     \/ resolved /\ pc' = "running" /\ ran' = <<>> /\ UNCHANGED <<kahn, outcome>>
  /\ UNCHANGED <<registry, cache>>

\* Mutant of Seed: the index moves only past a pass that waits for nothing.
MutSeed ==
  /\ pc = "seed" /\ scan \in Indices
  /\ scan' = IF in_degree[scan] = 0 THEN scan + 1 ELSE scan
  /\ queue' = IF in_degree[scan] = 0 THEN Append(queue, scan) ELSE queue
  /\ UNCHANGED <<registry, cache, pc, caller, in_degree, todo, result, outcome, ran>>

Seed ==
  /\ pc = "seed" /\ scan \in Indices
  /\ scan' = scan + 1
  /\ queue' = IF in_degree[scan] = 0 THEN Append(queue, scan) ELSE queue
  /\ UNCHANGED <<registry, cache, pc, caller, in_degree, todo, result, outcome, ran>>

Seeded ==
  /\ pc = "seed" /\ scan \notin Indices
  /\ pc' = "kahn"
  /\ UNCHANGED <<registry, cache, caller, kahn, outcome, ran>>

Dequeue ==
  /\ pc = "kahn" /\ todo = {} /\ queue # <<>>
  /\ queue' = SwapRemoveFirst(queue)
  /\ result' = Append(result, queue[1])
  /\ todo' = EdgesFrom(queue[1])
  /\ UNCHANGED <<registry, cache, pc, caller, scan, in_degree, outcome, ran>>

\* Mutants of Relax: the neighbour is queued one edge early; every time.
MutRelaxEarly ==
  /\ pc = "kahn"
  /\ \E e \in FirstEdges(todo) :
       /\ todo' = todo \ {e}
       /\ in_degree' = [in_degree EXCEPT ![e[1]] = @ - 1]
       /\ queue' = IF in_degree[e[1]] = 2 THEN Append(queue, e[1]) ELSE queue
  /\ UNCHANGED <<registry, cache, pc, caller, scan, result, outcome, ran>>
MutRelaxAlways ==
  /\ pc = "kahn"
  /\ \E e \in FirstEdges(todo) :
       /\ todo' = todo \ {e}
       /\ in_degree' = [in_degree EXCEPT ![e[1]] = @ - 1]
       /\ queue' = Append(queue, e[1])
  /\ UNCHANGED <<registry, cache, pc, caller, scan, result, outcome, ran>>

Relax ==
  /\ pc = "kahn"
  /\ \E e \in FirstEdges(todo) :
       /\ todo' = todo \ {e}
       /\ in_degree' = [in_degree EXCEPT ![e[1]] = @ - 1]
       /\ queue' = IF in_degree[e[1]] = 1 THEN Append(queue, e[1]) ELSE queue
  /\ UNCHANGED <<registry, cache, pc, caller, scan, result, outcome, ran>>

Sorted == pc = "kahn" /\ todo = {} /\ queue = <<>>

\* Fewer nodes in the result than passes: the rest is on a cycle.
CycleDetected ==
  /\ Sorted /\ Len(result) # Len(passes)
  /\ pc' = "idle" /\ outcome' = "cycle"
  /\ UNCHANGED <<registry, cache, caller, kahn, ran>>

\* Mutant of StoreOrder: a partial result is stored as an order.
MutStoreOrder ==
  /\ Sorted
  /\ resolved' = TRUE /\ resolved_order' = result /\ named' = TRUE
  /\ \/ caller = "run" /\ pc' = "running" /\ ran' = <<>> /\ UNCHANGED outcome
     \/ caller = "order" /\ pc' = "idle" /\ outcome' = "ok" /\ UNCHANGED ran
  /\ UNCHANGED <<registry, caller, kahn>>

StoreOrder ==
  /\ Sorted /\ Len(result) = Len(passes)
  /\ resolved' = TRUE /\ resolved_order' = result /\ named' = TRUE
  /\ \/ caller = "run" /\ pc' = "running" /\ ran' = <<>> /\ UNCHANGED outcome
     \/ caller = "order" /\ pc' = "idle" /\ outcome' = "ok" /\ UNCHANGED ran
  /\ UNCHANGED <<registry, caller, kahn>>

\* An allocation fails while the graph is sorted, or when the order has been
\* stored and its names are collected: then the order stays without names.
OutOfMemory ==
  /\ pc \in {"seed", "kahn"}
  /\ pc' = "idle" /\ outcome' = "out of memory"
  /\ \/ UNCHANGED cache
     \/ /\ Sorted /\ Len(result) = Len(passes)
        /\ resolved' = TRUE /\ resolved_order' = result /\ UNCHANGED named
  /\ UNCHANGED <<registry, caller, kahn, ran>>

-----------------------------------------------------------------------------
\* A pass that fails is counted and the next one runs.
RunPass(ok) ==
  /\ pc = "running" /\ Len(ran) < Len(resolved_order)
  /\ ran' = Append(ran, [pass |-> resolved_order[Len(ran) + 1], ok |-> ok])
  /\ UNCHANGED <<registry, cache, pc, caller, kahn, outcome>>

\* Mutant of EndRun: the first pass that fails ends the run.
MutEndRun ==
  /\ pc = "running"
  /\ Len(ran) = Len(resolved_order) \/ (ran # <<>> /\ ~ran[Len(ran)].ok)
  /\ pc' = "idle" /\ outcome' = "ran"
  /\ UNCHANGED <<registry, cache, caller, kahn, ran>>

EndRun ==
  /\ pc = "running" /\ Len(ran) = Len(resolved_order)
  /\ pc' = "idle" /\ outcome' = "ran"
  /\ UNCHANGED <<registry, cache, caller, kahn, ran>>

\* The steps of a call that has begun, but for the failures of the allocator.
Step ==
  \/ Seed \/ Seeded \/ Dequeue \/ Relax
  \/ CycleDetected \/ StoreOrder
  \/ \E ok \in BOOLEAN : RunPass(ok)
  \/ EndRun

Next ==
  \/ \E name \in Names, deps \in DepLists : RegisterPass(name, deps)
  \/ ResolveDependencies \/ Run
  \/ Step \/ OutOfMemory

Spec == Init /\ [][Next]_vars

\* The manager runs on one thread and its loops do not wait for anything: a call
\* that has begun goes on.
FairSpec == Spec /\ WF_vars(Step)

-----------------------------------------------------------------------------
\* The map leads from the names of the registered passes to indices of passes.
RegistryOK ==
  /\ passes \in Seq([name : Names, deps : DepLists])
  /\ Len(passes) <= MaxPasses
  /\ pass_map \in [{passes[i].name : i \in Indices} -> Indices]

KahnOK ==
  /\ scan \in Nat \ {0}
  /\ in_degree \in Seq(Nat)
  /\ queue \in Seq(Nat \ {0}) /\ result \in Seq(Nat \ {0})
  /\ todo \in SUBSET ((Nat \ {0}) \X (Nat \ {0}))

CallOK ==
  /\ resolved \in BOOLEAN /\ named \in BOOLEAN
  /\ resolved_order \in Seq(Nat \ {0})
  /\ pc \in {"idle", "seed", "kahn", "running"}
  /\ caller \in {"order", "run"}
  /\ outcome \in {"none", "ok", "ran", "missing", "cycle", "out of memory"}
  /\ ran \in Seq([pass : Nat \ {0}, ok : BOOLEAN])

\* Every variable has its type; a count of edges never drops below zero, though
\* it is a machine word that would wrap (manager.zig:164).
TypeOK == RegistryOK /\ KahnOK /\ CallOK

\* An order of all passes in which the providers of a pass come before it.
Complete(o) ==
  /\ Len(o) = Len(passes)
  /\ \A i \in Indices : \E p \in 1..Len(o) : o[p] = i
Ordered(o) ==
  \A q \in 1..Len(o) : o[q] \in Indices /\
    \A e \in EdgesInto(o[q]) : Dep(e) \in DOMAIN pass_map
                                 /\ \E p \in 1..(q - 1) : o[p] = Provider(e)

\* The cached order is one for the passes registered now: every pass is in it,
\* behind what it depends on, and no names are handed out for another order
\* (manager.zig:177-189, invalidated at :86).
OrderIsSchedule ==
  /\ resolved => Complete(resolved_order) /\ Ordered(resolved_order)
  /\ named => resolved

\* While passes run, whatever a pass depends on has run before it.
DependenciesRanFirst ==
  pc = "running" => Ordered([j \in 1..Len(ran) |-> ran[j].pass])

\* A run that ends has run every registered pass once, whichever of them failed.
EveryPassRuns ==
  [][EndRun => Complete([j \in 1..Len(ran) |-> ran[j].pass])]_vars

\* A cycle is reported only for passes that wait for each other.
CycleIsReal ==
  [][CycleDetected =>
       \E S \in SUBSET Indices :
         S # {} /\ \A i \in S : \E e \in EdgesInto(i) : Provider(e) \in S]_vars

\* Every call returns: sorting and running end.
CallsReturn == pc # "idle" ~> pc = "idle"

\* The manager keeps the promise of PassSchedule.
Schedule == INSTANCE PassSchedule WITH
  order  <- resolved_order,
  known  <- resolved,
  phase  <- IF pc \in {"seed", "kahn"} THEN "resolving" ELSE pc,
  wanted <- caller
ImplementsSchedule == Schedule!Spec
=============================================================================
