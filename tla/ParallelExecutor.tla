-------------------------- MODULE ParallelExecutor --------------------------
(***************************************************************************)
(* One run of the work-stealing pool of src/pipeline/parallel.zig, on an   *)
(* executor used once (init; run; deinit), as its four callers use it.     *)
(* The main thread pushes the indices of the work items into one deque per *)
(* worker, spawns the workers and joins them.  A worker pops its own deque *)
(* and steals from a random other one when that is empty.                  *)
(*                                                                         *)
(* The deques are touched without a lock, so every atomic load, store and  *)
(* compare-and-swap of pop, steal and len is a step of its own.  A store   *)
(* to `bottom' in pop is .unordered: the hardware may hold it back in the  *)
(* writing thread's store buffer while the thread goes on to load `top'.   *)
(* BufferDepth is the number of stores that buffer holds; 0 is sequential  *)
(* consistency.                                                            *)
(***************************************************************************)
EXTENDS Integers, Sequences, FiniteSets, Functions

CONSTANTS WorkerCount,      \* executor.worker_count
          MaxItems,         \* bound: the longest work_items slice considered
          InitialCapacity,  \* capacity of a new deque (64 in init)
          MinPerWorker,     \* min_per_worker (4 in run)
          BufferDepth,      \* stores to bottom a thread may have in flight
          Outcomes          \* the counters one call of process_fn may bump

AllOutcomes == {"analyzed", "skipped", "errored"}

ASSUME WorkerCountAssumption == WorkerCount \in Nat \ {0}
ASSUME MaxItemsAssumption == MaxItems \in Nat
ASSUME CapacityAssumption == InitialCapacity \in Nat
ASSUME MinPerWorkerAssumption == MinPerWorker \in Nat \ {0}
ASSUME BufferDepthAssumption == BufferDepth \in Nat
ASSUME OutcomesAssumption == Outcomes \subseteq AllOutcomes /\ Outcomes # {}

Workers == 0 .. (WorkerCount - 1)
Items   == 0 .. (MaxItems - 1)
NoItem  == -1                \* an array slot nobody has written
Result  == [AllOutcomes -> Nat]
Zero    == [o \in AllOutcomes |-> 0]

VARIABLES
  mpc,        \* where the main thread is in run()
  n,          \* work_items.len
  next,       \* the main thread's loop index (item to push, worker to spawn or join)
  array, capacity, bottom, top,   \* one deque per worker, as memory holds it
  buffer,     \* buffer[w]: stores of w to its bottom not yet in memory
  active,     \* executor.active
  pc,         \* where each worker thread is; "unspawned" before Thread.spawn
  b, t,       \* locals of pop, steal and len
  victim,     \* the deque being stolen from, or scanned by allDequesEmpty
  item,       \* item_idx
  local,      \* local_result
  results,    \* executor.results
  calls       \* history: how often process_fn was called on each item

dequeVars == <<array, capacity, bottom, top, buffer>>
localVars == <<b, t, victim, item, local>>
mainVars  == <<mpc, n, next, active>>
vars == <<mpc, n, next, array, capacity, bottom, top, buffer, active,
          pc, b, t, victim, item, local, results, calls>>

-----------------------------------------------------------------------------
(* Helpers.                                                                *)

\* The owner sees its own stores at once, the other threads what is in memory.
ReadBottom(w, v) == IF v = w /\ buffer[v] # <<>>
                    THEN buffer[v][Len(buffer[v])]
                    ELSE bottom[v]

StoreBottom(w, x) ==
  IF BufferDepth = 0
  THEN bottom' = [bottom EXCEPT ![w] = x] /\ UNCHANGED buffer
  ELSE /\ Len(buffer[w]) < BufferDepth
       /\ buffer' = [buffer EXCEPT ![w] = Append(@, x)]
       /\ UNCHANGED bottom

SaturatingDec(x) == IF x = 0 THEN 0 ELSE x - 1

Tally(r, o) == [r EXCEPT ![o] = @ + 1]

Goto(w, label) == pc' = [pc EXCEPT ![w] = label]

-----------------------------------------------------------------------------
Init ==
  /\ mpc = "start" /\ n = 0 /\ next = 0 /\ active = FALSE
  /\ array = [w \in Workers |-> [k \in Items |-> NoItem]]
  /\ capacity = [w \in Workers |-> InitialCapacity]
  /\ bottom = [w \in Workers |-> 0]
  /\ top = [w \in Workers |-> 0]
  /\ buffer = [w \in Workers |-> <<>>]
  /\ pc = [w \in Workers |-> "unspawned"]
  /\ b = [w \in Workers |-> 0]
  /\ t = [w \in Workers |-> 0]
  /\ victim = [w \in Workers |-> 0]
  /\ item = [w \in Workers |-> NoItem]
  /\ local = [w \in Workers |-> Zero]
  /\ results = [w \in Workers |-> Zero]
  /\ calls = [i \in Items |-> 0]

-----------------------------------------------------------------------------
(* The main thread: run().                                                 *)

\* run() is called with `len' work items and takes one of its three ways.
Run(len) ==
  /\ mpc = "start"
  /\ n' = len
  /\ \/ len = 0 /\ mpc' = "no_work_items" /\ UNCHANGED active
     \/ len > 0 /\ len < WorkerCount * MinPerWorker
          /\ mpc' = "sequential" /\ UNCHANGED active
     \/ len > 0 /\ len >= WorkerCount * MinPerWorker
          /\ mpc' = "push" /\ active' = TRUE
  /\ results' = [w \in Workers |-> Zero]
  /\ UNCHANGED <<next, array, capacity, bottom, top, buffer, pc, calls>>
  /\ UNCHANGED localVars

\* runSequential: the main thread calls process_fn itself.
SequentialItem ==
  /\ mpc = "sequential" /\ next < n
  /\ \E o \in Outcomes : results' = [results EXCEPT ![0] = Tally(@, o)]
  /\ calls' = [calls EXCEPT ![next] = @ + 1]
  /\ next' = next + 1
  /\ UNCHANGED <<mpc, n, active, array, capacity, bottom, top, buffer, pc>>
  /\ UNCHANGED localVars

SequentialReturn ==
  /\ mpc = "sequential" /\ next = n
  /\ mpc' = "returned"
  /\ UNCHANGED <<n, next, active, array, capacity, bottom, top, buffer, pc,
                 results, calls>>
  /\ UNCHANGED localVars

\* Phase 1: push(next) into deque next % w.  No worker runs yet, so a push is
\* one step; it grows the array when there are `capacity' items in the deque.
Push ==
  LET w == next % WorkerCount
      size == bottom[w] - top[w]
      grows == size >= capacity[w]
      moved == [k \in Items |-> IF k < size /\ k + top[w] \in Items
                                THEN array[w][k + top[w]] ELSE NoItem]
  IN
  /\ mpc = "push" /\ next < n
  /\ capacity' = IF grows
                 THEN [capacity EXCEPT ![w] = IF 2 * @ > 4 THEN 2 * @ ELSE 4]
                 ELSE capacity
  /\ array' = [array EXCEPT ![w] =
                 [(IF grows THEN moved ELSE @) EXCEPT ![bottom[w]] = next]]
  /\ top' = IF grows THEN [top EXCEPT ![w] = 0] ELSE top
  /\ bottom' = [bottom EXCEPT ![w] = @ + 1]
  /\ next' = next + 1
  /\ UNCHANGED <<mpc, n, active, buffer, pc, results, calls>>
  /\ UNCHANGED localVars

\* The allocation of the larger array fails: run() returns the error at once,
\* with active still set and the items pushed so far still in the deques.
PushOutOfMemory ==
  LET w == next % WorkerCount IN
  /\ mpc = "push" /\ next < n
  /\ bottom[w] - top[w] >= capacity[w]
  /\ mpc' = "out_of_memory"
  /\ UNCHANGED <<n, next, active, pc, results, calls>>
  /\ UNCHANGED dequeVars /\ UNCHANGED localVars

\* Phase 2 starts with the allocation of the thread handles.
AllocThreads ==
  /\ mpc = "push" /\ next = n
  /\ mpc' \in {"spawn", "out_of_memory"}
  /\ next' = 0
  /\ UNCHANGED <<n, active, pc, results, calls>>
  /\ UNCHANGED dequeVars /\ UNCHANGED localVars

\* Thread.spawn, which may fail; the loop then goes on with the next worker.
Spawn ==
  /\ mpc = "spawn" /\ next < WorkerCount
  /\ pc' \in {[pc EXCEPT ![next] = "loop"], pc}
  /\ next' = next + 1
  /\ UNCHANGED <<mpc, n, active, results, calls>>
  /\ UNCHANGED dequeVars /\ UNCHANGED localVars

SpawnDone ==
  /\ mpc = "spawn" /\ next = WorkerCount
  /\ IF \E w \in Workers : pc[w] = "unspawned"
     THEN mpc' = "abort" /\ active' = FALSE
     ELSE mpc' = "join"  /\ UNCHANGED active
  /\ next' = 0
  /\ UNCHANGED <<n, pc, results, calls>>
  /\ UNCHANGED dequeVars /\ UNCHANGED localVars

\* thread.join() on the next handle, in the normal and in the failure path.
Join ==
  /\ mpc \in {"join", "abort"} /\ next < WorkerCount
  /\ pc[next] = "exited"
  /\ next' = next + 1
  /\ UNCHANGED <<mpc, n, active, pc, results, calls>>
  /\ UNCHANGED dequeVars /\ UNCHANGED localVars

\* The failure path joins every handle, the ones that were never written too:
\* undefined behaviour, which either stops the program or falls through.
JoinUndefinedHandle ==
  /\ mpc = "abort" /\ next < WorkerCount
  /\ pc[next] = "unspawned"
  /\ \/ mpc' = "crashed" /\ UNCHANGED next
     \/ next' = next + 1 /\ UNCHANGED mpc
  /\ UNCHANGED <<n, active, pc, results, calls>>
  /\ UNCHANGED dequeVars /\ UNCHANGED localVars

Return ==
  /\ next = WorkerCount
  /\ \/ mpc = "join"  /\ mpc' = "returned"
     \/ mpc = "abort" /\ mpc' = "spawn_failed"
  /\ active' = FALSE
  /\ UNCHANGED <<n, next, pc, results, calls>>
  /\ UNCHANGED dequeVars /\ UNCHANGED localVars

Main ==
  \/ \E len \in 0 .. MaxItems : Run(len)
  \/ SequentialItem \/ SequentialReturn
  \/ Push \/ PushOutOfMemory \/ AllocThreads
  \/ Spawn \/ SpawnDone \/ Join \/ JoinUndefinedHandle \/ Return

-----------------------------------------------------------------------------
(* A worker thread: workerLoop(), and pop(), trySteal() and                *)
(* allDequesEmpty() in line.                                               *)

\* active is set: pop() begins by storing bottom - 1.  Only the owner writes
\* bottom, so its load and its store are one step.
PopBegin(w) ==
  LET below == SaturatingDec(ReadBottom(w, w)) IN
  /\ pc[w] = "loop" /\ active
  /\ StoreBottom(w, below)
  /\ b' = [b EXCEPT ![w] = below]
  /\ Goto(w, "pop_top")
  /\ UNCHANGED <<array, capacity, top, t, victim, item, local, results, calls>>
  /\ UNCHANGED mainVars

LoopStops(w) ==
  /\ pc[w] = "loop" /\ ~active
  /\ Goto(w, "exit")
  /\ UNCHANGED <<results, calls>>
  /\ UNCHANGED mainVars /\ UNCHANGED dequeVars /\ UNCHANGED localVars

\* Mutant: the last item is taken like the others, without the compare-and-swap.
MutPopTakes(w) ==
  /\ pc[w] = "pop_top" /\ top[w] <= b[w]
  /\ item' = [item EXCEPT ![w] = array[w][b[w]]]
  /\ t' = [t EXCEPT ![w] = top[w]]
  /\ Goto(w, "process")
  /\ UNCHANGED <<b, victim, local, results, calls>>
  /\ UNCHANGED mainVars /\ UNCHANGED dequeVars

\* pop() loads top: more than one item is left, and it takes the bottom one.
PopTakes(w) ==
  /\ pc[w] = "pop_top" /\ top[w] < b[w]
  /\ item' = [item EXCEPT ![w] = array[w][b[w]]]
  /\ t' = [t EXCEPT ![w] = top[w]]
  /\ Goto(w, "process")
  /\ UNCHANGED <<b, victim, local, results, calls>>
  /\ UNCHANGED mainVars /\ UNCHANGED dequeVars

\* pop() loads top: the deque is empty.
PopFindsEmpty(w) ==
  /\ pc[w] = "pop_top" /\ top[w] > b[w]
  /\ t' = [t EXCEPT ![w] = top[w]]
  /\ Goto(w, "pop_restore")
  /\ UNCHANGED <<b, victim, item, local, results, calls>>
  /\ UNCHANGED mainVars /\ UNCHANGED dequeVars

\* pop() loads top: one item is left, and stealers compete for it.
PopFindsLast(w) ==
  /\ pc[w] = "pop_top" /\ top[w] = b[w]
  /\ t' = [t EXCEPT ![w] = top[w]]
  /\ Goto(w, "pop_cas")
  /\ UNCHANGED <<b, victim, item, local, results, calls>>
  /\ UNCHANGED mainVars /\ UNCHANGED dequeVars

\* The compare-and-swap for the last item.  A locked instruction waits until
\* the thread's earlier stores are in memory.
PopCas(w) ==
  /\ pc[w] = "pop_cas" /\ buffer[w] = <<>>
  /\ \/ /\ top[w] = t[w]
        /\ top' = [top EXCEPT ![w] = t[w] + 1]
        /\ item' = [item EXCEPT ![w] = array[w][b[w]]]
        /\ Goto(w, "pop_advance")
     \/ /\ top[w] # t[w]
        /\ Goto(w, "pop_restore")
        /\ UNCHANGED <<top, item>>
  /\ UNCHANGED <<array, capacity, bottom, buffer, b, t, victim, local,
                 results, calls>>
  /\ UNCHANGED mainVars

\* pop() ends by putting bottom back, with an item or without one.
PopEnd(w) ==
  /\ pc[w] \in {"pop_restore", "pop_advance"}
  /\ StoreBottom(w, b[w] + 1)
  /\ Goto(w, IF pc[w] = "pop_advance" THEN "process" ELSE "steal_top")
  /\ UNCHANGED <<array, capacity, top, results, calls>>
  /\ UNCHANGED localVars /\ UNCHANGED mainVars

StartScan(w) ==
  /\ victim' = [victim EXCEPT ![w] = 0]
  /\ Goto(w, "scan_bottom")

\* trySteal() with no other worker returns null; otherwise it picks a victim,
\* and steal() loads the top of its deque.
StealTop(w) ==
  /\ pc[w] = "steal_top"
  /\ IF WorkerCount = 1
     THEN StartScan(w) /\ UNCHANGED t
     ELSE /\ \E v \in Workers \ {w} :
               /\ victim' = [victim EXCEPT ![w] = v]
               /\ t' = [t EXCEPT ![w] = top[v]]
          /\ Goto(w, "steal_bottom")
  /\ UNCHANGED <<b, item, local, results, calls>>
  /\ UNCHANGED mainVars /\ UNCHANGED dequeVars

\* steal() loads the victim's bottom.
StealBottom(w) ==
  /\ pc[w] = "steal_bottom"
  /\ \/ /\ t[w] < bottom[victim[w]]
        /\ Goto(w, "steal_cas")
        /\ UNCHANGED victim
     \/ /\ t[w] >= bottom[victim[w]]
        /\ StartScan(w)
  /\ UNCHANGED <<b, t, item, local, results, calls>>
  /\ UNCHANGED mainVars /\ UNCHANGED dequeVars

\* Mutant: top moves past the next item too.
MutStealCas(w) ==
  LET v == victim[w] IN
  /\ pc[w] = "steal_cas" /\ buffer[w] = <<>>
  /\ \/ /\ top[v] = t[w]
        /\ top' = [top EXCEPT ![v] = t[w] + 2]
        /\ item' = [item EXCEPT ![w] = array[v][t[w]]]
        /\ Goto(w, "process")
        /\ UNCHANGED victim
     \/ /\ top[v] # t[w]
        /\ StartScan(w)
        /\ UNCHANGED <<top, item>>
  /\ UNCHANGED <<array, capacity, bottom, buffer, b, t, local, results, calls>>
  /\ UNCHANGED mainVars

\* steal() claims slot t of the victim by moving top over it.
StealCas(w) ==
  LET v == victim[w] IN
  /\ pc[w] = "steal_cas" /\ buffer[w] = <<>>
  /\ \/ /\ top[v] = t[w]
        /\ top' = [top EXCEPT ![v] = t[w] + 1]
        /\ item' = [item EXCEPT ![w] = array[v][t[w]]]
        /\ Goto(w, "process")
        /\ UNCHANGED victim
     \/ /\ top[v] # t[w]
        /\ StartScan(w)
        /\ UNCHANGED <<top, item>>
  /\ UNCHANGED <<array, capacity, bottom, buffer, b, t, local, results, calls>>
  /\ UNCHANGED mainVars

\* Mutant: an item whose process_fn failed is not counted.
MutProcess(w) ==
  /\ pc[w] = "process"
  /\ \E o \in Outcomes :
        local' = IF o = "errored" THEN local ELSE [local EXCEPT ![w] = Tally(@, o)]
  /\ calls' = [calls EXCEPT ![item[w]] = @ + 1]
  /\ item' = [item EXCEPT ![w] = NoItem]
  /\ Goto(w, "loop")
  /\ UNCHANGED <<b, t, victim, results>>
  /\ UNCHANGED mainVars /\ UNCHANGED dequeVars

\* process_fn returns a result or an error; either bumps one counter.
Process(w) ==
  /\ pc[w] = "process"
  /\ \E o \in Outcomes : local' = [local EXCEPT ![w] = Tally(@, o)]
  /\ calls' = [calls EXCEPT ![item[w]] = @ + 1]
  /\ item' = [item EXCEPT ![w] = NoItem]
  /\ Goto(w, "loop")
  /\ UNCHANGED <<b, t, victim, results>>
  /\ UNCHANGED mainVars /\ UNCHANGED dequeVars

\* allDequesEmpty(): len() of each deque in turn loads bottom, then top.
ScanBottom(w) ==
  /\ pc[w] = "scan_bottom"
  /\ b' = [b EXCEPT ![w] = ReadBottom(w, victim[w])]
  /\ Goto(w, "scan_top")
  /\ UNCHANGED <<t, victim, item, local, results, calls>>
  /\ UNCHANGED mainVars /\ UNCHANGED dequeVars

\* Mutant: a deque counts as empty only when top has passed bottom.
MutScanTop(w) ==
  /\ pc[w] = "scan_top"
  /\ \/ b[w] >= top[victim[w]] /\ Goto(w, "loop") /\ UNCHANGED victim
     \/ /\ b[w] < top[victim[w]] /\ victim[w] < WorkerCount - 1
        /\ victim' = [victim EXCEPT ![w] = @ + 1]
        /\ Goto(w, "scan_bottom")
     \/ /\ b[w] < top[victim[w]] /\ victim[w] = WorkerCount - 1
        /\ Goto(w, "exit") /\ UNCHANGED victim
  /\ UNCHANGED <<b, t, item, local, results, calls>>
  /\ UNCHANGED mainVars /\ UNCHANGED dequeVars

\* Mutant: the scan goes one deque too far.
MutScanTooFar(w) ==
  /\ pc[w] = "scan_top"
  /\ \/ b[w] > top[victim[w]] /\ Goto(w, "loop") /\ UNCHANGED victim
     \/ /\ b[w] <= top[victim[w]]
        /\ victim' = [victim EXCEPT ![w] = @ + 1]
        /\ Goto(w, IF victim[w] < WorkerCount THEN "scan_bottom" ELSE "exit")
  /\ UNCHANGED <<b, t, item, local, results, calls>>
  /\ UNCHANGED mainVars /\ UNCHANGED dequeVars

\* b > top: work is left somewhere, try again; after the last deque, leave.
ScanTop(w) ==
  /\ pc[w] = "scan_top"
  /\ \/ b[w] > top[victim[w]] /\ Goto(w, "loop") /\ UNCHANGED victim
     \/ /\ b[w] <= top[victim[w]] /\ victim[w] < WorkerCount - 1
        /\ victim' = [victim EXCEPT ![w] = @ + 1]
        /\ Goto(w, "scan_bottom")
     \/ /\ b[w] <= top[victim[w]] /\ victim[w] = WorkerCount - 1
        /\ Goto(w, "exit") /\ UNCHANGED victim
  /\ UNCHANGED <<b, t, item, local, results, calls>>
  /\ UNCHANGED mainVars /\ UNCHANGED dequeVars

Exit(w) ==
  /\ pc[w] = "exit"
  /\ results' = [results EXCEPT ![w] = local[w]]
  /\ Goto(w, "exited")
  /\ UNCHANGED calls
  /\ UNCHANGED mainVars /\ UNCHANGED dequeVars /\ UNCHANGED localVars

Worker(w) ==
  \/ PopBegin(w) \/ LoopStops(w) \/ PopTakes(w) \/ PopFindsEmpty(w)
  \/ PopFindsLast(w) \/ PopCas(w) \/ PopEnd(w)
  \/ StealTop(w) \/ StealBottom(w) \/ StealCas(w)
  \/ Process(w) \/ ScanBottom(w) \/ ScanTop(w) \/ Exit(w)

\* The hardware: the oldest store of w reaches memory.
Flush(w) ==
  /\ buffer[w] # <<>>
  /\ bottom' = [bottom EXCEPT ![w] = Head(buffer[w])]
  /\ buffer' = [buffer EXCEPT ![w] = Tail(@)]
  /\ UNCHANGED <<array, capacity, top, pc, results, calls>>
  /\ UNCHANGED mainVars /\ UNCHANGED localVars

Ended == {"no_work_items", "out_of_memory", "crashed", "spawn_failed", "returned"}

\* Nothing is left to do: run() has ended and so has every thread it started.
Stopped ==
  /\ mpc \in Ended
  /\ \A w \in Workers : pc[w] \in {"unspawned", "exited"} /\ buffer[w] = <<>>
  /\ UNCHANGED vars

Next == Main \/ (\E w \in Workers : Worker(w) \/ Flush(w)) \/ Stopped

Spec == Init /\ [][Next]_vars

\* The operating system schedules every thread that can run, and a store does
\* not stay in a store buffer for ever.
Fairness == /\ WF_vars(Main)
            /\ \A w \in Workers : WF_vars(Worker(w)) /\ WF_vars(Flush(w))

FairSpec == Spec /\ Fairness

-----------------------------------------------------------------------------
(* Properties.                                                             *)

MainTypes ==
  /\ mpc \in {"start", "sequential", "push", "spawn", "join", "abort"} \cup Ended
  /\ n \in 0 .. MaxItems /\ next \in Nat /\ active \in BOOLEAN
DequeTypes ==
  /\ array \in [Workers -> [Items -> Items \cup {NoItem}]]
  /\ capacity \in [Workers -> Nat]
  /\ bottom \in [Workers -> Nat] /\ top \in [Workers -> Nat]
  /\ buffer \in [Workers -> Seq(Nat)]
Labels == {"unspawned", "loop", "pop_top", "pop_cas", "pop_restore", "pop_advance",
           "steal_top", "steal_bottom", "steal_cas", "process",
           "scan_bottom", "scan_top", "exit", "exited"}
LocalTypes ==
  /\ b \in [Workers -> Nat] /\ t \in [Workers -> Nat]
  /\ victim \in [Workers -> Workers]
  /\ item \in [Workers -> Items \cup {NoItem}]
  /\ local \in [Workers -> Result]
CountTypes == results \in [Workers -> Result] /\ calls \in [Items -> Nat]

(* The values the variables take. *)
TypeOK == /\ MainTypes /\ DequeTypes /\ LocalTypes /\ CountTypes
          /\ pc \in [Workers -> Labels]

(* No work item is handed to two workers, or to one worker twice, however    *)
(* the pops and the steals of the same deque interleave.  (Test "all items   *)
(* processed exactly once".)                                                 *)
AtMostOnce ==
  /\ \A i \in Items : calls[i] <= 1
  /\ \A w \in Workers : item[w] \in Items => calls[item[w]] = 0
  /\ \A w, v \in Workers : item[w] = item[v] /\ item[w] \in Items => w = v

(* When run() returns results, process_fn has been called on every item: no  *)
(* worker quits while an item is left that nobody will take.                 *)
NoItemLost == mpc = "returned" => \A i \in 0 .. (n - 1) : calls[i] >= 1

(* The results run() returns count every item once, an item whose process_fn *)
(* failed included: what the callers add up is the number of work items.     *)
ResultsComplete ==
  mpc = "returned" =>
    SumFunction([w \in Workers |-> SumFunction(results[w])]) = n

(* The abstract bag.  An item is in it while it is in a deque between top and *)
(* the owner's bottom; the slot an owner has decremented bottom over and not  *)
(* claimed yet still counts, for a stealer may get it.                        *)
OwnerBottom(w) ==
  IF pc[w] \in {"pop_top", "pop_cas", "pop_restore"} THEN b[w] + 1
                                                     ELSE ReadBottom(w, w)
InDeque(w) == {array[w][k] : k \in top[w] .. (OwnerBottom(w) - 1)}
Unpushed == IF mpc = "sequential" THEN next .. (n - 1) ELSE {}

Bag == INSTANCE TaskBag WITH
         Item    <- Items,
         todo    <- Unpushed \cup UNION {InDeque(w) : w \in Workers},
         doing   <- {item[w] : w \in Workers} \ {NoItem},
         done    <- {i \in Items : calls[i] > 0},
         success <- mpc = "returned"

(* The executor implements the bag: each step of a pop or a steal either     *)
(* takes one item out of it or changes nothing a caller can see, and run()   *)
(* returns results only when the bag is empty and nothing is being done.     *)
ImplementsBag == Bag!Spec

(* run() ends, and no worker spins for ever once the deques are empty.       *)
RunEnds == <>(mpc \in Ended /\ \A w \in Workers : pc[w] \in {"unspawned", "exited"})
=============================================================================
