------------------------ MODULE FunctionWorkersProofs ------------------------
(***************************************************************************)
(* A pass that hands its functions to the pool, for any number of threads, *)
(* of functions and of calls in them.                                      *)
(*                                                                         *)
(* The counters: an item is left to take, with a thread, or counted once   *)
(* in the counters of the thread that had it.  The hook: its state is      *)
(* empty whenever a thread begins to analyse a function, so what it holds  *)
(* afterwards are the transfers that function leaves open; that is what a  *)
(* fold of the hook over its calls computes.                               *)
(***************************************************************************)
EXTENDS FunctionWorkers, SumTheorems, TLAPS

(* The list of functions the pass was given.                                 *)
ListInv == functions \in Seq(FunctionKinds[pass]) /\ Len(functions) \in 0 .. MaxFunctions

(* A thread works only while the pass runs, on a function of the list, and   *)
(* the one thread of a short list is the main one.                           *)
BusyInv ==
  /\ mpc # "running" => \A th \in Threads : pc[th] = "idle"
  /\ \A th \in Threads : pc[th] # "idle" => cur[th] \in DOMAIN functions /\ th \in Pool
  /\ mpc = "done" => todo = {}
  /\ mpc \in {"start", "failed", "nothing_to_do"} => todo = {} /\ reported = {}
  /\ \A th \in Threads : hookReady[th] => th = Main
  /\ mpc = "running" /\ pass = "pointer_ownership" => hookReady[Main]

(* The mutex is with the one thread that is past the lock.                   *)
Locked(th) == pc[th] \in {"zone", "analyze"}
MutexInv == \A th \in Threads : Locked(th) <=> mutex = th

(* The hook state is empty but between a thread's analysis in the ownership  *)
(* pass and its next reset.                                                  *)
HookInv ==
  \A th \in Threads :
     \/ pass # "pointer_ownership" \/ ~ hookReady[th] \/ pc[th] = "analyze"
     => transferred[th] = {}

(* An item is left, with a thread or counted.                                *)
Busy == {th \in Threads : pc[th] # "idle"}
Counted == Total("analyzed") + Total("skipped") + Total("errored")
CountInv ==
  /\ degraded = Total("errored")
  /\ mpc = "start" => Counted = 0
  /\ mpc \in {"running", "done"} =>
       Cardinality(todo) + Cardinality(Busy) + Counted = Len(functions)
  /\ pass \in {"callback_escape", "ptr_lifetime"} =>
       slots = Min({SlotLimit, Total("analyzed")})

(* A function of the ownership pass that leaves a transfer open is left to    *)
(* take, with a thread, or reported.                                         *)
ReportInv ==
  mpc \in {"running", "done"} /\ Sequential =>
    \A i \in DOMAIN functions : LeavesTransferOpen(functions[i]) =>
       \/ i \in todo \/ i \in reported
       \/ \E th \in Threads : /\ pc[th] \notin {"idle", "call_graph", "reset"}
                              /\ cur[th] = i

Inv == /\ TypeOK /\ ListInv /\ BusyInv /\ MutexInv /\ HookInv /\ CountInv /\ ReportInv
       /\ ReportsOwnTransfers

-----------------------------------------------------------------------------
(* What the hook leaves of a list of calls.                                  *)

Call == [op : {"into_raw", "from_raw"}, arg : Values, res : Values, stored : BOOLEAN]
Opens(c, x)  == c.op = "into_raw" /\ c.arg = x /\ x # "null" /\ c.stored
Closes(c, x) == c.op = "from_raw" /\ c.arg = x /\ x # "null"

\* The map after the calls with the indices in s, begun with the map given.
After(map, calls, s) ==
  {x \in Values : \/ x \in map /\ \A j \in s : ~ Closes(calls[j], x)
                  \/ \E i \in s : /\ Opens(calls[i], x)
                                  /\ \A j \in s : j > i => ~ Closes(calls[j], x)}

\* The table a fold of the hook fills in.
IsHookTable(T, map, calls) ==
  T = [s \in SUBSET DOMAIN calls |->
         IF s = {} THEN map
         ELSE RustOwnershipHook(T[s \ {Max(s)}], calls[Max(s)])]

LEMMA FoldIsTable ==
  ASSUME NEW map, NEW calls
  PROVE  FoldLeft(RustOwnershipHook, map, calls)
           = (CHOOSE T : IsHookTable(T, map, calls))[DOMAIN calls]
BY DEF FoldLeft, MapThenFoldSet, IsHookTable

\* The fold goes from the last index back.
LEMMA LastIndex ==
  ASSUME NEW n \in Nat, NEW s \in SUBSET (1 .. n), s # {}
  PROVE  Max(s) \in s /\ \A y \in s : Max(s) >= y
BY LargestNumber DEF Max

\* One call more.
LEMMA AfterOne ==
  ASSUME NEW calls \in Seq(Call), NEW map \in SUBSET Values,
         NEW s \in SUBSET DOMAIN calls, s # {}
  PROVE  After(map, calls, s)
           = RustOwnershipHook(After(map, calls, s \ {Max(s)}), calls[Max(s)])
<1>1. Len(calls) \in Nat /\ DOMAIN calls = 1 .. Len(calls)
  OBVIOUS
<1>2. Max(s) \in s /\ \A y \in s : Max(s) >= y
  BY <1>1, LastIndex
<1>3. PICK m \in s : m = Max(s)
  BY <1>2
<1>4. (\A y \in s : y \in Nat /\ m >= y) /\ \A y \in s \ {m} : m > y /\ ~ (y > m)
  BY <1>1, <1>2, <1>3
<1>5. PICK c \in Call : c = calls[m]
  BY <1>1
<1> DEFINE r == s \ {m}
           A(x) == \/ x \in map /\ \A j \in s : ~ Closes(calls[j], x)
                   \/ \E i \in s : /\ Opens(calls[i], x)
                                   /\ \A j \in s : j > i => ~ Closes(calls[j], x)
           R(x) == \/ x \in map /\ \A j \in r : ~ Closes(calls[j], x)
                   \/ \E i \in r : /\ Opens(calls[i], x)
                                   /\ \A j \in r : j > i => ~ Closes(calls[j], x)
<1>6. After(map, calls, s) = {x \in Values : A(x)}
      /\ After(map, calls, r) = {x \in Values : R(x)}
  BY DEF After
<1>7. ASSUME NEW x, ~ Opens(c, x), ~ Closes(c, x) PROVE A(x) <=> R(x)
  BY <1>4, <1>5, <1>7
<1>8. ASSUME NEW x, Opens(c, x) PROVE A(x)
  BY <1>4, <1>5, <1>8 DEF Opens, Closes
<1>9. ASSUME NEW x, Closes(c, x) PROVE ~ A(x)
  BY <1>4, <1>5, <1>9 DEF Opens, Closes
<1>10. c.arg \in Values /\ c.op \in {"into_raw", "from_raw"}
  BY <1>5 DEF Call
<1> DEFINE M == After(map, calls, r)
<1>11. CASE c.arg = "null"
  <2>1. \A x : ~ Opens(c, x) /\ ~ Closes(c, x)
    BY <1>11 DEF Opens, Closes
  <2>2. \A x \in Values : A(x) <=> R(x)
    BY <1>7, <2>1
  <2>3. After(map, calls, s) = M
    BY <1>6, <2>2
  <2>4. RustOwnershipHook(M, c) = M
    BY <1>11 DEF RustOwnershipHook
  <2> QED
    BY <1>3, <1>5, <2>3, <2>4
<1>12. CASE c.arg # "null" /\ c.op = "into_raw" /\ c.stored
  <2>1. \A x : x # c.arg => ~ Opens(c, x) /\ ~ Closes(c, x)
    BY DEF Opens, Closes
  <2>2. Opens(c, c.arg)
    BY <1>12 DEF Opens
  <2>3. \A x \in Values : A(x) <=> (x = c.arg \/ R(x))
    BY <1>7, <1>8, <2>1, <2>2
  <2>4. After(map, calls, s) = M \cup {c.arg}
    BY <1>6, <1>10, <2>3
  <2>5. RustOwnershipHook(M, c) = M \cup {c.arg}
    BY <1>12 DEF RustOwnershipHook
  <2> QED
    BY <1>3, <1>5, <2>4, <2>5
<1>13. CASE c.arg # "null" /\ c.op = "from_raw"
  <2>1. \A x : x # c.arg => ~ Opens(c, x) /\ ~ Closes(c, x)
    BY DEF Opens, Closes
  <2>2. Closes(c, c.arg)
    BY <1>13 DEF Closes
  <2>3. \A x \in Values : A(x) <=> (x # c.arg /\ R(x))
    BY <1>7, <1>9, <2>1, <2>2
  <2>4. After(map, calls, s) = M \ {c.arg}
    BY <1>6, <1>10, <2>3
  <2>5. RustOwnershipHook(M, c) = M \ {c.arg}
    BY <1>13 DEF RustOwnershipHook
  <2> QED
    BY <1>3, <1>5, <2>4, <2>5
<1>14. CASE c.arg # "null" /\ c.op = "into_raw" /\ ~ c.stored
  <2>1. \A x : ~ Opens(c, x) /\ ~ Closes(c, x)
    BY <1>14 DEF Opens, Closes
  <2>2. \A x \in Values : A(x) <=> R(x)
    BY <1>7, <2>1
  <2>3. After(map, calls, s) = M
    BY <1>6, <2>2
  <2>4. RustOwnershipHook(M, c) = M
    BY <1>14 DEF RustOwnershipHook
  <2> QED
    BY <1>3, <1>5, <2>3, <2>4
<1> QED
  BY <1>10, <1>11, <1>12, <1>13, <1>14

\* The fold of the hook over the calls of a function.
LEMMA HookFold ==
  ASSUME NEW calls \in Seq(Call), NEW map \in SUBSET Values
  PROVE  FoldLeft(RustOwnershipHook, map, calls) = After(map, calls, DOMAIN calls)
<1> DEFINE D == DOMAIN calls
           A(s) == After(map, calls, s)
           Table == [s \in SUBSET D |-> A(s)]
<1>1. IsFiniteSet(D)
  BY FS_Interval
<1>2. A({}) = map
  BY DEF After
<1>3. \A s \in SUBSET D : s # {} => A(s) = RustOwnershipHook(A(s \ {Max(s)}), calls[Max(s)])
  BY AfterOne
<1>4. IsHookTable(Table, map, calls)
  <2> DEFINE B(s) == IF s = {} THEN map
                     ELSE RustOwnershipHook(Table[s \ {Max(s)}], calls[Max(s)])
  <2>1. \A s \in SUBSET D : Table[s \ {Max(s)}] = A(s \ {Max(s)})
    OBVIOUS
  <2>2. \A s \in SUBSET D : A(s) = B(s)
    BY <1>2, <1>3, <2>1
  <2> HIDE DEF A, B
  <2>3. Table = [s \in SUBSET D |-> B(s)]
    BY <2>2
  <2> QED
    BY <2>3, Zenon DEF IsHookTable, B
<1>5. ASSUME NEW T, IsHookTable(T, map, calls) PROVE T[D] = A(D)
  <2> DEFINE Bad == {s \in SUBSET D : T[s] # A(s)}
  <2> HIDE DEF A, D
  <2>1. SUFFICES Bad = {}
    BY <2>1
  <2>2. SUFFICES ASSUME NEW s \in Bad, \A x \in s : s \ {x} \notin Bad PROVE FALSE
    BY <1>1, SmallestSet
  <2>3. T[s] = IF s = {} THEN map ELSE RustOwnershipHook(T[s \ {Max(s)}], calls[Max(s)])
    BY <1>5 DEF IsHookTable, D
  <2>4. CASE s = {}
    BY <1>2, <2>3, <2>4
  <2>5. CASE s # {}
    <3>1. s \in SUBSET (1 .. Len(calls)) /\ Len(calls) \in Nat
      BY DEF D
    <3>2. Max(s) \in s
      BY <2>5, <3>1, LastIndex
    <3>3. T[s \ {Max(s)}] = A(s \ {Max(s)})
      BY <2>2, <3>2
    <3> QED
      BY <1>3, <2>3, <2>5, <3>3
  <2> QED
    BY <2>4, <2>5
<1> HIDE DEF Table, A, D
<1>6. IsHookTable(CHOOSE T : IsHookTable(T, map, calls), map, calls)
  BY <1>4
<1>7. (CHOOSE T : IsHookTable(T, map, calls))[D] = A(D)
  BY <1>5, <1>6
<1> QED
  BY <1>7, FoldIsTable DEF A, D

\* So what an analysis begun with an empty map leaves in it is what its
\* function leaves open.
LEMMA HookLeavesOpen ==
  ASSUME NEW calls \in Seq(Call)
  PROVE  FoldLeft(RustOwnershipHook, {}, calls) = LeftOpen(calls)
<1>1. FoldLeft(RustOwnershipHook, {}, calls) = After({}, calls, DOMAIN calls)
  BY HookFold
<1>2. Len(calls) \in Nat /\ DOMAIN calls = 1 .. Len(calls)
  OBVIOUS
<1>3. \A i \in DOMAIN calls : calls[i].arg \in Values
  <2> TAKE i \in DOMAIN calls
  <2>1. calls[i] \in Call
    OBVIOUS
  <2> QED
    BY <2>1 DEF Call
<1>4. \A i \in DOMAIN calls : \A j :
         j \in (i + 1) .. Len(calls) <=> j \in DOMAIN calls /\ j > i
  BY <1>2
<1> DEFINE Left(i) == /\ calls[i].op = "into_raw" /\ calls[i].arg # "null"
                      /\ calls[i].stored
                      /\ \A j \in (i + 1) .. Len(calls) :
                           ~ (calls[j].op = "from_raw" /\ calls[j].arg = calls[i].arg)
           Kept(x, i) == /\ Opens(calls[i], x)
                         /\ \A j \in DOMAIN calls : j > i => ~ Closes(calls[j], x)
<1>5. ASSUME NEW i \in DOMAIN calls, NEW x
      PROVE  Kept(x, i) <=> Left(i) /\ x = calls[i].arg
  BY <1>4 DEF Opens, Closes
<1>6. LeftOpen(calls) = {calls[k].arg : k \in {i \in DOMAIN calls : Left(i)}}
  BY DEF LeftOpen
<1>7. After({}, calls, DOMAIN calls)
        = {x \in Values : \E i \in DOMAIN calls : Kept(x, i)}
  BY DEF After
<1> HIDE DEF Left, Kept
<1> QED
  BY <1>1, <1>3, <1>5, <1>6, <1>7

-----------------------------------------------------------------------------
(* Facts of every step.                                                      *)

\* The threads of a pool.
LEMMA ThreadFacts ==
  /\ Main \in Threads /\ Nobody \notin Threads /\ IsFiniteSet(Threads)
  /\ Pool \subseteq Threads /\ (Sequential => Pool = {Main})
<1>1. IsFiniteSet(Workers) /\ IsFiniteSet({Main})
  <2>1. 1 \in Int /\ WorkerCount \in Int
    BY BoundsAssumption
  <2> QED
    BY <2>1, FS_Interval, FS_Singleton DEF Workers
<1>2. IsFiniteSet(Threads)
  BY <1>1, FS_Union DEF Threads
<1>3. Nobody \notin Threads
  BY BoundsAssumption DEF Nobody, Threads, Workers, Main
<1> QED
  BY <1>2, <1>3 DEF Pool, Threads

\* The functions of a list.
LEMMA ListFacts ==
  ASSUME TypeOK, ListInv
  PROVE  /\ Len(functions) \in Nat /\ DOMAIN functions = 1 .. Len(functions)
         /\ DOMAIN functions \subseteq 0 .. MaxFunctions
         /\ IsFiniteSet(DOMAIN functions) /\ pass \in AllPasses
         /\ \A i \in DOMAIN functions : IsFunction(functions[i])
<1>1. Len(functions) \in Nat /\ DOMAIN functions = 1 .. Len(functions)
  BY DEF ListInv
<1>2. DOMAIN functions \subseteq 0 .. MaxFunctions
  BY <1>1, BoundsAssumption DEF ListInv
<1>3. IsFiniteSet(DOMAIN functions)
  BY <1>1, FS_Interval
<1>4. pass \in Passes /\ \A i \in DOMAIN functions : functions[i] \in FunctionKinds[pass]
  BY DEF TypeOK
<1> QED
  BY <1>1, <1>2, <1>3, <1>4, PassesAssumption, KindsAssumption

\* The calls of a function are what the hook lemmas are about.
LEMMA FunctionCalls ==
  ASSUME NEW f, IsFunction(f)
  PROVE  f.calls \in Seq(Call)
BY DEF IsFunction, Call

\* A pass and its list do not change while it runs.
LEMMA Fixed ==
  ASSUME [Next]_vars
  PROVE  pass' = pass /\ functions' = functions
<1>1. CASE Start
  BY <1>1 DEF Start
<1>2. CASE Finish
  BY <1>2 DEF Finish
<1>3. CASE Stopped
  BY <1>3 DEF Stopped, vars
<1>4. CASE \E th \in Threads : Worker(th)
  BY <1>4 DEF Worker, Take, Filter, FfiRelevance, SearchCallGraph, Reset, Lock,
              ZoneGate, AnalyzeFails, Analyze, poolVars
<1>5. CASE UNCHANGED vars
  BY <1>5 DEF vars
<1> QED
  BY <1>1, <1>2, <1>3, <1>4, <1>5 DEF Next

\* Totals are natural numbers, and depend on the counters alone.
LEMMA TotalFacts ==
  /\ results \in [Threads -> [Counters -> Nat]] => \A o \in Counters : Total(o) \in Nat
  /\ results' = results => \A o : Total(o)' = Total(o)
<1>1. ASSUME results \in [Threads -> [Counters -> Nat]], NEW o \in Counters
      PROVE  Total(o) \in Nat
  <2> DEFINE f == [t \in Threads |-> results[t][o]]
  <2>1. DOMAIN f = Threads /\ \A t \in Threads : f[t] \in Nat
    BY <1>1
  <2>2. Total(o) = SumFunctionOnSet(f, Threads)
    BY <2>1 DEF Total, SumFunction
  <2> HIDE DEF f
  <2> QED
    BY <2>1, <2>2, ThreadFacts, SumNat
<1>2. results' = results => \A o : Total(o)' = Total(o)
  BY DEF Total
<1> QED
  BY <1>1, <1>2

\* One more function on a thread's counters.
LEMMA CountOne ==
  ASSUME results \in [Threads -> [Counters -> Nat]],
         NEW th \in Threads, NEW o \in Counters, Count(th, o)
  PROVE  /\ results' \in [Threads -> [Counters -> Nat]]
         /\ Total(o)' = Total(o) + 1
         /\ \A p \in Counters : p # o => Total(p)' = Total(p)
<1>1. results' = [results EXCEPT ![th][o] = results[th][o] + 1]
  BY DEF Count
<1>2. results' \in [Threads -> [Counters -> Nat]]
  BY <1>1
<1>3. ASSUME NEW p \in Counters
      PROVE  Total(p)' = Total(p) + (IF p = o THEN 1 ELSE 0)
  <2> DEFINE f == [t \in Threads |-> results[t][p]]
             g == [t \in Threads |-> results'[t][p]]
  <2>1. /\ DOMAIN f = Threads /\ DOMAIN g = Threads
        /\ \A t \in Threads : f[t] \in Nat /\ g[t] \in Nat
    BY <1>2
  <2>2. \A t \in Threads \ {th} : f[t] = g[t]
    BY <1>1
  <2>3. g[th] = f[th] + (IF p = o THEN 1 ELSE 0)
    <3>1. results'[th] = [results[th] EXCEPT ![o] = results[th][o] + 1]
      BY <1>1
    <3>2. results[th] \in [Counters -> Nat]
      OBVIOUS
    <3>3. g[th] = results'[th][p] /\ f[th] = results[th][p]
      OBVIOUS
    <3>4. PICK r \in [Counters -> Nat] : r = results[th]
      BY <3>2
    <3>5. results'[th][p] = r[p] + (IF p = o THEN 1 ELSE 0)
      BY <3>1, <3>4
    <3> HIDE DEF f, g
    <3> QED
      BY <3>3, <3>4, <3>5
  <2>4. Total(p) = SumFunctionOnSet(f, Threads)
    BY <2>1 DEF Total, SumFunction
  <2>5. Total(p)' = SumFunctionOnSet(g, Threads)
    BY <2>1 DEF Total, SumFunction
  <2> HIDE DEF f, g
  <2>6. /\ SumFunctionOnSet(g, Threads) + f[th] = SumFunctionOnSet(f, Threads) + g[th]
        /\ SumFunctionOnSet(f, Threads) \in Nat /\ SumFunctionOnSet(g, Threads) \in Nat
    BY <2>1, <2>2, ThreadFacts, SumChange
  <2>7. f[th] \in Nat
    BY <2>1
  <2> QED
    BY <2>3, <2>4, <2>5, <2>6, <2>7
<1>4. \A p \in Counters : Total(p) \in Nat
  BY TotalFacts
<1> QED
  BY <1>2, <1>3, <1>4

-----------------------------------------------------------------------------
(* The values of the variables.                                              *)

\* A thread that works, and the function it works on.
LEMMA Working ==
  ASSUME TypeOK, ListInv, BusyInv, NEW th \in Threads, pc[th] # "idle"
  PROVE  /\ mpc = "running" /\ th \in Pool /\ cur[th] \in DOMAIN functions
         /\ IsFunction(functions[cur[th]]) /\ functions[cur[th]].calls \in Seq(Call)
<1>1. mpc = "running" /\ th \in Pool /\ cur[th] \in DOMAIN functions
  BY DEF BusyInv
<1>2. IsFunction(functions[cur[th]])
  BY <1>1, ListFacts
<1> QED
  BY <1>1, <1>2, FunctionCalls

\* What the hook computes is a set of values.
LEMMA HookTypes ==
  ASSUME transferred \in [Threads -> SUBSET Values], NEW th \in Threads,
         NEW f, f.calls \in Seq(Call), DispatchHooks(th, f)
  PROVE  transferred' \in [Threads -> SUBSET Values]
<1>1. FoldLeft(RustOwnershipHook, transferred[th], f.calls)
        = After(transferred[th], f.calls, DOMAIN f.calls)
  BY HookFold
<1>2. After(transferred[th], f.calls, DOMAIN f.calls) \in SUBSET Values
  BY DEF After
<1> QED
  BY <1>1, <1>2 DEF DispatchHooks

\* The list of functions stays what it is.
LEMMA ListStep ==
  ASSUME ListInv, [Next]_vars
  PROVE  ListInv'
BY Fixed DEF ListInv

\* The parts of TypeOK a step of a thread can disturb.
LEMMA PoolTypes ==
  ASSUME TypeOK, ListInv, BusyInv, NEW th \in Threads, Worker(th)
  PROVE  /\ mpc' = mpc /\ todo' \subseteq DOMAIN functions
         /\ pc' \in [Threads -> Labels] /\ cur' \in [Threads -> 0 .. MaxFunctions]
         /\ mutex' \in Threads \cup {Nobody} /\ hookReady' = hookReady
<1>0. /\ pc \in [Threads -> Labels] /\ cur \in [Threads -> 0 .. MaxFunctions]
      /\ mutex \in Threads \cup {Nobody} /\ todo \subseteq DOMAIN functions
      /\ DOMAIN functions \subseteq 0 .. MaxFunctions
      /\ pass \in AllPasses
  BY ListFacts DEF TypeOK
<1>1. CASE Take(th)
  BY <1>0, <1>1 DEF Take, hookVars, countVars, Labels
<1>2. CASE Filter(th)
  BY <1>0, <1>2 DEF Filter, Skip, Goto, AfterFilter, AllPasses, hookVars, poolVars, Labels
<1>3. CASE FfiRelevance(th)
  BY <1>0, <1>3 DEF FfiRelevance, Skip, Goto, hookVars, poolVars, Labels
<1>4. CASE SearchCallGraph(th)
  BY <1>0, <1>4 DEF SearchCallGraph, Goto, hookVars, poolVars, Labels
<1>5. CASE Reset(th)
  BY <1>0, <1>5 DEF Reset, Goto, poolVars, Labels
<1>6. CASE Lock(th)
  BY <1>0, <1>6 DEF Lock, Goto, hookVars, poolVars, Labels
<1>7. CASE ZoneGate(th)
  BY <1>0, <1>7 DEF ZoneGate, Skip, Goto, poolVars, Labels
<1>8. CASE AnalyzeFails(th)
  BY <1>0, <1>8 DEF AnalyzeFails, Unlock, Goto, poolVars, Labels
<1>9. CASE Analyze(th)
  BY <1>0, <1>9 DEF Analyze, Unlock, Goto, poolVars, Labels
<1> QED
  BY <1>1, <1>2, <1>3, <1>4, <1>5, <1>6, <1>7, <1>8, <1>9 DEF Worker

LEMMA CountTypes ==
  ASSUME TypeOK, ListInv, BusyInv, NEW th \in Threads, Worker(th)
  PROVE  /\ transferred' \in [Threads -> SUBSET Values]
         /\ results' \in [Threads -> [Counters -> Nat]]
         /\ reported' \subseteq DOMAIN functions
         /\ degraded' \in Nat /\ zones' \in Nat /\ slots' \in 0 .. SlotLimit
<1>0. /\ transferred \in [Threads -> SUBSET Values]
      /\ results \in [Threads -> [Counters -> Nat]]
      /\ reported \subseteq DOMAIN functions
      /\ degraded \in Nat /\ zones \in Nat /\ slots \in 0 .. SlotLimit
      /\ SlotLimit \in Nat
  BY BoundsAssumption DEF TypeOK
<1>10. "skipped" \in Counters /\ "errored" \in Counters /\ "analyzed" \in Counters
  BY DEF Counters
<1>1. CASE Take(th)
  BY <1>0, <1>1 DEF Take, hookVars, countVars
<1>2. CASE Filter(th)
  <2>1. results' \in [Threads -> [Counters -> Nat]]
    BY <1>0, <1>10, <1>2, CountOne DEF Filter, Skip
  <2> QED
    BY <1>0, <1>2, <2>1 DEF Filter, hookVars
<1>3. CASE FfiRelevance(th)
  <2>1. results' \in [Threads -> [Counters -> Nat]]
    BY <1>0, <1>10, <1>3, CountOne DEF FfiRelevance, Skip
  <2> QED
    BY <1>0, <1>3, <2>1 DEF FfiRelevance, hookVars
<1>4. CASE SearchCallGraph(th)
  BY <1>0, <1>4 DEF SearchCallGraph, hookVars, countVars
<1>5. CASE Reset(th)
  BY <1>0, <1>5 DEF Reset, ResetHooks, countVars
<1>6. CASE Lock(th)
  BY <1>0, <1>6 DEF Lock, hookVars
<1>7. CASE ZoneGate(th)
  <2>1. results' \in [Threads -> [Counters -> Nat]]
    BY <1>0, <1>10, <1>7, CountOne DEF ZoneGate, Skip
  <2>2. transferred' \in [Threads -> SUBSET Values]
    BY <1>0, <1>7 DEF ZoneGate, ResetHooks
  <2> QED
    BY <1>0, <1>7, <2>1, <2>2 DEF ZoneGate
<1>8. CASE AnalyzeFails(th)
  <2>1. results' \in [Threads -> [Counters -> Nat]]
    BY <1>0, <1>10, <1>8, CountOne DEF AnalyzeFails
  <2>2. functions[cur[th]].calls \in Seq(Call)
    BY <1>8, Working DEF AnalyzeFails
  <2>3. transferred' \in [Threads -> SUBSET Values]
    BY <1>0, <1>8, <2>2, HookTypes DEF AnalyzeFails
  <2> QED
    BY <1>0, <1>8, <2>1, <2>3 DEF AnalyzeFails
<1>9. CASE Analyze(th)
  <2>1. results' \in [Threads -> [Counters -> Nat]]
    BY <1>0, <1>10, <1>9, CountOne DEF Analyze
  <2>2. functions[cur[th]].calls \in Seq(Call) /\ cur[th] \in DOMAIN functions
    BY <1>9, Working DEF Analyze
  <2>3. transferred' \in [Threads -> SUBSET Values]
    BY <1>0, <1>9, <2>2, HookTypes DEF Analyze
  <2>4. slots' \in 0 .. SlotLimit
    BY <1>0, <1>9 DEF Analyze, StoreStats
  <2>5. reported' \subseteq DOMAIN functions
    BY <1>0, <1>9, <2>2 DEF Analyze
  <2> QED
    BY <1>0, <1>9, <2>1, <2>3, <2>4, <2>5 DEF Analyze
<1> QED
  BY <1>1, <1>2, <1>3, <1>4, <1>5, <1>6, <1>7, <1>8, <1>9 DEF Worker

\* Every step keeps the types.
LEMMA TypeStep ==
  ASSUME TypeOK, ListInv, BusyInv, [Next]_vars
  PROVE  TypeOK'
<1>0. pass' = pass /\ functions' = functions
  BY Fixed
<1>1. CASE Start
  <2>1. DOMAIN functions = 1 .. Len(functions)
    BY ListFacts
  <2> QED
    BY <1>1, <2>1, ThreadFacts DEF Start, TypeOK, countVars
<1>2. CASE Finish
  BY <1>2, ThreadFacts DEF Finish, TypeOK, countVars
<1>3. CASE \E th \in Threads : Worker(th)
  <2>1. PICK th \in Threads : Worker(th)
    BY <1>3
  <2> QED
    BY <1>0, <2>1, PoolTypes, CountTypes DEF TypeOK
<1>4. CASE UNCHANGED vars
  BY <1>4 DEF vars, TypeOK
<1> QED
  BY <1>1, <1>2, <1>3, <1>4 DEF Next, Stopped

-----------------------------------------------------------------------------
(* Who works on what.                                                        *)

\* Every step keeps BusyInv.
LEMMA BusyStep ==
  ASSUME TypeOK, ListInv, BusyInv, [Next]_vars
  PROVE  BusyInv'
<1>0. /\ pass' = pass /\ functions' = functions /\ Pool' = Pool
      /\ pc \in [Threads -> Labels] /\ cur \in [Threads -> 0 .. MaxFunctions]
      /\ todo \subseteq DOMAIN functions /\ hookReady \in [Threads -> BOOLEAN]
  BY Fixed DEF TypeOK, Pool, Sequential
<1>1. CASE Start
  <2>1. mpc' = "running" /\ pass = "pointer_ownership" => hookReady'[Main]
    BY <1>0, <1>1, ThreadFacts DEF Start
  <2>2. \A th \in Threads : hookReady'[th] => th = Main
    BY <1>0, <1>1 DEF Start, BusyInv
  <2> QED
    BY <1>0, <1>1, <2>1, <2>2 DEF Start, BusyInv, countVars
<1>2. CASE Finish
  BY <1>0, <1>2 DEF Finish, BusyInv, countVars
<1>3. CASE \E th \in Threads : Worker(th)
  <2>1. PICK th \in Threads : Worker(th)
    BY <1>3
  <2>2. mpc' = mpc /\ hookReady' = hookReady /\ mpc = "running"
    BY <2>1, PoolTypes, Working
       DEF Worker, Take, Filter, FfiRelevance, SearchCallGraph, Reset, Lock,
           ZoneGate, AnalyzeFails, Analyze
  <2>3. \A t \in Threads : pc'[t] # "idle" => cur'[t] \in DOMAIN functions /\ t \in Pool
    <3>1. CASE Take(th)
      BY <1>0, <3>1 DEF Take, BusyInv
    <3>2. CASE ~ Take(th)
      <4>1. pc[th] # "idle" /\ cur' = cur /\ \A t \in Threads \ {th} : pc'[t] = pc[t]
        BY <1>0, <2>1, <3>2
           DEF Worker, Filter, FfiRelevance, SearchCallGraph, Reset, Lock, ZoneGate,
               AnalyzeFails, Analyze, Skip, Goto, Unlock
      <4> QED
        BY <4>1 DEF BusyInv
    <3> QED
      BY <3>1, <3>2
  <2> QED
    BY <1>0, <2>2, <2>3 DEF BusyInv
<1>4. CASE UNCHANGED vars
  BY <1>0, <1>4 DEF vars, BusyInv
<1> QED
  BY <1>1, <1>2, <1>3, <1>4 DEF Next, Stopped

\* Every step keeps MutexInv.
LEMMA MutexStep ==
  ASSUME TypeOK, ListInv, BusyInv, MutexInv, [Next]_vars
  PROVE  MutexInv'
<1>0. pc \in [Threads -> Labels] /\ pass \in AllPasses
  BY ListFacts DEF TypeOK
<1>1. CASE Start \/ Finish \/ UNCHANGED vars
  <2>1. pc' = pc /\ mutex' = mutex
    BY <1>1 DEF Start, Finish, vars
  <2> QED
    BY <2>1 DEF MutexInv, Locked
<1>2. CASE \E th \in Threads : Worker(th)
  <2>1. PICK th \in Threads : Worker(th)
    BY <1>2
  <2>2. \A t \in Threads \ {th} : pc'[t] = pc[t]
    BY <1>0, <2>1
       DEF Worker, Take, Filter, FfiRelevance, SearchCallGraph, Reset, Lock, ZoneGate,
           AnalyzeFails, Analyze, Skip, Goto, Unlock
  <2>3. \/ mutex' = mutex /\ (Locked(th)' <=> Locked(th))
        \/ mutex = Nobody /\ mutex' = th /\ Locked(th)'
        \/ Locked(th) /\ mutex' = Nobody /\ ~ Locked(th)'
    <3>1. CASE Take(th) \/ Filter(th) \/ FfiRelevance(th) \/ SearchCallGraph(th)
      BY <1>0, <3>1
         DEF Take, Filter, FfiRelevance, SearchCallGraph, Skip, Goto, AfterFilter,
             AllPasses, Locked
    <3>2. CASE Reset(th)
      BY <1>0, <3>2 DEF Reset, Goto, Locked
    <3>3. CASE Lock(th)
      BY <1>0, <3>3 DEF Lock, Goto, Locked
    <3>4. CASE ZoneGate(th)
      BY <1>0, <3>4 DEF ZoneGate, Skip, Goto, Locked
    <3>5. CASE AnalyzeFails(th) \/ Analyze(th)
      BY <1>0, <3>5 DEF AnalyzeFails, Analyze, Unlock, Goto, Locked
    <3> QED
      BY <2>1, <3>1, <3>2, <3>3, <3>4, <3>5 DEF Worker
  <2>4. \A t \in Threads \ {th} : Locked(t)' <=> Locked(t)
    BY <2>2 DEF Locked
  <2> QED
    BY <2>3, <2>4, ThreadFacts DEF MutexInv
<1> QED
  BY <1>1, <1>2 DEF Next, Stopped

-----------------------------------------------------------------------------
(* The hook.                                                                 *)

\* Every step keeps HookInv.
LEMMA HookStep ==
  ASSUME TypeOK, ListInv, BusyInv, HookInv, [Next]_vars
  PROVE  HookInv'
<1>0. /\ pass' = pass
      /\ pc \in [Threads -> Labels] /\ hookReady \in [Threads -> BOOLEAN]
      /\ transferred \in [Threads -> SUBSET Values]
  BY Fixed DEF TypeOK
<1>1. CASE Start
  BY <1>0, <1>1 DEF Start, BusyInv, HookInv
<1>2. CASE Finish
  BY <1>0, <1>2 DEF Finish, HookInv
<1>3. CASE \E th \in Threads : Worker(th)
  <2>1. PICK th \in Threads : Worker(th)
    BY <1>3
  <2>2. /\ hookReady' = hookReady
        /\ \A t \in Threads \ {th} : pc'[t] = pc[t] /\ transferred'[t] = transferred[t]
    <3>1. hookReady' = hookReady
      BY <2>1, PoolTypes
    <3>2. \A t \in Threads \ {th} : pc'[t] = pc[t]
      BY <1>0, <2>1
         DEF Worker, Take, Filter, FfiRelevance, SearchCallGraph, Reset, Lock, ZoneGate,
             AnalyzeFails, Analyze, Skip, Goto, Unlock
    <3>3. \A t \in Threads \ {th} : transferred'[t] = transferred[t]
      BY <1>0, <2>1
         DEF Worker, Take, Filter, FfiRelevance, SearchCallGraph, Reset, Lock, ZoneGate,
             AnalyzeFails, Analyze, ResetHooks, DispatchHooks, hookVars
    <3> QED
      BY <3>1, <3>2, <3>3
  <2> DEFINE Clean == pass # "pointer_ownership" \/ ~ hookReady[th]
  <2>3. SUFFICES ASSUME Clean \/ pc'[th] = "analyze"
                 PROVE  transferred'[th] = {}
    BY <1>0, <2>2 DEF HookInv
  <2>4. Clean => transferred[th] = {}
    BY DEF HookInv
  <2>5. CASE Reset(th)
    BY <1>0, <2>3, <2>4, <2>5 DEF Reset, ResetHooks, Goto
  <2>6. CASE ZoneGate(th)
    BY <1>0, <2>3, <2>4, <2>6 DEF ZoneGate, ResetHooks, Skip, Goto
  <2>7. CASE AnalyzeFails(th) \/ Analyze(th)
    <3>1. pc'[th] = "idle"
      BY <1>0, <2>7 DEF AnalyzeFails, Analyze, Unlock, Goto
    <3>2. Clean => transferred' = transferred
      BY <2>7 DEF AnalyzeFails, Analyze, DispatchHooks
    <3> QED
      BY <2>3, <2>4, <3>1, <3>2
  <2>8. CASE Lock(th)
    BY <1>0, <2>3, <2>4, <2>8 DEF Lock, Goto, hookVars
  <2>9. CASE Take(th) \/ Filter(th) \/ FfiRelevance(th) \/ SearchCallGraph(th)
    <3>1. pc'[th] # "analyze" /\ transferred' = transferred
      BY <1>0, <2>9, ListFacts
         DEF Take, Filter, FfiRelevance, SearchCallGraph, Skip, Goto, AfterFilter,
             AllPasses, hookVars
    <3> QED
      BY <2>3, <2>4, <3>1
  <2> QED
    BY <2>1, <2>5, <2>6, <2>7, <2>8, <2>9 DEF Worker
<1>4. CASE UNCHANGED vars
  BY <1>4 DEF vars, HookInv
<1> QED
  BY <1>1, <1>2, <1>3, <1>4 DEF Next, Stopped

\* In the thread whose hook is ready, an analysis ends with what its function
\* leaves open; in any other thread, and any other pass, with nothing.
LEMMA AnalysisLeaves ==
  ASSUME TypeOK, ListInv, BusyInv, HookInv, NEW th \in Threads, pc[th] = "analyze",
         DispatchHooks(th, functions[cur[th]])
  PROVE  transferred'[th] = IF hookReady[th] /\ pass = "pointer_ownership"
                            THEN LeftOpen(functions[cur[th]].calls) ELSE {}
<1>1. transferred[th] = {} /\ transferred \in [Threads -> SUBSET Values]
  BY DEF HookInv, TypeOK
<1>2. functions[cur[th]].calls \in Seq(Call)
  BY Working
<1>3. FoldLeft(RustOwnershipHook, {}, functions[cur[th]].calls)
        = LeftOpen(functions[cur[th]].calls)
  BY <1>2, HookLeavesOpen
<1> QED
  BY <1>1, <1>3 DEF DispatchHooks

\* Every step keeps ReportsOwnTransfers.
LEMMA OwnStep ==
  ASSUME TypeOK, ListInv, BusyInv, HookInv, ReportsOwnTransfers, [Next]_vars
  PROVE  ReportsOwnTransfers'
<1>1. functions' = functions
  BY Fixed
<1>2. CASE reported' = reported
  BY <1>1, <1>2 DEF ReportsOwnTransfers
<1>3. CASE \E th \in Threads : Analyze(th)
  <2>1. PICK th \in Threads : Analyze(th)
    BY <1>3
  <2>2. /\ pc[th] = "analyze" /\ DispatchHooks(th, functions[cur[th]])
        /\ reported' = IF transferred'[th] # {} THEN reported \cup {cur[th]} ELSE reported
    BY <2>1 DEF Analyze
  <2>3. transferred'[th] # {} => LeftOpen(functions[cur[th]].calls) # {}
    BY <2>2, AnalysisLeaves
  <2> QED
    BY <1>1, <2>2, <2>3 DEF ReportsOwnTransfers
<1> QED
  BY <1>2, <1>3 DEF Next, Start, Finish, Stopped, vars, countVars, Worker, Take, Filter,
                    FfiRelevance, SearchCallGraph, Reset, Lock, ZoneGate, AnalyzeFails

-----------------------------------------------------------------------------
(* The reports.                                                              *)

\* Every step keeps ReportInv.
LEMMA ReportStep ==
  ASSUME TypeOK, ListInv, BusyInv, HookInv, ReportInv, [Next]_vars
  PROVE  ReportInv'
<1> DEFINE Path(t, i) == pc[t] \notin {"idle", "call_graph", "reset"} /\ cur[t] = i
           Open(i) == i \in DOMAIN functions /\ LeavesTransferOpen(functions[i])
<1>0. /\ pass' = pass /\ functions' = functions
      /\ pc \in [Threads -> Labels] /\ cur \in [Threads -> 0 .. MaxFunctions]
      /\ todo \subseteq DOMAIN functions
      /\ Sequential' = Sequential
      /\ \A i : Open(i)' <=> Open(i)
  BY Fixed DEF TypeOK, Sequential, LeavesTransferOpen, Filtered
<1>1. CASE Start
  <2>1. mpc' = "running" => todo' = 1 .. Len(functions)
    BY <1>1 DEF Start
  <2>2. DOMAIN functions = 1 .. Len(functions) /\ mpc' # "done"
    BY <1>1, ListFacts DEF Start
  <2> QED
    BY <1>0, <2>1, <2>2 DEF ReportInv
<1>2. CASE Finish
  <2>1. /\ mpc = "running" /\ todo' = todo /\ pc' = pc /\ cur' = cur
        /\ reported' = reported /\ functions' = functions
    BY <1>2 DEF Finish, countVars
  <2> QED
    BY <1>0, <2>1 DEF ReportInv
<1>3. CASE \E th \in Threads : Worker(th)
  <2>1. PICK th \in Threads : Worker(th)
    BY <1>3
  <2>2. mpc = "running"
    BY <2>1, Working
       DEF Worker, Take, Filter, FfiRelevance, SearchCallGraph, Reset, Lock,
           ZoneGate, AnalyzeFails, Analyze
  <2>3. SUFFICES ASSUME Sequential, NEW i, Open(i)
                 PROVE  i \in todo' \/ i \in reported' \/ \E t \in Threads : Path(t, i)'
    BY <1>0 DEF ReportInv
  <2>4. i \in todo \/ i \in reported \/ \E t \in Threads : Path(t, i)
    BY <2>2, <2>3 DEF ReportInv
  <2>5. /\ pass = "pointer_ownership" /\ ~ Filtered(functions[i])
        /\ functions[i].ffi /\ ~ functions[i].release /\ ~ ZoneSkips(functions[i])
        /\ ~ functions[i].fails /\ LeftOpen(functions[i].calls) # {}
    BY <2>3 DEF LeavesTransferOpen
  <2>6. /\ \A t \in Threads \ {th} : pc'[t] = pc[t] /\ cur'[t] = cur[t]
        /\ reported \subseteq reported'
    BY <1>0, <2>1
       DEF Worker, Take, Filter, FfiRelevance, SearchCallGraph, Reset, Lock, ZoneGate,
           AnalyzeFails, Analyze, Skip, Goto, Unlock, countVars
  <2>7. CASE i \in reported \/ \E t \in Threads \ {th} : Path(t, i)
    BY <2>6, <2>7
  <2>8. CASE i \in todo
    <3>1. CASE Take(th)
      BY <1>0, <2>8, <3>1 DEF Take
    <3>2. CASE ~ Take(th)
      <4>1. todo' = todo
        BY <2>1, <3>2
           DEF Worker, Filter, FfiRelevance, SearchCallGraph, Reset, Lock, ZoneGate,
               AnalyzeFails, Analyze, poolVars
      <4> QED
        BY <2>8, <4>1
    <3> QED
      BY <3>1, <3>2
  <2>9. CASE Path(th, i)
    <3>1. th = Main /\ hookReady[th]
      BY <2>2, <2>3, <2>5, <2>9, ThreadFacts, Working DEF BusyInv
    <3>2. CASE Filter(th)
      BY <1>0, <2>5, <2>9, <3>2 DEF Filter, Goto, AfterFilter
    <3>3. CASE FfiRelevance(th)
      BY <1>0, <2>5, <2>9, <3>3 DEF FfiRelevance, Goto
    <3>4. CASE Lock(th)
      BY <1>0, <2>5, <2>9, <3>4 DEF Lock, Goto
    <3>5. CASE ZoneGate(th)
      BY <1>0, <2>5, <2>9, <3>5 DEF ZoneGate, Goto
    <3>6. CASE AnalyzeFails(th)
      BY <2>5, <2>9, <3>6 DEF AnalyzeFails
    <3>7. CASE Analyze(th)
      <4>1. /\ pc[th] = "analyze" /\ DispatchHooks(th, functions[cur[th]])
            /\ reported' = IF transferred'[th] # {} THEN reported \cup {cur[th]}
                           ELSE reported
        BY <3>7 DEF Analyze
      <4>2. transferred'[th] # {}
        BY <2>5, <2>9, <3>1, <4>1, AnalysisLeaves
      <4> QED
        BY <2>9, <4>1, <4>2
    <3>8. CASE Take(th) \/ SearchCallGraph(th) \/ Reset(th)
      BY <2>9, <3>8 DEF Take, SearchCallGraph, Reset
    <3> QED
      BY <2>1, <3>2, <3>3, <3>4, <3>5, <3>6, <3>7, <3>8 DEF Worker
  <2> QED
    BY <2>4, <2>7, <2>8, <2>9
<1>4. CASE UNCHANGED vars
  BY <1>0, <1>4 DEF vars, ReportInv
<1> QED
  BY <1>1, <1>2, <1>3, <1>4 DEF Next, Stopped

-----------------------------------------------------------------------------
(* The counters.                                                             *)

\* The smaller of two numbers.
LEMMA MinPair ==
  ASSUME NEW a \in Nat, NEW b \in Nat
  PROVE  Min({a, b}) = IF a <= b THEN a ELSE b
<1>1. \E x \in {a, b} : \A y \in {a, b} : x <= y
  OBVIOUS
<1>2. Min({a, b}) \in {a, b} /\ \A y \in {a, b} : Min({a, b}) <= y
  BY <1>1 DEF Min
<1> QED
  BY <1>2

\* The sets that are counted are finite.
LEMMA FiniteCounts ==
  ASSUME TypeOK, ListInv
  PROVE  /\ IsFiniteSet(todo) /\ Cardinality(todo) \in Nat
         /\ IsFiniteSet(Busy) /\ Cardinality(Busy) \in Nat
         /\ Counted \in Nat /\ \A o \in Counters : Total(o) \in Nat
<1>1. IsFiniteSet(todo)
  BY ListFacts, FS_Subset DEF TypeOK
<1>2. IsFiniteSet(Busy)
  BY ThreadFacts, FS_Subset DEF Busy
<1>3. Cardinality(todo) \in Nat /\ Cardinality(Busy) \in Nat
  BY <1>1, <1>2, FS_CardinalityType
<1>4. \A o \in Counters : Total(o) \in Nat
  BY TotalFacts DEF TypeOK
<1> QED
  BY <1>1, <1>2, <1>3, <1>4 DEF Counted, Counters

\* A worker function that returns counts its function once.
LEMMA ReturnCounts ==
  ASSUME TypeOK, ListInv, NEW th \in Threads, pc[th] # "idle", Goto(th, "idle"),
         NEW o \in Counters, Count(th, o)
  PROVE  /\ Counted' = Counted + 1
         /\ Cardinality(Busy') = Cardinality(Busy) - 1
<1>1. Busy' = Busy \ {th} /\ th \in Busy
  BY DEF Busy, Goto, TypeOK
<1>2. Cardinality(Busy') = Cardinality(Busy) - 1
  BY <1>1, FiniteCounts, FS_RemoveElement
<1>3. Total(o)' = Total(o) + 1 /\ \A p \in Counters : p # o => Total(p)' = Total(p)
  BY CountOne DEF TypeOK
<1>4. Counted' = Counted + 1
  <2>1. \A p \in Counters : Total(p) \in Nat
    BY FiniteCounts
  <2> QED
    BY <1>3, <2>1 DEF Counted, Counters
<1> QED
  BY <1>2, <1>4

\* A return that analyses nothing keeps CountInv.
LEMMA ReturnStep ==
  ASSUME TypeOK, ListInv, BusyInv, CountInv, NEW th \in Threads, pc[th] # "idle",
         Goto(th, "idle"), NEW o \in {"skipped", "errored"}, Count(th, o),
         UNCHANGED <<mpc, functions, pass, todo, slots>>,
         degraded' = IF o = "errored" THEN degraded + 1 ELSE degraded
  PROVE  CountInv'
<1>1. o \in Counters /\ "analyzed" \in Counters /\ "errored" \in Counters
  BY DEF Counters
<1>2. Counted' = Counted + 1 /\ Cardinality(Busy') = Cardinality(Busy) - 1
  BY <1>1, ReturnCounts
<1>3. Total(o)' = Total(o) + 1 /\ \A p \in Counters : p # o => Total(p)' = Total(p)
  BY <1>1, CountOne DEF TypeOK
<1>4. Total("analyzed")' = Total("analyzed")
  BY <1>1, <1>3
<1>5. degraded' = Total("errored")'
  BY <1>1, <1>3 DEF CountInv
<1>6. mpc = "running" /\ mpc' = mpc
  BY Working
<1>7. Cardinality(todo') + Cardinality(Busy') + Counted' = Len(functions')
  BY <1>2, <1>6, FiniteCounts DEF CountInv
<1>8. pass \in {"callback_escape", "ptr_lifetime"} =>
        slots' = Min({SlotLimit, Total("analyzed")'})
  BY <1>4 DEF CountInv
<1> QED
  BY <1>5, <1>6, <1>7, <1>8 DEF CountInv

\* A step within a worker function keeps CountInv.
LEMMA WithinStep ==
  ASSUME TypeOK, CountInv, NEW th \in Threads, pc[th] # "idle",
         NEW label, label # "idle", Goto(th, label),
         UNCHANGED <<mpc, functions, pass, todo, results, degraded, slots>>
  PROVE  CountInv'
<1>1. Busy' = Busy
  BY DEF Busy, Goto, TypeOK
<1>2. Counted' = Counted /\ \A o : Total(o)' = Total(o)
  BY TotalFacts DEF Counted
<1> QED
  BY <1>1, <1>2 DEF CountInv

\* The statistics of an analysed function get a slot where one is left.
LEMMA StatsStep ==
  ASSUME TypeOK, ListInv, BusyInv, CountInv, NEW th \in Threads, Analyze(th)
  PROVE  CountInv'
<1>1. "analyzed" \in Counters /\ "errored" \in Counters
  BY DEF Counters
<1>2. /\ pc[th] # "idle" /\ Goto(th, "idle") /\ Count(th, "analyzed")
      /\ UNCHANGED <<mpc, functions, pass, todo, degraded>> /\ StoreStats
  BY DEF Analyze, Unlock, poolVars
<1>3. Counted' = Counted + 1 /\ Cardinality(Busy') = Cardinality(Busy) - 1
  BY <1>1, <1>2, ReturnCounts
<1>4. Total("analyzed")' = Total("analyzed") + 1 /\ Total("errored")' = Total("errored")
  BY <1>1, <1>2, CountOne DEF TypeOK
<1>5. mpc = "running" /\ mpc' = mpc
  BY <1>2, Working
<1>6. Cardinality(todo') + Cardinality(Busy') + Counted' = Len(functions')
  BY <1>2, <1>3, <1>5, FiniteCounts DEF CountInv
<1>7. ASSUME pass \in {"callback_escape", "ptr_lifetime"}
      PROVE  slots' = Min({SlotLimit, Total("analyzed")'})
  <2>1. Total("analyzed") \in Nat /\ SlotLimit \in Nat
    BY <1>1, FiniteCounts, BoundsAssumption
  <2>2. slots = IF SlotLimit <= Total("analyzed") THEN SlotLimit ELSE Total("analyzed")
    BY <1>7, <2>1, MinPair DEF CountInv
  <2>3. slots' = IF slots < SlotLimit THEN slots + 1 ELSE slots
    BY <1>2, <1>7 DEF StoreStats
  <2>4. Min({SlotLimit, Total("analyzed") + 1})
          = IF SlotLimit <= Total("analyzed") + 1 THEN SlotLimit ELSE Total("analyzed") + 1
    BY <2>1, MinPair
  <2> QED
    BY <1>4, <2>1, <2>2, <2>3, <2>4
<1> QED
  BY <1>2, <1>4, <1>5, <1>6, <1>7 DEF CountInv

\* Every step keeps CountInv.
LEMMA CountStep ==
  ASSUME TypeOK, ListInv, BusyInv, CountInv, [Next]_vars
  PROVE  CountInv'
<1>1. CASE Start
  <2>1. UNCHANGED <<functions, pass, results, degraded, slots, pc>> /\ mpc = "start"
    BY <1>1 DEF Start, countVars
  <2>2. Counted' = Counted /\ \A o : Total(o)' = Total(o)
    BY <2>1, TotalFacts DEF Counted
  <2>3. mpc' = "running" => todo' = 1 .. Len(functions)
    BY <1>1 DEF Start
  <2>4. Cardinality(1 .. Len(functions)) = Len(functions) /\ Len(functions) \in Nat
    <3>1. Len(functions) \in Nat
      BY ListFacts
    <3>2. 1 \in Int /\ Len(functions) \in Int
      BY <3>1
    <3>3. Cardinality(1 .. Len(functions))
            = IF 1 > Len(functions) THEN 0 ELSE Len(functions) - 1 + 1
      BY <3>2, FS_Interval
    <3> QED
      BY <3>1, <3>3
  <2>5. Busy' = {} /\ Cardinality({}) = 0
    BY <2>1, FS_EmptySet DEF Busy, BusyInv
  <2>6. Counted = 0 /\ mpc' \notin {"start", "done"}
    BY <1>1, <2>1 DEF Start, CountInv
  <2>7. mpc' = "running" => Cardinality(todo') + Cardinality(Busy') + Counted' = Len(functions)
    BY <2>2, <2>3, <2>4, <2>5, <2>6
  <2> QED
    BY <2>1, <2>2, <2>6, <2>7 DEF CountInv
<1>2. CASE Finish
  <2>1. /\ UNCHANGED <<functions, pass, results, degraded, slots, pc, todo>>
        /\ mpc = "running" /\ mpc' = "done"
    BY <1>2 DEF Finish, countVars
  <2>2. Counted' = Counted /\ Busy' = Busy /\ \A o : Total(o)' = Total(o)
    BY <2>1, TotalFacts DEF Counted, Busy
  <2> QED
    BY <2>1, <2>2 DEF CountInv
<1>3. CASE \E th \in Threads : Worker(th)
  <2>1. PICK th \in Threads : Worker(th)
    BY <1>3
  <2>11. "skipped" \in {"skipped", "errored"} /\ "errored" \in {"skipped", "errored"}
    OBVIOUS
  <2>2. CASE Take(th)
    <3>1. PICK i \in todo : todo' = todo \ {i}
      BY <2>2 DEF Take
    <3>2. /\ mpc = "running" /\ pc[th] = "idle" /\ pc' = [pc EXCEPT ![th] = "filter"]
          /\ UNCHANGED <<mpc, functions, pass, results, degraded, slots>>
      BY <2>2 DEF Take, countVars
    <3>3. Busy' = Busy \cup {th} /\ th \notin Busy
      BY <3>2 DEF Busy, TypeOK
    <3>4. Cardinality(todo') = Cardinality(todo) - 1
      BY <3>1, FiniteCounts, FS_RemoveElement
    <3>5. Cardinality(Busy') = Cardinality(Busy) + 1
      BY <3>3, FiniteCounts, FS_AddElement
    <3>6. Counted' = Counted /\ \A o : Total(o)' = Total(o)
      BY <3>2, TotalFacts DEF Counted
    <3>7. Cardinality(todo') + Cardinality(Busy') + Counted' = Len(functions)
      BY <3>2, <3>4, <3>5, <3>6, FiniteCounts DEF CountInv
    <3> QED
      BY <3>2, <3>6, <3>7 DEF CountInv
  <2>3. CASE Filter(th)
    <3>1. CASE Filtered(functions[cur[th]])
      BY <2>3, <2>11, <3>1, ReturnStep DEF Filter, Skip, poolVars
    <3>2. CASE ~ Filtered(functions[cur[th]])
      <4>1. AfterFilter # "idle"
        BY ListFacts DEF AfterFilter, AllPasses
      <4> QED
        BY <2>3, <3>2, <4>1, WithinStep DEF Filter, poolVars
    <3> QED
      BY <3>1, <3>2
  <2>4. CASE FfiRelevance(th)
    <3>1. CASE Skip(th)
      BY <2>4, <2>11, <3>1, ReturnStep DEF FfiRelevance, Skip, poolVars
    <3>2. CASE Goto(th, "lock") /\ UNCHANGED results
      BY <2>4, <3>2, WithinStep DEF FfiRelevance, poolVars
    <3> QED
      BY <2>4, <3>1, <3>2 DEF FfiRelevance
  <2>5. CASE SearchCallGraph(th)
    BY <2>5, WithinStep DEF SearchCallGraph, poolVars, countVars
  <2>6. CASE Reset(th)
    BY <2>6, WithinStep DEF Reset, poolVars, countVars
  <2>7. CASE Lock(th)
    BY <2>7, WithinStep DEF Lock, poolVars
  <2>8. CASE ZoneGate(th)
    <3>1. CASE Skip(th)
      BY <2>8, <2>11, <3>1, ReturnStep DEF ZoneGate, Skip, poolVars
    <3>2. CASE Goto(th, "analyze") /\ UNCHANGED results
      BY <2>8, <3>2, WithinStep DEF ZoneGate, poolVars
    <3> QED
      BY <2>8, <3>1, <3>2 DEF ZoneGate
  <2>9. CASE AnalyzeFails(th)
    BY <2>9, <2>11, ReturnStep DEF AnalyzeFails, Unlock, poolVars
  <2>10. CASE Analyze(th)
    BY <2>10, StatsStep
  <2> QED
    BY <2>1, <2>2, <2>3, <2>4, <2>5, <2>6, <2>7, <2>8, <2>9, <2>10 DEF Worker
<1>4. CASE UNCHANGED vars
  <2>1. UNCHANGED <<functions, pass, results, degraded, slots, pc, todo, mpc>>
    BY <1>4 DEF vars
  <2>2. Counted' = Counted /\ Busy' = Busy /\ \A o : Total(o)' = Total(o)
    BY <2>1, TotalFacts DEF Counted, Busy
  <2> QED
    BY <2>1, <2>2 DEF CountInv
<1> QED
  BY <1>1, <1>2, <1>3, <1>4 DEF Next, Stopped

-----------------------------------------------------------------------------
(* The theorems.                                                             *)

\* The invariant holds at first.
LEMMA InitInv ==
  ASSUME Init
  PROVE  Inv
<1>1. PICK len \in 0 .. MaxFunctions : functions \in [1 .. len -> FunctionKinds[pass]]
  BY DEF Init
<1>2. ListInv
  <2>1. len \in Nat /\ functions \in Seq(FunctionKinds[pass]) /\ Len(functions) = len
    BY <1>1, BoundsAssumption
  <2> QED
    BY <2>1 DEF ListInv
<1>3. TypeOK
  BY <1>1, ThreadFacts, BoundsAssumption DEF Init, TypeOK, Labels
<1>4. BusyInv /\ MutexInv /\ HookInv /\ ReportInv /\ ReportsOwnTransfers
  BY ThreadFacts DEF Init, BusyInv, MutexInv, Locked, HookInv, ReportInv, ReportsOwnTransfers
<1>5. \A o \in Counters : Total(o) = 0
  <2> TAKE o \in Counters
  <2> DEFINE f == [th \in Threads |-> results[th][o]]
  <2>1. DOMAIN f = Threads /\ \A th \in Threads : f[th] = 0
    BY DEF Init
  <2>2. Total(o) = SumFunctionOnSet(f, Threads)
    BY <2>1 DEF Total, SumFunction
  <2> HIDE DEF f
  <2> QED
    BY <2>1, <2>2, ThreadFacts, SumZero
<1>6. CountInv
  <2>1. Total("errored") = 0 /\ Total("analyzed") = 0 /\ Counted = 0
    BY <1>5 DEF Counted, Counters
  <2>2. Min({SlotLimit, 0}) = 0
    BY BoundsAssumption, MinPair
  <2> QED
    BY <2>1, <2>2 DEF CountInv, Init
<1> QED
  BY <1>2, <1>3, <1>4, <1>6 DEF Inv

\* The invariant is inductive.
LEMMA InvStep ==
  ASSUME Inv, [Next]_vars
  PROVE  Inv'
<1>1. TypeOK' /\ ListInv' /\ BusyInv' /\ MutexInv'
  BY TypeStep, ListStep, BusyStep, MutexStep DEF Inv
<1>2. HookInv' /\ CountInv' /\ ReportInv' /\ ReportsOwnTransfers'
  BY HookStep, CountStep, ReportStep, OwnStep DEF Inv
<1> QED
  BY <1>1, <1>2 DEF Inv

LEMMA Inductive == Spec => []Inv
<1>1. Init => Inv
  BY InitInv
<1>2. Inv /\ [Next]_vars => Inv'
  BY InvStep
<1> QED
  BY <1>1, <1>2, PTL DEF Spec

(* The variables keep their types: a thread works on a function of the list,  *)
(* the hook's maps hold pointers the calls name, and the statistics never     *)
(* outgrow their array.                                                       *)
THEOREM TypeCorrect == Spec => []TypeOK
<1>1. Inv => TypeOK
  BY DEF Inv
<1> QED
  BY <1>1, Inductive, PTL

(* No two threads analyse a function, or pass the zone gate, at a time: what   *)
(* the analyses of a pass share is touched under the mutex only.             *)
OneAnalysisAtATime ==
  \A th, tk \in Threads : Locked(th) /\ Locked(tk) => th = tk

THEOREM AnalysesExclude == Spec => []OneAnalysisAtATime
<1>1. Inv => OneAnalysisAtATime
  BY DEF Inv, MutexInv, OneAnalysisAtATime
<1> QED
  BY <1>1, Inductive, PTL

(* Whatever threads run the functions and however their steps interleave,    *)
(* the degraded functions are at every moment the errored ones, and when the *)
(* pass is done every function was counted exactly once and the statistics   *)
(* miss one only where the array is full.                                    *)
THEOREM EveryOutcomeRecorded == Spec => []OutcomesRecorded
<1>1. Inv => OutcomesRecorded
  <2> SUFFICES ASSUME Inv PROVE OutcomesRecorded
    OBVIOUS
  <2>1. TypeOK /\ ListInv /\ BusyInv /\ CountInv
    BY DEF Inv
  <2>2. ASSUME mpc = "done" PROVE Counted = Len(functions)
    <3>1. todo = {} /\ Busy = {} /\ Cardinality({}) = 0
      BY <2>1, <2>2, FS_EmptySet DEF BusyInv, Busy
    <3> QED
      BY <2>1, <2>2, <3>1, FiniteCounts DEF CountInv
  <2> QED
    BY <2>1, <2>2 DEF OutcomesRecorded, CountInv, Counted
<1> QED
  BY <1>1, Inductive, PTL

(* A function is reported only for a transfer it leaves unpaired itself: the  *)
(* hook state of an earlier function never reaches it, on any thread.         *)
THEOREM NoForeignReports == Spec => []ReportsOwnTransfers
<1>1. Inv => ReportsOwnTransfers
  BY DEF Inv
<1> QED
  BY <1>1, Inductive, PTL

(* When the pool runs on the pass's own thread, every function the ownership  *)
(* pass analyses to the end and that leaves a transfer unpaired is reported.  *)
THEOREM SequentialPassReports == Spec => []UnpairedReportedSequentially
<1>1. Inv => UnpairedReportedSequentially
  BY DEF Inv, UnpairedReportedSequentially, UnpairedReported, ReportInv, BusyInv
<1> QED
  BY <1>1, Inductive, PTL
=============================================================================
