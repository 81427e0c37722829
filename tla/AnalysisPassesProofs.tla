------------------------- MODULE AnalysisPassesProofs -------------------------
(***************************************************************************)
(* The passes of a pipeline under the pass manager.  The first part holds   *)
(* for any passes of different names: what the manager promises is true of  *)
(* them, and a pass finds the tables of every pass upstream of it, since    *)
(* the passes that have run are the beginning of a schedule and so contain, *)
(* with a pass, what it waits for.                                          *)
(*                                                                         *)
(* The second part is about the orders that no pass declares: they follow   *)
(* from the order of registration and from swapRemove.  A trace lists the   *)
(* order Kahn's algorithm takes, with the queue after every round; a list   *)
(* of numbers that satisfies IsTrace is followed step by step (TraceStep),  *)
(* whatever the pipeline.  The third part gives the traces of the two       *)
(* pipelines there are and concludes about the tables.                      *)
(***************************************************************************)
EXTENDS AnalysisPasses, PassManagerProofs

\* Pass i names pass j among its dependencies.
WaitsFor(i, j) == \E k \in DOMAIN registered[i].deps : registered[i].deps[k] = registered[j].name

\* With a pass, the set contains the passes that one waits for.
ClosedUnder(S) == \A i \in S, j \in DOMAIN registered : WaitsFor(i, j) => j \in S

\* The passes that pass i waits for, directly or through others.
Upstream(i) ==
  {j \in DOMAIN registered :
     \A S \in SUBSET DOMAIN registered :
       ClosedUnder(S) /\ (\A h \in DOMAIN registered : WaitsFor(i, h) => h \in S) => j \in S}

(* A pass reads a table before it is filled only if every pass upstream of  *)
(* it that fills the table failed (PassContext, pass_types.zig).            *)
UpstreamFills ==
  \A s \in starved, i \in DOMAIN registered :
    registered[i].name = s[1] =>
      \A j \in Upstream(i) : s[2] \in registered[j].writes => registered[j].name \in failed

\* The passes the manager knows are the first ones of the pipeline.
PipelineInv ==
  /\ registered \in Pipelines
  /\ Len(passes) <= Len(registered)
  /\ \A i \in Indices : /\ passes[i].name = registered[i].name
                        /\ passes[i].deps = registered[i].deps
                        /\ pass_map[passes[i].name] = i

\* What a pass that has run left behind.
Settled(i, ok) ==
  IF ok THEN registered[i].writes \subseteq table ELSE registered[i].name \in failed
RanInv == \A k \in 1 .. Len(ran) : Settled(ran[k].pass, ran[k].ok)

TablesInv ==
  /\ table \subseteq UNION {registered[i].writes : i \in DOMAIN registered}
  /\ failed \subseteq {registered[i].name : i \in DOMAIN registered}

\* Only a table that a pass reads can be missing.
StarvedInv ==
  \A s \in starved : \E i \in DOMAIN registered :
    registered[i].name = s[1] /\ s[2] \in registered[i].reads

ContextInv == PipelineInv /\ RanInv /\ TablesInv /\ StarvedInv /\ UpstreamFills

-----------------------------------------------------------------------------
(* What is known of a pipeline and of the passes registered so far.         *)
LEMMA PipelineFacts ==
  ASSUME Inv, PipelineInv
  PROVE  /\ DOMAIN registered = 1 .. Len(registered) /\ Len(registered) \in Nat
         /\ Indices \subseteq DOMAIN registered /\ DOMAIN passes = Indices
         /\ \A i \in DOMAIN registered : /\ registered[i].name \in Names
                                         /\ registered[i].deps \in DepLists
         /\ \A i, j \in DOMAIN registered : registered[i].name = registered[j].name => i = j
<1> DEFINE T == [name : Names, deps : DepLists, reads : SUBSET Tables, writes : SUBSET Tables]
<1>1. /\ registered \in Seq(T)
      /\ \A i, j \in DOMAIN registered : registered[i].name = registered[j].name => i = j
  BY PipelinesAssumption DEF PipelineInv
<1>2. \A x \in T : x.name \in Names /\ x.deps \in DepLists
  OBVIOUS
<1> HIDE DEF T
<1>3. DOMAIN registered = 1 .. Len(registered) /\ Len(registered) \in Nat
  BY <1>1, LenProperties
<1>4. \A i \in DOMAIN registered : registered[i] \in T
  BY <1>1, <1>3, ElementOfSeq
<1>5. Len(passes) \in Nat
  BY IndexFacts DEF Inv
<1>6. DOMAIN passes = Indices
  <2> DEFINE R == [name : Names, deps : DepLists]
  <2>1. passes \in Seq(R)
    BY DEF Inv, TypeOK, RegistryOK
  <2> HIDE DEF R
  <2> QED
    BY <2>1, LenProperties DEF Indices
<1> QED
  BY <1>1, <1>2, <1>3, <1>4, <1>5, <1>6 DEF PipelineInv, Indices

(* A step of a pipeline is one of the manager.                              *)
LEMMA StepIsManagerStep ==
  ASSUME Inv, PipelineInv, [ContextStep]_allVars
  PROVE  [Next]_vars
<1>1. CASE RegisterNext
  <2> DEFINE p == registered[Len(passes) + 1]
  <2>1. Len(passes) + 1 \in DOMAIN registered /\ RegisterPass(p.name, p.deps)
    BY <1>1, PipelineFacts, IndexFacts DEF RegisterNext, Inv
  <2> QED
    BY <2>1, PipelineFacts DEF Next
<1>2. CASE StartRun
  BY <1>2 DEF StartRun, Next
<1>3. CASE ResolveStep
  BY <1>3 DEF ResolveStep, Next, Step
<1>4. CASE RunRegistered
  BY <1>4 DEF RunRegistered, Next, Step
<1>5. CASE EndOfRun
  BY <1>5 DEF EndOfRun, Next, Step
<1>6. CASE UNCHANGED allVars
  BY <1>6 DEF allVars
<1> QED
  BY <1>1, <1>2, <1>3, <1>4, <1>5, <1>6 DEF ContextStep

(* A pass that is registered is the next one of the pipeline.               *)
LEMMA RegisterKeepsPipeline ==
  ASSUME Inv, PipelineInv, RegisterNext
  PROVE  PipelineInv'
<1> DEFINE n == Len(passes) + 1
           p == registered[n]
           R == [name : Names, deps : DepLists]
           entry == [name |-> p.name, deps |-> p.deps]
<1>1. /\ n \in DOMAIN registered /\ n \in Nat /\ Len(passes) \in Nat /\ n = Len(passes) + 1
      /\ registered' = registered /\ n <= Len(registered) /\ p = registered[n]
  BY PipelineFacts, IndexFacts DEF RegisterNext, Inv
<1>2. /\ passes' = Append(passes, entry)
      /\ pass_map' = [m \in DOMAIN pass_map \cup {p.name} |-> IF m = p.name THEN n ELSE pass_map[m]]
  BY DEF RegisterNext, RegisterPass
<1>3. passes \in Seq(R) /\ entry \in R
  BY <1>1, PipelineFacts DEF Inv, TypeOK, RegistryOK
<1>4. \A i \in Indices : passes[i].name \in DOMAIN pass_map
  BY DEF Inv, TypeOK, RegistryOK
<1> HIDE DEF n, R
<1>5. /\ Len(passes') = n /\ passes'[n] = entry
      /\ \A i \in 1 .. Len(passes) : passes'[i] = passes[i]
  BY <1>1, <1>2, <1>3
<1>6. Indices' = 1 .. n /\ \A i \in 1 .. n : i \in Indices \/ i = n
  BY <1>1, <1>5 DEF Indices
<1>7. ASSUME NEW i \in Indices
      PROVE  /\ passes'[i].name = registered[i].name /\ passes'[i].deps = registered[i].deps
             /\ pass_map'[passes'[i].name] = i
  <2>1. passes'[i] = passes[i] /\ i \in 1 .. Len(passes)
    BY <1>5 DEF Indices
  <2>2. i \in DOMAIN registered /\ i # n
    BY <1>1, <2>1, PipelineFacts
  <2>3. passes[i].name = registered[i].name /\ passes[i].name # p.name
    BY <1>1, <2>2, PipelineFacts DEF PipelineInv
  <2> QED
    BY <1>2, <1>4, <2>1, <2>3 DEF PipelineInv
<1>8. /\ passes'[n].name = registered[n].name /\ passes'[n].deps = registered[n].deps
      /\ pass_map'[passes'[n].name] = n
  BY <1>1, <1>2, <1>5
<1>9. \A i \in Indices' : /\ passes'[i].name = registered'[i].name
                          /\ passes'[i].deps = registered'[i].deps
                          /\ pass_map'[passes'[i].name] = i
  BY <1>1, <1>6, <1>7, <1>8
<1> QED
  BY <1>1, <1>5, <1>9 DEF PipelineInv

(* The passes before position q of a schedule, and what the one at q waits  *)
(* for.                                                                     *)
LEMMA WaitedForRan ==
  ASSUME Inv, PipelineInv, pc = "running",
         NEW q \in 1 .. Len(resolved_order), NEW j \in DOMAIN registered,
         WaitsFor(resolved_order[q], j)
  PROVE  \E p \in 1 .. (q - 1) : resolved_order[p] = j
<1> DEFINE i == resolved_order[q]
<1>1. resolved /\ Ordered(resolved_order)
  BY DEF Inv, RunInv, OrderIsSchedule
<1>2. i \in Indices
  BY <1>1 DEF Ordered
<1>3. passes[i].deps = registered[i].deps
  BY <1>2 DEF PipelineInv
<1>4. PICK k \in DOMAIN passes[i].deps : passes[i].deps[k] = registered[j].name
  BY <1>3 DEF WaitsFor
<1> DEFINE e == <<i, k>>
<1>5. e \in EdgesInto(i) /\ Dep(e) = registered[j].name
  BY <1>4 DEF EdgesInto, Dep
<1>6. /\ Dep(e) \in DOMAIN pass_map
      /\ \E p \in 1 .. (q - 1) : resolved_order[p] = Provider(e)
  BY <1>1, <1>5 DEF Ordered
<1>7. Provider(e) = pass_map[registered[j].name] /\ Provider(e) \in Indices
  BY <1>5, <1>6 DEF Provider, Inv, TypeOK, RegistryOK
<1>8. passes[Provider(e)].name = registered[j].name
  <2>1. PICK h \in Indices : passes[h].name = registered[j].name
    BY <1>5, <1>6 DEF Inv, TypeOK, RegistryOK
  <2> QED
    BY <1>7, <2>1 DEF PipelineInv
<1>9. Provider(e) = j
  BY <1>7, <1>8, PipelineFacts DEF PipelineInv
<1> QED
  BY <1>6, <1>9

(* Everything upstream of the pass that runs next has run.                  *)
LEMMA UpstreamRan ==
  ASSUME Inv, PipelineInv, pc = "running", Len(ran) < Len(resolved_order),
         NEW j \in Upstream(resolved_order[Len(ran) + 1])
  PROVE  \E k \in 1 .. Len(ran) : ran[k].pass = j
<1> DEFINE n == Len(ran)
           S == {ran[k].pass : k \in 1 .. n}
<1>1. /\ n \in Nat /\ Len(resolved_order) \in Nat /\ n + 1 \in 1 .. Len(resolved_order)
      /\ (n + 1) - 1 = n
  BY RunFacts
<1>2. \A k \in 1 .. n : ran[k].pass = resolved_order[k] /\ k \in 1 .. Len(resolved_order)
  BY <1>1 DEF Inv, RunInv
<1>3. S \in SUBSET DOMAIN registered
  <2>1. \A k \in 1 .. Len(resolved_order) : resolved_order[k] \in Indices
    BY DEF Inv, RunInv, OrderIsSchedule, Ordered
  <2> QED
    BY <1>2, <2>1, PipelineFacts
<1> HIDE DEF n
<1>4. ASSUME NEW h \in DOMAIN registered, WaitsFor(resolved_order[n + 1], h)
      PROVE  h \in S
  <2>1. PICK p \in 1 .. ((n + 1) - 1) : resolved_order[p] = h
    BY <1>1, <1>4, WaitedForRan
  <2> QED
    BY <1>1, <1>2, <2>1
<1>5. ASSUME NEW i \in S, NEW h \in DOMAIN registered, WaitsFor(i, h)
      PROVE  h \in S
  <2>1. PICK q \in 1 .. n : i = resolved_order[q]
    BY <1>2
  <2>2. PICK p \in 1 .. (q - 1) : resolved_order[p] = h
    BY <1>2, <1>5, <2>1, WaitedForRan
  <2>3. p \in 1 .. n
    BY <1>1, <2>1, <2>2
  <2> QED
    BY <1>2, <2>2, <2>3
<1>6. j \in S
  BY <1>3, <1>4, <1>5 DEF Upstream, ClosedUnder, n
<1> QED
  BY <1>6 DEF n

(* A pass that runs finds the tables of the passes upstream of it.          *)
LEMMA RunKeepsContext ==
  ASSUME Inv, ContextInv, RunRegistered
  PROVE  ContextInv'
<1>1. PICK ok \in BOOLEAN :
        /\ RunPass(ok) /\ registered' = registered
        /\ LET p == registered[resolved_order[Len(ran) + 1]] IN
             /\ starved' = starved \cup {<<p.name, t>> : t \in p.reads \ table}
             /\ \/ ok /\ table' = table \cup p.writes /\ UNCHANGED failed
                \/ /\ ~ok /\ failed' = failed \cup {p.name}
                   /\ table' \in {table, table \cup p.writes}
  BY DEF RunRegistered
<1> DEFINE n == Len(ran)
           i == resolved_order[n + 1]
           T == [pass : Nat \ {0}, ok : BOOLEAN]
           entry == [pass |-> i, ok |-> ok]
<1>2. /\ pc = "running" /\ n < Len(resolved_order) /\ ran' = Append(ran, entry)
      /\ UNCHANGED <<registry, resolved_order>>
  BY <1>1 DEF RunPass, cache
<1>3. /\ n \in Nat /\ Len(resolved_order) \in Nat /\ n + 1 \in 1 .. Len(resolved_order)
      /\ resolved_order \in Seq(Nat \ {0}) /\ ran \in Seq(T)
  BY <1>2, RunFacts
<1>4. i \in Indices /\ i \in DOMAIN registered
  <2>1. i \in Indices
    BY <1>2, <1>3 DEF Inv, RunInv, OrderIsSchedule, Ordered
  <2> QED
    BY <2>1, PipelineFacts DEF ContextInv
<1>5. entry \in T
  BY <1>3, ElementOfSeq
<1>6. /\ Len(ran') = n + 1 /\ ran'[n + 1] = entry
      /\ \A k \in 1 .. n : ran'[k] = ran[k]
  <2> HIDE DEF T, entry
  <2> QED
    BY <1>2, <1>3, <1>5
<1>7. table \subseteq table' /\ failed \subseteq failed'
  BY <1>1
<1>8. RanInv'
  <2>1. ASSUME NEW k \in 1 .. n + 1, NEW h, h = ran'[k].pass, NEW good, good = ran'[k].ok
        PROVE  Settled(h, good)'
    <3>1. CASE k \in 1 .. n
      <4>1. ran'[k] = ran[k]
        BY <1>6, <3>1
      <4>2. Settled(h, good)
        BY <2>1, <3>1, <4>1 DEF ContextInv, RanInv
      <4> QED
        BY <1>1, <1>7, <4>2 DEF Settled
    <3>2. CASE k = n + 1
      <4>1. h = i /\ good = ok
        BY <1>6, <2>1, <3>2
      <4> QED
        BY <1>1, <4>1 DEF Settled
    <3> QED
      BY <1>3, <3>1, <3>2
  <2> QED
    BY <1>6, <2>1 DEF RanInv
<1>9. PipelineInv'
  BY <1>1, <1>2 DEF ContextInv, PipelineInv, Indices, registry
<1>10. TablesInv'
  BY <1>1, <1>4 DEF ContextInv, TablesInv
<1>11. StarvedInv'
  BY <1>1, <1>4 DEF ContextInv, StarvedInv
<1>12. UpstreamFills'
  <2>1. \A h : Upstream(h)' = Upstream(h)
    BY <1>1 DEF Upstream, ClosedUnder, WaitsFor
  <2>2. SUFFICES ASSUME NEW s \in starved', NEW h \in DOMAIN registered, registered[h].name = s[1],
                        NEW j \in Upstream(h), s[2] \in registered[j].writes
                 PROVE  registered[j].name \in failed'
    BY <1>1, <2>1 DEF UpstreamFills
  <2>3. CASE s \in starved
    BY <1>7, <2>2, <2>3 DEF ContextInv, UpstreamFills
  <2>4. CASE s \notin starved
    <3>1. s[1] = registered[i].name /\ s[2] \notin table
      BY <1>1, <2>2, <2>4
    <3>2. h = i
      BY <1>4, <2>2, <3>1, PipelineFacts DEF ContextInv
    <3>3. PICK k \in 1 .. n : ran[k].pass = j
      BY <1>2, <2>2, <3>2, UpstreamRan DEF ContextInv
    <3>4. Settled(j, ran[k].ok)
      BY <3>3 DEF ContextInv, RanInv
    <3> QED
      BY <1>7, <2>2, <3>1, <3>4 DEF Settled
  <2> QED
    BY <2>3, <2>4
<1> QED
  BY <1>8, <1>9, <1>10, <1>11, <1>12 DEF ContextInv

(* The other steps fill no table and run no pass.                           *)
LEMMA OthersKeepContext ==
  ASSUME Inv, ContextInv, PipelineInv', UNCHANGED <<registered, ctxVars>>,
         ran' = ran \/ ran' = <<>>
  PROVE  ContextInv'
<1>1. \A i, ok : Settled(i, ok)' = Settled(i, ok)
  BY DEF Settled, ctxVars
<1>2. RanInv'
  BY <1>1 DEF ContextInv, RanInv
<1>3. TablesInv' /\ StarvedInv'
  BY DEF ContextInv, TablesInv, StarvedInv, ctxVars
<1>4. UpstreamFills'
  <2>1. \A h : Upstream(h)' = Upstream(h)
    BY DEF Upstream, ClosedUnder, WaitsFor
  <2> QED
    BY <2>1 DEF ContextInv, UpstreamFills, ctxVars
<1> QED
  BY <1>2, <1>3, <1>4 DEF ContextInv

(* Every step keeps what is known of the context.                           *)
LEMMA ContextStepKeeps ==
  ASSUME Inv, ContextInv, [ContextStep]_allVars
  PROVE  ContextInv'
<1>1. CASE RegisterNext
  BY <1>1, RegisterKeepsPipeline, OthersKeepContext DEF RegisterNext, RegisterPass, ContextInv
<1>2. ASSUME UNCHANGED registry, UNCHANGED <<registered, ctxVars>>, ran' = ran \/ ran' = <<>>
      PROVE  ContextInv'
  <2>1. PipelineInv'
    BY <1>2 DEF ContextInv, PipelineInv, Indices, registry
  <2> QED
    BY <1>2, <2>1, OthersKeepContext
<1>3. CASE StartRun
  BY <1>2, <1>3 DEF StartRun, Run, registry
<1>4. CASE ResolveStep
  <2>1. UNCHANGED registry /\ UNCHANGED <<registered, ctxVars>>
    BY <1>4 DEF ResolveStep, Seed, Seeded, Dequeue, Relax, CycleDetected, StoreOrder, registry
  <2>2. ran' = ran \/ ran' = <<>>
    BY <1>4 DEF ResolveStep, Seed, Seeded, Dequeue, Relax, CycleDetected, StoreOrder
  <2> QED
    BY <1>2, <2>1, <2>2
<1>5. CASE RunRegistered
  BY <1>5, RunKeepsContext
<1>6. CASE EndOfRun
  BY <1>2, <1>6 DEF EndOfRun, EndRun
<1>7. CASE UNCHANGED allVars
  BY <1>2, <1>7 DEF allVars, vars
<1> QED
  BY <1>1, <1>3, <1>4, <1>5, <1>6, <1>7 DEF ContextStep

(* Nothing is registered and nothing filled at the start.                   *)
LEMMA InitContext ==
  ASSUME ContextInit
  PROVE  ContextInv
<1>1. Init /\ registered \in Pipelines /\ table = {} /\ starved = {} /\ failed = {}
  BY DEF ContextInit
<1>2. Len(passes) = 0 /\ Len(ran) = 0 /\ Indices = {}
  BY <1>1 DEF Init, Indices
<1>3. Len(registered) \in Nat
  <2> DEFINE T == [name : Names, deps : DepLists, reads : SUBSET Tables, writes : SUBSET Tables]
  <2>1. registered \in Seq(T)
    BY <1>1, PipelinesAssumption
  <2> HIDE DEF T
  <2> QED
    BY <2>1, LenProperties
<1> QED
  BY <1>1, <1>2, <1>3 DEF ContextInv, PipelineInv, RanInv, TablesInv, StarvedInv, UpstreamFills

(* The manager's invariant and the context's hold together.                 *)
LEMMA ContextInvariance == ContextSpec => [](Inv /\ ContextInv)
<1>1. ContextInit => Inv /\ ContextInv
  BY InitInv, InitContext DEF ContextInit
<1>2. Inv /\ ContextInv /\ [ContextStep]_allVars => Inv' /\ ContextInv'
  BY ContextStepKeeps, StepIsManagerStep, NextInv DEF ContextInv
<1> QED
  BY <1>1, <1>2, PTL DEF ContextSpec

-----------------------------------------------------------------------------
(* Whatever pipeline is registered, its scheduling is a behaviour of the     *)
(* pass manager: what is proved of the manager holds of every pipeline.      *)
THEOREM PipelineIsManaged == ContextSpec => Spec
<1>1. ContextInit => Init
  BY DEF ContextInit
<1>2. Inv /\ ContextInv /\ [ContextStep]_allVars => [Next]_vars
  BY StepIsManagerStep DEF ContextInv
<1> QED
  BY <1>1, <1>2, ContextInvariance, PTL DEF ContextSpec, Spec

(* Passes are registered once, in the order of the pipeline, the map leads   *)
(* to each of them, and only their tables are filled.                        *)
THEOREM ContextTypeCorrect == ContextSpec => []ContextTypeOK
<1>1. Inv /\ ContextInv => ContextTypeOK
  <2> SUFFICES ASSUME Inv, ContextInv PROVE ContextTypeOK
    OBVIOUS
  <2>1. TypeOK
    BY DEF Inv
  <2>2. DOMAIN passes = Indices
    BY PipelineFacts DEF ContextInv
  <2> QED
    BY <2>1, <2>2 DEF ContextInv, PipelineInv, TablesInv, ContextTypeOK
<1> QED
  BY <1>1, ContextInvariance, PTL

(* In any pipeline, a pass misses a table only if every pass that fills it   *)
(* and that it waits for, directly or through others, failed.                *)
THEOREM DeclaredProducersSuffice == ContextSpec => []UpstreamFills
<1>1. ContextInv => UpstreamFills
  BY DEF ContextInv
<1> QED
  BY <1>1, ContextInvariance, PTL

-----------------------------------------------------------------------------
(* The order itself.  Kahn's algorithm takes the passes of a pipeline in one *)
(* order, which a trace lists: the passes in that order, the place of each   *)
(* in it, the round after which each waits in the queue, its place there,    *)
(* and the queue before the first round and after each one.                  *)
Waiting(t, k) == t.queues[k + 1]

\* The place of the first pass that round k adds to the queue.
FirstNew(t, k) == IF k = 0 THEN 1 ELSE Len(Waiting(t, k - 1))

\* A pass waits for its turn from the round that runs the last of its
\* dependencies, behind the passes of a smaller index that this round released.
PassFits(t, i) ==
  LET deps == registered[i].deps IN
  /\ t.pos[i] \in DOMAIN registered /\ t.order[t.pos[i]] = i
  /\ t.ready[i] \in Nat /\ t.ready[i] < t.pos[i]
  /\ \A k \in DOMAIN deps : \E d \in DOMAIN registered :
       registered[d].name = deps[k] /\ t.pos[d] <= t.ready[i]
  /\ t.ready[i] > 0 =>
       \E k \in DOMAIN deps : deps[k] = registered[t.order[t.ready[i]]].name
  /\ LET q == Waiting(t, t.ready[i]) IN
       /\ t.slot[i] \in 1 .. Len(q) /\ q[t.slot[i]] = i
       /\ \A p \in 1 .. (t.slot[i] - 1) : p >= FirstNew(t, t.ready[i]) => q[p] < i

\* After round k the queue holds the passes that wait, each at its place, but
\* for the one that moved to the front because its turn is next.
QueueFits(t, k) ==
  LET q == Waiting(t, k) IN
  \A p \in 1 .. Len(q) : /\ q[p] \in DOMAIN registered
                         /\ t.ready[q[p]] <= k /\ k < t.pos[q[p]]
                         /\ p = IF t.pos[q[p]] = k + 1 THEN 1 ELSE t.slot[q[p]]

\* A round takes the first pass of the queue and closes the gap with the last.
RoundFits(t, k) ==
  LET q == Waiting(t, k) IN
  /\ t.order[k + 1] \in DOMAIN registered /\ t.pos[t.order[k + 1]] = k + 1
  /\ Len(q) >= 1 /\ q[1] = t.order[k + 1]
  /\ Len(Waiting(t, k + 1)) >= Len(q) - 1
  /\ \A p \in 1 .. (Len(q) - 1) :
       Waiting(t, k + 1)[p] = IF p = 1 THEN q[Len(q)] ELSE q[p]

IsTrace(t) ==
  LET n == Len(registered) IN
  /\ \A i \in 1 .. n : PassFits(t, i)
  /\ \A k \in 0 .. n : Len(Waiting(t, k)) \in Nat /\ QueueFits(t, k)
  /\ \A k \in 0 .. (n - 1) : RoundFits(t, k)
  /\ Len(Waiting(t, n)) = 0

\* While the manager sorts, the result is the beginning of the order and the
\* queue that of the trace, but for passes whose last edge is still to do.
Follows(t) ==
  Sorting => LET k == Len(result) IN
    /\ Len(passes) = Len(registered) /\ k <= Len(registered)
    /\ \A j \in 1 .. k : result[j] = t.order[j]
    /\ Len(queue) <= Len(Waiting(t, k))
    /\ Len(queue) >= FirstNew(t, k) - 1
    /\ \A j \in 1 .. Len(queue) : queue[j] = Waiting(t, k)[j]

\* The stored order is the one of the trace.
OrderIs(t) == resolved => \A q \in 1 .. Len(resolved_order) : resolved_order[q] = t.order[q]

TraceInv(t) == Follows(t) /\ OrderIs(t)

(* A pass has one place in a queue of the trace.                            *)
LEMMA OnePlace ==
  ASSUME NEW t, NEW k, QueueFits(t, k),
         NEW p \in 1 .. Len(Waiting(t, k)), NEW j \in 1 .. Len(Waiting(t, k)),
         Waiting(t, k)[p] = Waiting(t, k)[j]
  PROVE  p = j
  BY DEF QueueFits

(* What a trace says of the state that follows it.                          *)
LEMMA TraceFacts ==
  ASSUME Inv, PipelineInv, NEW t, IsTrace(t), Follows(t), Sorting
  PROVE  /\ Len(result) \in Nat /\ Len(queue) \in Nat /\ Len(registered) \in Nat
         /\ Indices = DOMAIN registered /\ Indices = 1 .. Len(registered)
         /\ Len(passes) = Len(registered)
         /\ Len(result) <= Len(registered) /\ Len(result) \in 0 .. Len(registered)
         /\ Len(Waiting(t, Len(result))) \in Nat /\ QueueFits(t, Len(result))
         /\ Len(result) > 0 => Len(Waiting(t, Len(result) - 1)) \in Nat
         /\ Len(queue) <= Len(Waiting(t, Len(result)))
         /\ Len(queue) >= FirstNew(t, Len(result)) - 1
         /\ \A j \in 1 .. Len(queue) : queue[j] = Waiting(t, Len(result))[j]
         /\ \A j \in 1 .. Len(result) : result[j] = t.order[j]
         /\ \A i \in Indices : PassFits(t, i)
<1>1. Len(result) \in Nat /\ Len(queue) \in Nat
  BY LenProperties DEF Inv, TypeOK, KahnOK
<1>2. /\ Len(passes) = Len(registered) /\ Len(result) <= Len(registered)
      /\ Len(registered) \in Nat /\ DOMAIN registered = 1 .. Len(registered)
  BY PipelineFacts DEF Follows
<1>3. Len(result) \in 0 .. Len(registered) /\ Len(result) > 0 => Len(result) - 1 \in 0 .. Len(registered)
  BY <1>1, <1>2
<1> QED
  BY <1>1, <1>2, <1>3 DEF Follows, IsTrace, Indices

(* The edges into a pass come from its dependencies, the last of which to    *)
(* run is the one it is released by.                                         *)
LEMMA TraceEdges ==
  ASSUME Inv, PipelineInv, NEW t, IsTrace(t), Follows(t), Sorting, NEW i \in Indices
  PROVE  /\ \A e \in EdgesInto(i) : Provider(e) \in Indices /\ t.pos[Provider(e)] <= t.ready[i]
         /\ t.ready[i] > 0 => \E e \in EdgesInto(i) : Provider(e) = t.order[t.ready[i]]
<1>1. /\ passes[i].deps = registered[i].deps /\ PassFits(t, i)
      /\ Indices = DOMAIN registered
  BY TraceFacts DEF PipelineInv
<1>2. \A d \in Indices : pass_map[registered[d].name] = d
  BY DEF PipelineInv
<1>3. ASSUME NEW e \in EdgesInto(i)
      PROVE  Provider(e) \in Indices /\ t.pos[Provider(e)] <= t.ready[i]
  <2>1. PICK k \in DOMAIN registered[i].deps : e = <<i, k>>
    BY <1>1 DEF EdgesInto
  <2>2. Dep(e) = registered[i].deps[k]
    BY <1>1, <2>1 DEF Dep
  <2>3. PICK d \in Indices : registered[d].name = registered[i].deps[k] /\ t.pos[d] <= t.ready[i]
    BY <1>1 DEF PassFits
  <2> QED
    BY <1>2, <2>2, <2>3 DEF Provider
<1>4. ASSUME t.ready[i] > 0
      PROVE  \E e \in EdgesInto(i) : Provider(e) = t.order[t.ready[i]]
  <2>1. PICK k \in DOMAIN registered[i].deps :
          registered[i].deps[k] = registered[t.order[t.ready[i]]].name
    BY <1>1, <1>4 DEF PassFits
  <2>2. t.order[t.ready[i]] \in Indices
    <3> DEFINE n == Len(registered)
               r == t.ready[i]
    <3>1. /\ r \in Nat /\ r < t.pos[i] /\ t.pos[i] \in 1 .. n /\ n \in Nat
      BY <1>1, TraceFacts DEF PassFits
    <3>2. r - 1 \in 0 .. (n - 1) /\ (r - 1) + 1 = r
      BY <1>4, <3>1
    <3> HIDE DEF n, r
    <3>3. RoundFits(t, r - 1)
      BY <3>2 DEF IsTrace, n
    <3>4. t.order[r] \in DOMAIN registered
      BY <3>2, <3>3 DEF RoundFits
    <3> QED
      BY <1>1, <3>4 DEF r
  <2> DEFINE e == <<i, k>>
  <2>3. e \in EdgesInto(i) /\ Dep(e) = registered[i].deps[k]
    BY <1>1, <2>1 DEF EdgesInto, Dep
  <2>4. Provider(e) = t.order[t.ready[i]]
    BY <1>2, <2>1, <2>2, <2>3 DEF Provider
  <2> QED
    BY <2>3, <2>4
<1> QED
  BY <1>3, <1>4

(* A pass is in the result when its turn has come.                          *)
LEMMA TurnCame ==
  ASSUME Inv, PipelineInv, NEW t, IsTrace(t), Follows(t), Sorting, NEW d \in Indices
  PROVE  In(result, d) <=> t.pos[d] <= Len(result)
<1> DEFINE n == Len(registered)
           k == Len(result)
<1>1. /\ k \in Nat /\ n \in Nat /\ k <= n /\ t.pos[d] \in 1 .. n /\ t.order[t.pos[d]] = d
      /\ \A j \in 1 .. k : result[j] = t.order[j]
  BY TraceFacts DEF PassFits
<1>2. ASSUME NEW j \in 1 .. k, result[j] = d
      PROVE  t.pos[d] = j
  <2>1. j - 1 \in 0 .. (n - 1) /\ (j - 1) + 1 = j
    BY <1>1
  <2> HIDE DEF n, k
  <2>2. RoundFits(t, j - 1)
    BY <2>1 DEF IsTrace, n
  <2>3. t.pos[t.order[j]] = j
    BY <2>1, <2>2 DEF RoundFits
  <2> QED
    BY <1>1, <1>2, <2>3
<1> QED
  BY <1>1, <1>2 DEF In

(* A pass whose dependencies are in the result and whose edges are done is   *)
(* in the queue until its turn comes.                                        *)
LEMMA WaitsInQueue ==
  ASSUME Inv, PipelineInv, NEW t, IsTrace(t), Follows(t), pc = "kahn", NEW i \in Indices,
         t.ready[i] <= Len(result), Len(result) < t.pos[i],
         \A e \in todo : e[1] # i
  PROVE  In(queue, i)
<1>0. Sorting
  BY DEF Sorting
<1>1. ~ In(result, i)
  <2>1. Len(result) \in Nat /\ t.pos[i] \in Nat
    BY SMTT(20), <1>0, TraceFacts DEF PassFits
  <2> QED
    BY <1>0, <2>1, TurnCame
<1>2. Unrelaxed(i) = {}
  <2>1. SUFFICES ASSUME NEW e \in EdgesInto(i), ~ In(result, Provider(e)) \/ e \in todo
                 PROVE  FALSE
    BY DEF Unrelaxed
  <2>2. e[1] = i
    BY DEF EdgesInto
  <2>3. Provider(e) \in Indices /\ t.pos[Provider(e)] <= t.ready[i]
    BY <1>0, TraceEdges
  <2>4. t.pos[Provider(e)] \in Nat /\ t.ready[i] \in Nat /\ Len(result) \in Nat
    <3>1. PassFits(t, Provider(e)) /\ PassFits(t, i) /\ Len(result) \in Nat
          /\ DOMAIN registered = 1 .. Len(registered) /\ Len(registered) \in Nat
      BY <1>0, <2>3, TraceFacts
    <3> QED
      BY <3>1 DEF PassFits
  <2>5. In(result, Provider(e))
    BY <1>0, <2>3, <2>4, TurnCame
  <2> QED
    BY <2>1, <2>2, <2>5
<1>3. in_degree[i] = 0
  BY <1>0, <1>2, FS_EmptySet DEF Inv, DegreeInv
<1> QED
  BY <1>0, <1>1, <1>3 DEF Inv, QueueInv

(* A pass that joins the queue gets the place it has in the trace, when the  *)
(* passes before it have joined.                                             *)
LEMMA JoinsInPlace ==
  ASSUME Inv, PipelineInv, NEW t, IsTrace(t), Follows(t), Sorting,
         NEW i \in Indices, t.ready[i] = Len(result), ~ In(queue, i),
         \A h \in Indices : /\ t.ready[h] <= Len(result) /\ Len(result) < t.pos[h]
                            /\ h < i
                            => In(queue, h)
  PROVE  /\ Len(queue) + 1 <= Len(Waiting(t, Len(result)))
         /\ Waiting(t, Len(result))[Len(queue) + 1] = i
<1> DEFINE k == Len(result)
           q == Waiting(t, k)
           m == Len(queue)
           p == t.slot[i]
<1>1. /\ k \in Nat /\ m \in Nat /\ Len(q) \in Nat /\ m <= Len(q) /\ QueueFits(t, k)
      /\ m >= FirstNew(t, k) - 1 /\ FirstNew(t, k) \in Nat
      /\ \A j \in 1 .. m : queue[j] = q[j]
      /\ Indices = DOMAIN registered
  BY TraceFacts DEF FirstNew
<1>2. /\ p \in 1 .. Len(q) /\ q[p] = i
      /\ \A j \in 1 .. (p - 1) : j >= FirstNew(t, k) => q[j] < i
  <2>1. PassFits(t, i)
    BY TraceFacts
  <2>2. LET w == Waiting(t, t.ready[i]) IN
          /\ p \in 1 .. Len(w) /\ w[p] = i
          /\ \A j \in 1 .. (p - 1) : j >= FirstNew(t, t.ready[i]) => w[j] < i
    BY <2>1 DEF PassFits
  <2> QED
    BY <2>2
<1> HIDE DEF k, q, m, p
<1>3. ~ (p <= m)
  <2> SUFFICES ASSUME p <= m PROVE FALSE
    OBVIOUS
  <2>1. p \in 1 .. m /\ queue[p] = i
    BY <1>1, <1>2
  <2> QED
    BY <2>1 DEF In, m
<1>4. CASE p = m + 1
  BY <1>2, <1>4 DEF k, q, m, p
<1>5. CASE p > m + 1
  <2> DEFINE h == q[m + 1]
  <2>1. m + 1 \in 1 .. (p - 1) /\ m + 1 \in 1 .. Len(q) /\ m + 1 >= FirstNew(t, k)
    BY <1>1, <1>2, <1>5
  <2>2. h < i /\ h \in Indices /\ t.ready[h] <= k /\ k < t.pos[h]
    BY <1>1, <1>2, <2>1 DEF QueueFits, q
  <2>3. In(queue, h)
    BY <2>2 DEF k
  <2>4. PICK j \in 1 .. m : queue[j] = h
    BY <2>3 DEF In, m
  <2>5. j \in 1 .. Len(q) /\ q[j] = q[m + 1]
    BY <1>1, <2>4
  <2>6. j = m + 1
    BY <1>1, <2>1, <2>5, OnePlace DEF q
  <2> QED
    BY <1>1, <2>4, <2>6
<1> QED
  BY <1>1, <1>2, <1>3, <1>4, <1>5

(* A queue that a pass joins in its place still follows the trace.          *)
LEMMA JoinFollows ==
  ASSUME Inv, PipelineInv, NEW t, IsTrace(t), Follows(t), Sorting,
         UNCHANGED <<registered, passes, result>>, NEW i \in Indices,
         queue' = Append(queue, i),
         Len(queue) + 1 <= Len(Waiting(t, Len(result))),
         Waiting(t, Len(result))[Len(queue) + 1] = i
  PROVE  Follows(t)'
<1> DEFINE k == Len(result)
           m == Len(queue)
<1>1. /\ k \in Nat /\ m \in Nat /\ m >= FirstNew(t, k) - 1 /\ FirstNew(t, k) \in Nat
      /\ Len(passes) = Len(registered) /\ k <= Len(registered)
      /\ \A j \in 1 .. m : queue[j] = Waiting(t, k)[j]
      /\ \A j \in 1 .. k : result[j] = t.order[j]
  BY TraceFacts DEF FirstNew
<1>2. queue \in Seq(Nat \ {0}) /\ i \in Nat \ {0}
  BY IndexFacts DEF Inv, TypeOK, KahnOK
<1>3. Len(queue') = m + 1 /\ queue'[m + 1] = i /\ \A j \in 1 .. m : queue'[j] = queue[j]
  BY <1>2, Appended
<1> HIDE DEF m
<1>4. \A j \in 1 .. m + 1 : queue'[j] = Waiting(t, k)[j]
  <2> TAKE j \in 1 .. m + 1
  <2>1. j \in 1 .. m \/ j = m + 1
    BY <1>1
  <2> QED
    BY <1>1, <1>3, <2>1 DEF m
<1>5. m + 1 >= FirstNew(t, k) - 1
  BY <1>1
<1>6. Waiting(t, k)' = Waiting(t, k) /\ FirstNew(t, k)' = FirstNew(t, k)
  BY DEF Waiting, FirstNew
<1> QED
  BY <1>1, <1>3, <1>4, <1>5, <1>6 DEF Follows, m

(* The seeding loop queues the passes without dependencies by their index.   *)
LEMMA SeedFollows ==
  ASSUME Inv, PipelineInv, NEW t, IsTrace(t), Follows(t), Seed, UNCHANGED registered
  PROVE  Follows(t)'
<1> USE DEF Inv
<1>1. /\ pc = "seed" /\ scan \in Indices /\ UNCHANGED <<passes, result, pc>>
      /\ queue' = IF in_degree[scan] = 0 THEN Append(queue, scan) ELSE queue
      /\ Sorting /\ Sorting'
  BY DEF Seed, registry, Sorting
<1>2. Len(result) = 0 /\ \A x : ~ In(result, x)
  BY <1>1 DEF SeedInv, In
<1>3. ASSUME NEW h \in Indices
      PROVE  in_degree[h] = 0 <=> t.ready[h] = 0
  <2>1. Unrelaxed(h) = EdgesInto(h)
    BY <1>2 DEF Unrelaxed
  <2>2. in_degree[h] = 0 <=> EdgesInto(h) = {}
    BY <1>1, <2>1, IntoFacts DEF DegreeInv
  <2>3. ASSUME NEW e \in EdgesInto(h) PROVE t.ready[h] # 0
    <3>1. Provider(e) \in Indices /\ t.pos[Provider(e)] <= t.ready[h]
      BY <1>1, TraceEdges
    <3>2. t.pos[Provider(e)] \in DOMAIN registered /\ DOMAIN registered = 1 .. Len(registered)
      BY <1>1, <3>1, TraceFacts DEF PassFits
    <3>3. t.ready[h] \in Nat
      BY <1>1, TraceFacts DEF PassFits
    <3> QED
      BY <3>1, <3>2, <3>3
  <2>4. t.ready[h] # 0 => \E e \in EdgesInto(h) : TRUE
    <3>1. t.ready[h] \in Nat
      BY <1>1, TraceFacts DEF PassFits
    <3> QED
      BY <1>1, <3>1, TraceEdges
  <2> QED
    BY <2>2, <2>3, <2>4
<1>4. CASE in_degree[scan] = 0
  <2>1. t.ready[scan] = Len(result) /\ ~ In(queue, scan)
    <3>1. scan \in Nat
      BY <1>1, IndexFacts
    <3> QED
      BY <1>1, <1>2, <1>3, <1>4, <3>1 DEF SeedInv
  <2>2. ASSUME NEW h \in Indices, t.ready[h] <= Len(result), h < scan
        PROVE  In(queue, h)
    <3>1. t.ready[h] = 0
      <4>1. t.ready[h] \in Nat
        BY <1>1, TraceFacts DEF PassFits
      <4> QED
        BY <1>2, <2>2, <4>1
    <3> QED
      BY <1>1, <1>3, <2>2, <3>1 DEF SeedInv
  <2>3. /\ Len(queue) + 1 <= Len(Waiting(t, Len(result)))
        /\ Waiting(t, Len(result))[Len(queue) + 1] = scan
    BY <1>1, <2>1, <2>2, JoinsInPlace
  <2> QED
    BY <1>1, <1>4, <2>3, JoinFollows
<1>5. CASE in_degree[scan] # 0
  BY <1>1, <1>5 DEF Follows, Waiting, FirstNew
<1> QED
  BY <1>4, <1>5

(* The pass whose last edge is done joins the queue behind those of a        *)
(* smaller index, since the edges are done by the index they lead to.        *)
LEMMA RelaxFollows ==
  ASSUME Inv, PipelineInv, NEW t, IsTrace(t), Follows(t), Relax, UNCHANGED registered
  PROVE  Follows(t)'
<1> USE DEF Inv
<1>1. /\ pc = "kahn" /\ UNCHANGED <<passes, result, pc>> /\ Sorting /\ Sorting'
  BY DEF Relax, registry, Sorting
<1>2. PICK e \in FirstEdges(todo) :
        queue' = IF in_degree[e[1]] = 1 THEN Append(queue, e[1]) ELSE queue
  BY DEF Relax
<1> DEFINE i == e[1]
           k == Len(result)
<1>3. /\ e \in todo /\ e \in Edges /\ k > 0 /\ Provider(e) = result[k]
      /\ i \in Indices /\ e \in EdgesInto(i) /\ \A f \in todo : Earlier(e, f)
  BY <1>1, <1>2, EdgeFacts DEF GraphInv, FirstEdges
<1>4. \A f \in todo : f[1] \in Nat /\ f[2] \in Nat
  BY <1>1, EdgeFacts DEF GraphInv
<1>5. CASE in_degree[i] = 1
  <2>1. Unrelaxed(i) = {e}
    <3>1. e \in Unrelaxed(i) /\ IsFiniteSet(Unrelaxed(i)) /\ Cardinality(Unrelaxed(i)) = 1
      BY <1>1, <1>3, <1>5, IntoFacts DEF Unrelaxed, DegreeInv
    <3> DEFINE U == Unrelaxed(i)
    <3> HIDE DEF U
    <3>2. IsFiniteSet(U) /\ e \in U /\ Cardinality(U) = 1
      BY <3>1 DEF U
    <3>3. IsFiniteSet(U \ {e}) /\ Cardinality(U \ {e}) = 0
      BY <3>2, FS_RemoveElement
    <3>4. U \ {e} = {}
      BY <3>3, FS_EmptySet
    <3> QED
      BY <3>2, <3>4 DEF U
  <2>2. k \in Nat /\ t.ready[i] \in Nat
    BY <1>1, <1>3, TraceFacts DEF PassFits
  <2>3. Provider(e) \in Indices /\ t.pos[Provider(e)] = k
    <3>1. Provider(e) \in Indices
      BY <1>1, <1>3, TraceEdges
    <3>2. k \in 1 .. Len(registered) /\ Len(registered) \in Nat
      BY <1>1, <1>3, TraceFacts
    <3>3. k - 1 \in 0 .. (Len(registered) - 1) /\ (k - 1) + 1 = k
      BY <3>2
    <3> HIDE DEF k
    <3>4. RoundFits(t, k - 1)
      BY <3>3 DEF IsTrace
    <3>5. t.pos[t.order[k]] = k
      BY <3>3, <3>4 DEF RoundFits
    <3>6. result[k] = t.order[k]
      BY <1>1, <3>2, TraceFacts DEF k
    <3> QED
      BY <1>3, <3>1, <3>5, <3>6
  <2>4. t.ready[i] >= k
    BY <1>1, <1>3, <2>2, <2>3, TraceEdges
  <2>5. PICK f \in EdgesInto(i) : Provider(f) = t.order[t.ready[i]]
    <3>1. t.ready[i] > 0
      BY <1>3, <2>2, <2>4
    <3> QED
      BY <1>1, <1>3, <3>1, TraceEdges
  <2>6. In(result, Provider(f))
    <3>1. CASE f = e
      <4>1. k \in 1 .. k /\ result[k] = Provider(f)
        BY <1>3, <2>2, <3>1
      <4> QED
        BY <4>1 DEF In
    <3>2. CASE f # e
      BY <2>1, <2>5, <3>2 DEF Unrelaxed
    <3> QED
      BY <3>1, <3>2
  <2>7. t.pos[Provider(f)] = t.ready[i]
    <3> DEFINE r == t.ready[i]
    <3>1. /\ r \in Nat /\ r > 0 /\ r < t.pos[i] /\ t.pos[i] \in 1 .. Len(registered)
          /\ Len(registered) \in Nat
      <4>1. PassFits(t, i) /\ DOMAIN registered = 1 .. Len(registered) /\ Len(registered) \in Nat
        BY <1>1, <1>3, TraceFacts
      <4>2. r > 0
        BY <1>3, <2>2, <2>4
      <4> QED
        BY <4>1, <4>2 DEF PassFits
    <3>2. r - 1 \in 0 .. (Len(registered) - 1) /\ (r - 1) + 1 = r
      BY <3>1
    <3> HIDE DEF r
    <3>3. RoundFits(t, r - 1)
      BY <3>2 DEF IsTrace
    <3>4. t.pos[t.order[r]] = r
      BY <3>2, <3>3 DEF RoundFits
    <3> QED
      BY <2>5, <3>4 DEF r
  <2>8. t.ready[i] = k
    <3>1. Provider(f) \in Indices
      BY <1>1, <1>3, <2>5, TraceEdges
    <3>2. t.pos[Provider(f)] <= k
      BY <1>1, <2>6, <3>1, TurnCame
    <3> QED
      BY <2>2, <2>4, <2>7, <3>2
  <2>9. ~ In(queue, i)
    BY <1>1, <1>3, <1>5 DEF QueueInv
  <2>10. ASSUME NEW h \in Indices, t.ready[h] <= k, k < t.pos[h], h < i
         PROVE  In(queue, h)
    <3>1. \A g \in todo : g[1] # h
      BY <1>3, <1>4, <2>10 DEF Earlier
    <3> QED
      BY <1>1, <2>10, <3>1, WaitsInQueue
  <2>11. /\ Len(queue) + 1 <= Len(Waiting(t, k))
         /\ Waiting(t, k)[Len(queue) + 1] = i
    BY <1>1, <1>3, <2>8, <2>9, <2>10, JoinsInPlace
  <2>12. queue' = Append(queue, i)
    BY <1>2, <1>5
  <2> QED
    BY <1>1, <1>3, <2>11, <2>12, JoinFollows
<1>6. CASE in_degree[i] # 1
  BY <1>1, <1>2, <1>6 DEF Follows, Waiting, FirstNew
<1> QED
  BY <1>5, <1>6

(* A round takes the pass whose turn it is: when no edge is left to do, the   *)
(* queue is the one of the trace.                                            *)
LEMMA DequeueFollows ==
  ASSUME Inv, PipelineInv, NEW t, IsTrace(t), Follows(t), Dequeue, UNCHANGED registered
  PROVE  Follows(t)'
<1> USE DEF Inv
<1> DEFINE n == Len(registered)
           k == Len(result)
           q == Waiting(t, k)
           m == Len(queue)
<1>1. /\ pc = "kahn" /\ todo = {} /\ queue # <<>> /\ queue' = SwapRemoveFirst(queue)
      /\ result' = Append(result, queue[1]) /\ UNCHANGED <<passes, pc>>
      /\ Sorting /\ Sorting'
  BY DEF Dequeue, registry, Sorting
<1>2. /\ k \in Nat /\ n \in Nat /\ m \in Nat /\ k <= n /\ Len(passes) = n
      /\ Len(q) \in Nat /\ m <= Len(q) /\ QueueFits(t, k)
      /\ \A j \in 1 .. m : queue[j] = q[j]
      /\ \A j \in 1 .. k : result[j] = t.order[j]
      /\ Indices = DOMAIN registered /\ Indices = 1 .. n
  BY <1>1, TraceFacts
<1>3. queue \in Seq(Nat \ {0}) /\ result \in Seq(Nat \ {0}) /\ m >= 1
  BY <1>1, EmptySeq, LenProperties DEF TypeOK, KahnOK
<1>4. k < n
  <2>1. k # n
    BY <1>2, <1>3 DEF IsTrace
  <2> QED
    BY <1>2, <2>1
<1>5. m = Len(q)
  <2> DEFINE h == q[Len(q)]
  <2>1. Len(q) \in 1 .. Len(q)
    BY <1>2, <1>3
  <2> HIDE DEF q
  <2>2. h \in Indices /\ t.ready[h] <= k /\ k < t.pos[h]
    BY <1>2, <2>1 DEF QueueFits, q
  <2>3. In(queue, h)
    BY <1>1, <2>2, WaitsInQueue
  <2>4. PICK j \in 1 .. m : queue[j] = h
    BY <2>3 DEF In
  <2>5. j \in 1 .. Len(q) /\ q[j] = q[Len(q)]
    BY <1>2, <2>4
  <2>6. j = Len(q)
    BY <1>2, <2>1, <2>5, OnePlace DEF q
  <2> QED
    BY <1>2, <2>4, <2>6
<1>6. RoundFits(t, k)
  <2>1. k \in 0 .. (n - 1)
    BY <1>2, <1>4
  <2> QED
    BY <2>1 DEF IsTrace
<1>7. /\ queue[1] = t.order[k + 1] /\ Len(Waiting(t, k + 1)) >= m - 1
      /\ \A j \in 1 .. (m - 1) : Waiting(t, k + 1)[j] = IF j = 1 THEN q[m] ELSE q[j]
  BY <1>2, <1>3, <1>5, <1>6 DEF RoundFits
<1> HIDE DEF n, k, q, m
<1>8. /\ Len(queue') = m - 1
      /\ \A j \in 1 .. (m - 1) : queue'[j] = IF j = 1 THEN queue[m] ELSE queue[j]
  BY <1>1, <1>3, SwapRemoved DEF m
<1>9. queue[1] \in Nat \ {0}
  BY <1>3, ElementOfSeq DEF m
<1>10. /\ Len(result') = k + 1 /\ result'[k + 1] = queue[1]
       /\ \A j \in 1 .. k : result'[j] = result[j]
  BY <1>1, <1>3, <1>9, Appended DEF k
<1>11. \A j \in 1 .. k + 1 : result'[j] = t.order[j]
  <2> TAKE j \in 1 .. k + 1
  <2>1. j \in 1 .. k \/ j = k + 1
    BY <1>2
  <2> QED
    BY <1>2, <1>7, <1>10, <2>1
<1>12. \A j \in 1 .. (m - 1) : queue'[j] = Waiting(t, k + 1)[j]
  BY SMTT(20), <1>2, <1>3, <1>7, <1>8
<1>13. FirstNew(t, k + 1) = m
  BY <1>2, <1>5 DEF FirstNew, q
<1>14. k + 1 <= n /\ Len(passes') = n /\ Len(registered') = n
  BY <1>1, <1>2, <1>4 DEF n
<1>15. \A j : Waiting(t, j)' = Waiting(t, j) /\ FirstNew(t, j)' = FirstNew(t, j)
  BY DEF Waiting, FirstNew
<1> QED
  BY <1>2, <1>3, <1>7, <1>8, <1>10, <1>11, <1>12, <1>13, <1>14, <1>15 DEF Follows

(* While the passes are sorted their manager follows the trace.             *)
LEMMA TraceStep ==
  ASSUME Inv, PipelineInv, NEW t, IsTrace(t), TraceInv(t), [ContextStep]_allVars
  PROVE  TraceInv(t)'
<1> USE DEF TraceInv
<1>1. CASE RegisterNext
  <2>1. pc' = "idle" /\ resolved' = FALSE
    BY <1>1 DEF RegisterNext, RegisterPass, Inv, TypeOK, CallOK
  <2> QED
    BY <2>1 DEF Follows, OrderIs, Sorting
<1>2. CASE StartRun
  <2>1. UNCHANGED <<registered, passes, resolved, resolved_order>> /\ Len(passes) = Len(registered)
    BY <1>2 DEF StartRun, Run, registry, cache
  <2>2. CASE pc' = "seed" /\ queue' = <<>> /\ result' = <<>>
    <3>1. Len(queue') = 0 /\ Len(result') = 0
      BY <2>2
    <3>2. Len(registered) \in Nat /\ Len(Waiting(t, 0)) \in Nat
      <4>1. Len(registered) \in Nat
        BY PipelineFacts
      <4>2. 0 \in 0 .. Len(registered)
        BY <4>1
      <4> QED
        BY <4>1, <4>2 DEF IsTrace
    <3>3. Waiting(t, 0)' = Waiting(t, 0) /\ FirstNew(t, 0)' = 1
      BY DEF Waiting, FirstNew
    <3> QED
      BY <2>1, <3>1, <3>2, <3>3 DEF Follows, OrderIs
  <2>3. CASE pc' \in {"idle", "running"}
    BY <2>1, <2>3 DEF Follows, OrderIs, Sorting
  <2> QED
    BY <1>2, <2>2, <2>3 DEF StartRun, Run, BuildGraph
<1>3. CASE ResolveStep
  <2>1. UNCHANGED registered
    BY <1>3 DEF ResolveStep
  <2>2. ASSUME Seed \/ Seeded \/ Dequeue \/ Relax PROVE OrderIs(t)'
    BY <2>2 DEF Seed, Seeded, Dequeue, Relax, cache, OrderIs
  <2>3. CASE Seed
    BY <2>1, <2>2, <2>3, SeedFollows
  <2>4. CASE Seeded
    BY <2>1, <2>2, <2>4 DEF Seeded, registry, kahn, Follows, Sorting, Waiting, FirstNew
  <2>5. CASE Dequeue
    BY <2>1, <2>2, <2>5, DequeueFollows
  <2>6. CASE Relax
    BY <2>1, <2>2, <2>6, RelaxFollows
  <2>7. CASE CycleDetected
    BY <2>7 DEF CycleDetected, cache, Follows, OrderIs, Sorting
  <2>8. CASE StoreOrder
    <3>1. Sorting /\ pc' \in {"idle", "running"} /\ resolved_order' = result
      BY <2>8 DEF StoreOrder, Sorted, Sorting
    <3> QED
      BY <3>1 DEF Follows, OrderIs, Sorting
  <2> QED
    BY <1>3, <2>3, <2>4, <2>5, <2>6, <2>7, <2>8 DEF ResolveStep
<1>4. CASE RunRegistered \/ EndOfRun
  <2>1. pc' \in {"idle", "running"} /\ UNCHANGED <<resolved, resolved_order>>
    BY <1>4 DEF RunRegistered, EndOfRun, RunPass, EndRun, cache
  <2> QED
    BY <2>1 DEF Follows, OrderIs, Sorting
<1>5. CASE UNCHANGED allVars
  BY <1>5 DEF allVars, vars, registry, cache, kahn, Follows, OrderIs, Sorting, Waiting, FirstNew
<1> QED
  BY <1>1, <1>2, <1>3, <1>4, <1>5 DEF ContextStep

(* A pass reads a table before it is filled only if every pass that ran       *)
(* before it and fills that table failed (PassContext, pass_types.zig).       *)
EarlierFills ==
  \A s \in starved : \E q \in 1 .. Len(ran) :
    /\ registered[ran[q].pass].name = s[1]
    /\ \A p \in 1 .. (q - 1) :
         s[2] \in registered[ran[p].pass].writes => registered[ran[p].pass].name \in failed

\* Tables are read in the one run there is, which follows the stored order.
OneRunInv ==
  starved # {} =>
    /\ resolved /\ pc \in {"running", "idle"} /\ (pc = "idle" => outcome = "ran")
    /\ Len(ran) <= Len(resolved_order)
    /\ \A q \in 1 .. Len(ran) : ran[q].pass = resolved_order[q]

HandInv == EarlierFills /\ OneRunInv

(* A pass that runs misses what no pass before it could fill.               *)
LEMMA RunKeepsHand ==
  ASSUME Inv, ContextInv, HandInv, RunRegistered, Inv'
  PROVE  HandInv'
<1>1. PICK ok \in BOOLEAN :
        /\ RunPass(ok) /\ registered' = registered
        /\ LET p == registered[resolved_order[Len(ran) + 1]] IN
             /\ starved' = starved \cup {<<p.name, t>> : t \in p.reads \ table}
             /\ failed \subseteq failed'
  BY DEF RunRegistered
<1> DEFINE n == Len(ran)
           i == resolved_order[n + 1]
           T == [pass : Nat \ {0}, ok : BOOLEAN]
           entry == [pass |-> i, ok |-> ok]
<1>2. /\ pc = "running" /\ n < Len(resolved_order) /\ ran' = Append(ran, entry)
      /\ UNCHANGED <<pc, resolved, resolved_order>>
  BY <1>1 DEF RunPass, cache
<1>3. /\ n \in Nat /\ n + 1 \in 1 .. Len(resolved_order)
      /\ resolved_order \in Seq(Nat \ {0}) /\ ran \in Seq(T)
  BY <1>2, RunFacts
<1>4. entry \in T
  BY <1>3, ElementOfSeq
<1>5. /\ Len(ran') = n + 1 /\ ran'[n + 1] = entry
      /\ \A k \in 1 .. n : ran'[k] = ran[k]
  <2> HIDE DEF T, entry
  <2> QED
    BY <1>2, <1>3, <1>4
<1>6. OneRunInv'
  BY <1>2 DEF Inv, RunInv, OneRunInv
<1>7. ASSUME NEW s \in starved'
      PROVE  \E q \in 1 .. (n + 1) :
               /\ registered[ran'[q].pass].name = s[1]
               /\ \A p \in 1 .. (q - 1) : s[2] \in registered[ran'[p].pass].writes
                                            => registered[ran'[p].pass].name \in failed'
  <2>1. CASE s \in starved
    <3>1. PICK q \in 1 .. n :
            /\ registered[ran[q].pass].name = s[1]
            /\ \A p \in 1 .. (q - 1) : s[2] \in registered[ran[p].pass].writes
                                         => registered[ran[p].pass].name \in failed
      BY <2>1 DEF HandInv, EarlierFills
    <3>2. q \in 1 .. (n + 1) /\ \A p \in 1 .. (q - 1) : p \in 1 .. n
      BY <1>3
    <3> QED
      BY <1>1, <1>5, <3>1, <3>2
  <2>2. CASE s \notin starved
    <3>1. s[1] = registered[i].name /\ s[2] \notin table
      BY <1>1, <1>7, <2>2
    <3>2. n + 1 \in 1 .. (n + 1) /\ (n + 1) - 1 = n /\ ran'[n + 1].pass = i
      BY <1>3, <1>5
    <3>3. ASSUME NEW p \in 1 .. n, s[2] \in registered[ran[p].pass].writes
          PROVE  registered[ran[p].pass].name \in failed'
      <4>1. Settled(ran[p].pass, ran[p].ok)
        BY DEF ContextInv, RanInv
      <4> QED
        BY <1>1, <3>1, <3>3, <4>1 DEF Settled
    <3> QED
      BY <1>5, <3>1, <3>2, <3>3
  <2> QED
    BY <2>1, <2>2
<1> QED
  BY <1>1, <1>5, <1>6, <1>7 DEF HandInv, EarlierFills

(* Only a pass that runs reads tables; no other step changes what was read. *)
LEMMA HandStep ==
  ASSUME Inv, ContextInv, HandInv, [ContextStep]_allVars, Inv'
  PROVE  HandInv'
<1>1. ASSUME starved = {}, starved' = starved
      PROVE  HandInv'
  BY <1>1 DEF HandInv, EarlierFills, OneRunInv
<1>2. CASE RegisterNext \/ StartRun \/ ResolveStep
  <2>1. starved' = starved
    BY <1>2 DEF RegisterNext, StartRun, ResolveStep, ctxVars
  <2>2. \/ pc = "idle" /\ outcome = "none"
        \/ pc \in {"seed", "kahn"}
    BY <1>2 DEF RegisterNext, StartRun, ResolveStep, RegisterPass, Run, Seed, Seeded, Dequeue,
                Relax, CycleDetected, StoreOrder, Sorted
  <2> QED
    BY <1>1, <2>1, <2>2 DEF HandInv, OneRunInv
<1>3. CASE RunRegistered
  BY <1>3, RunKeepsHand
<1>4. CASE EndOfRun
  BY <1>4 DEF EndOfRun, EndRun, ctxVars, cache, HandInv, EarlierFills, OneRunInv
<1>5. CASE UNCHANGED allVars
  BY <1>5 DEF allVars, vars, ctxVars, cache, HandInv, EarlierFills, OneRunInv
<1> QED
  BY <1>2, <1>3, <1>4, <1>5 DEF ContextStep

-----------------------------------------------------------------------------
(* In any pipeline, a pass misses a table only if every pass that ran before *)
(* it and fills that table failed: nothing that was filled is lost.          *)
THEOREM FilledIsFound == ContextSpec => []EarlierFills
<1>1. ContextInit => HandInv
  BY DEF ContextInit, HandInv, EarlierFills, OneRunInv
<1>2. Inv /\ ContextInv /\ HandInv /\ [ContextStep]_allVars /\ Inv' => HandInv'
  BY HandStep
<1>3. HandInv => EarlierFills
  BY DEF HandInv
<1> QED
  BY <1>1, <1>2, <1>3, ContextInvariance, PTL DEF ContextSpec

-----------------------------------------------------------------------------
\* What a pass reads, a pass before it fills: but for what is relevant, which
\* a pass may ask for before danger-surface has run.
Supplied(t, i) ==
  \A x \in registered[i].reads :
    x \in {"edges", "memory", "taint", "boundaries", "transfers", "functions", "allocs"} =>
      \/ \E d \in DOMAIN registered : x \in registered[d].writes /\ t.pos[d] < t.pos[i]
      \/ /\ x \in {"functions", "allocs"}
         /\ registered[i].name \in
              {"ptr-lifetime", IF registered = runSafetyOnlyPipeline
                                  THEN "buffer-overflow" ELSE "ffi-type-mismatch"}

Sourced(t) == \A i \in DOMAIN registered : Supplied(t, i)

(* In a pipeline with such a trace a table is missing only by a failure.     *)
LEMMA SourcesRan ==
  ASSUME Inv, ContextInv, HandInv, NEW t, IsTrace(t), TraceInv(t), Sourced(t)
  PROVE  ConsumersFollowProducers
<1> SUFFICES ASSUME NEW s \in starved,
                    s[2] \in {"edges", "memory", "taint", "boundaries", "transfers",
                              "functions", "allocs"},
                    NEW i \in DOMAIN registered,
                    registered[i].name = s[1], s[2] \in registered[i].reads,
                    NEW d \in DOMAIN registered,
                    s[2] \in registered[d].writes, t.pos[d] < t.pos[i]
             PROVE  \E p \in Producers(s[2]) : p.name \in failed
  <2> USE DEF ConsumersFollowProducers
  <2> SUFFICES ASSUME NEW s \in starved,
                      s[2] \in {"edges", "memory", "taint", "boundaries", "transfers",
                                "functions", "allocs"}
               PROVE  \/ \E p \in Producers(s[2]) : p.name \in failed
                      \/ /\ s[2] \in {"functions", "allocs"}
                         /\ s[1] \in {"ptr-lifetime", IF registered = runSafetyOnlyPipeline
                                         THEN "buffer-overflow" ELSE "ffi-type-mismatch"}
    OBVIOUS
  <2>1. PICK i \in DOMAIN registered : registered[i].name = s[1] /\ s[2] \in registered[i].reads
    BY DEF ContextInv, StarvedInv
  <2> QED
    BY <2>1 DEF Sourced, Supplied
<1> DEFINE n == Len(registered)
<1>1. /\ n \in Nat /\ DOMAIN registered = 1 .. n
      /\ \A h \in DOMAIN registered : registered[h].name = registered[i].name => h = i
  BY PipelineFacts DEF ContextInv
<1>2. PICK q \in 1 .. Len(ran) :
        /\ registered[ran[q].pass].name = s[1]
        /\ \A p \in 1 .. (q - 1) :
             s[2] \in registered[ran[p].pass].writes => registered[ran[p].pass].name \in failed
  BY DEF HandInv, EarlierFills
<1>3. /\ Len(ran) \in Nat /\ Len(resolved_order) \in Nat /\ Len(ran) <= Len(resolved_order)
      /\ resolved /\ \A p \in 1 .. Len(ran) : ran[p].pass = resolved_order[p]
  BY RunFacts DEF HandInv, OneRunInv
<1>4. Len(resolved_order) <= n /\ \A p \in 1 .. Len(resolved_order) : resolved_order[p] = t.order[p]
  BY <1>3 DEF Inv, OrderIsSchedule, Complete, ContextInv, PipelineInv, TraceInv, OrderIs
<1>5. t.order[q] \in DOMAIN registered /\ t.pos[t.order[q]] = q
  <2>1. q - 1 \in 0 .. (n - 1) /\ (q - 1) + 1 = q
    BY <1>1, <1>3, <1>4
  <2> HIDE DEF n
  <2>2. RoundFits(t, q - 1)
    BY <2>1 DEF IsTrace, n
  <2> QED
    BY <2>1, <2>2 DEF RoundFits
<1>6. ran[q].pass = t.order[q]
  BY <1>3, <1>4
<1>7. t.pos[i] = q
  BY <1>1, <1>2, <1>5, <1>6
<1>8. t.pos[d] \in 1 .. n /\ t.order[t.pos[d]] = d
  BY <1>1 DEF IsTrace, PassFits
<1>9. t.pos[d] \in 1 .. (q - 1) /\ ran[t.pos[d]].pass = d
  <2> DEFINE k == t.pos[d]
  <2>1. k \in Nat /\ k >= 1 /\ k < q /\ q \in Nat /\ q <= Len(ran) /\ t.order[k] = d
    BY <1>1, <1>3, <1>7, <1>8
  <2> HIDE DEF k
  <2>2. k \in 1 .. (q - 1) /\ k \in 1 .. Len(ran) /\ k \in 1 .. Len(resolved_order)
    BY <1>3, <2>1
  <2>3. ran[k].pass = d
    BY <1>3, <1>4, <2>1, <2>2
  <2> QED
    BY <2>2, <2>3 DEF k
<1>10. registered[d].name \in failed
  BY <1>2, <1>9
<1> QED
  BY <1>10 DEF Producers

-----------------------------------------------------------------------------
(* What makes a list of numbers a trace, apart from the passes: each pass has *)
(* its dependencies before the round it waits for, and that round runs one.   *)
TurnFits(t, i) ==
  /\ t.pos[i] \in DOMAIN registered /\ t.order[t.pos[i]] = i
  /\ t.ready[i] \in Nat /\ t.ready[i] < t.pos[i]
  /\ \A k \in DOMAIN t.deps[i] : t.pos[t.deps[i][k]] <= t.ready[i]
  /\ t.ready[i] > 0 => \E k \in DOMAIN t.deps[i] : t.deps[i][k] = t.order[t.ready[i]]

SlotFits(t, i) ==
  LET q == Waiting(t, t.ready[i]) IN
  /\ t.slot[i] \in 1 .. Len(q) /\ q[t.slot[i]] = i
  /\ \A p \in 1 .. (t.slot[i] - 1) : p >= FirstNew(t, t.ready[i]) => q[p] < i

\* The names a pass declares are those of the passes listed for it.
DepsFit(t, i) ==
  /\ DOMAIN registered[i].deps = DOMAIN t.deps[i]
  /\ \A k \in DOMAIN t.deps[i] : /\ t.deps[i][k] \in DOMAIN registered
                                 /\ registered[t.deps[i][k]].name = registered[i].deps[k]

(* The parts of a trace, put together: a name a pass declares is that of a  *)
(* pass whose turn comes no later than the round it waits for.              *)
LEMMA PlacedPassFits ==
  ASSUME NEW t, NEW i \in DOMAIN registered,
         TurnFits(t, i), SlotFits(t, i), DepsFit(t, i)
  PROVE  PassFits(t, i)
<1> DEFINE deps == registered[i].deps
<1>1. \A k \in DOMAIN deps : \E d \in DOMAIN registered :
        registered[d].name = deps[k] /\ t.pos[d] <= t.ready[i]
  BY DEF TurnFits, DepsFit
<1>2. t.ready[i] > 0 => \E k \in DOMAIN deps : deps[k] = registered[t.order[t.ready[i]]].name
  BY DEF TurnFits, DepsFit
<1> QED
  BY <1>1, <1>2 DEF TurnFits, SlotFits, PassFits

-----------------------------------------------------------------------------
(* The order of the nine passes for a module in one language.  Passes are     *)
(* given by their index in the pipeline.                                     *)
SafetyOrder == <<1, 4, 5, 3, 6, 2, 9, 8, 7>>
SafetyPos == <<1, 6, 4, 2, 3, 5, 9, 8, 7>>
SafetyReady == <<0, 0, 0, 0, 1, 3, 5, 5, 5>>
SafetySlot == <<1, 2, 3, 4, 4, 3, 2, 3, 4>>
SafetyDeps == <<<<>>, <<>>, <<>>, <<>>, <<1>>, <<1, 5>>, <<6, 5>>, <<6, 5>>,
              <<1, 6>>>>
SafetyQueues == <<<<1, 2, 3, 4>>,
                  <<4, 2, 3, 5>>,
                  <<5, 2, 3>>,
                  <<3, 2, 6>>,
                  <<6, 2>>,
                  <<2, 7, 8, 9>>,
                  <<9, 7, 8>>,
                  <<8, 7>>,
                  <<7>>,
                  <<>>>>
SafetyTrace == [order |-> SafetyOrder, pos |-> SafetyPos, ready |-> SafetyReady,
                slot |-> SafetySlot, deps |-> SafetyDeps, queues |-> SafetyQueues]

(* The queues, and the rounds that lead from each to the next.              *)
LEMMA SafetyRounds ==
  ASSUME registered = runSafetyOnlyPipeline
  PROVE  /\ DOMAIN registered = 1 .. 9 /\ Len(registered) = 9
         /\ \A k \in 0 .. 9 : Len(Waiting(SafetyTrace, k)) \in Nat /\ QueueFits(SafetyTrace, k)
         /\ \A k \in 0 .. 8 : RoundFits(SafetyTrace, k)
         /\ Len(Waiting(SafetyTrace, 9)) = 0
<1>1. DOMAIN registered = 1 .. 9 /\ Len(registered) = 9
  BY DEF runSafetyOnlyPipeline
<1>2. Len(Waiting(SafetyTrace, 0)) \in Nat /\ QueueFits(SafetyTrace, 0)
  BY <1>1 DEF QueueFits, Waiting, SafetyTrace, SafetyPos, SafetyReady, SafetySlot, SafetyQueues
<1>3. Len(Waiting(SafetyTrace, 1)) \in Nat /\ QueueFits(SafetyTrace, 1)
  BY <1>1 DEF QueueFits, Waiting, SafetyTrace, SafetyPos, SafetyReady, SafetySlot, SafetyQueues
<1>4. Len(Waiting(SafetyTrace, 2)) \in Nat /\ QueueFits(SafetyTrace, 2)
  BY <1>1 DEF QueueFits, Waiting, SafetyTrace, SafetyPos, SafetyReady, SafetySlot, SafetyQueues
<1>5. Len(Waiting(SafetyTrace, 3)) \in Nat /\ QueueFits(SafetyTrace, 3)
  BY <1>1 DEF QueueFits, Waiting, SafetyTrace, SafetyPos, SafetyReady, SafetySlot, SafetyQueues
<1>6. Len(Waiting(SafetyTrace, 4)) \in Nat /\ QueueFits(SafetyTrace, 4)
  BY <1>1 DEF QueueFits, Waiting, SafetyTrace, SafetyPos, SafetyReady, SafetySlot, SafetyQueues
<1>7. Len(Waiting(SafetyTrace, 5)) \in Nat /\ QueueFits(SafetyTrace, 5)
  BY <1>1 DEF QueueFits, Waiting, SafetyTrace, SafetyPos, SafetyReady, SafetySlot, SafetyQueues
<1>8. Len(Waiting(SafetyTrace, 6)) \in Nat /\ QueueFits(SafetyTrace, 6)
  BY <1>1 DEF QueueFits, Waiting, SafetyTrace, SafetyPos, SafetyReady, SafetySlot, SafetyQueues
<1>9. Len(Waiting(SafetyTrace, 7)) \in Nat /\ QueueFits(SafetyTrace, 7)
  BY <1>1 DEF QueueFits, Waiting, SafetyTrace, SafetyPos, SafetyReady, SafetySlot, SafetyQueues
<1>10. Len(Waiting(SafetyTrace, 8)) \in Nat /\ QueueFits(SafetyTrace, 8)
  BY <1>1 DEF QueueFits, Waiting, SafetyTrace, SafetyPos, SafetyReady, SafetySlot, SafetyQueues
<1>11. Len(Waiting(SafetyTrace, 9)) \in Nat /\ QueueFits(SafetyTrace, 9)
  BY <1>1 DEF QueueFits, Waiting, SafetyTrace, SafetyPos, SafetyReady, SafetySlot, SafetyQueues
<1>12. RoundFits(SafetyTrace, 0)
  BY <1>1 DEF RoundFits, Waiting, SafetyTrace, SafetyOrder, SafetyPos, SafetyQueues
<1>13. RoundFits(SafetyTrace, 1)
  BY <1>1 DEF RoundFits, Waiting, SafetyTrace, SafetyOrder, SafetyPos, SafetyQueues
<1>14. RoundFits(SafetyTrace, 2)
  BY <1>1 DEF RoundFits, Waiting, SafetyTrace, SafetyOrder, SafetyPos, SafetyQueues
<1>15. RoundFits(SafetyTrace, 3)
  BY <1>1 DEF RoundFits, Waiting, SafetyTrace, SafetyOrder, SafetyPos, SafetyQueues
<1>16. RoundFits(SafetyTrace, 4)
  BY <1>1 DEF RoundFits, Waiting, SafetyTrace, SafetyOrder, SafetyPos, SafetyQueues
<1>17. RoundFits(SafetyTrace, 5)
  BY <1>1 DEF RoundFits, Waiting, SafetyTrace, SafetyOrder, SafetyPos, SafetyQueues
<1>18. RoundFits(SafetyTrace, 6)
  BY <1>1 DEF RoundFits, Waiting, SafetyTrace, SafetyOrder, SafetyPos, SafetyQueues
<1>19. RoundFits(SafetyTrace, 7)
  BY <1>1 DEF RoundFits, Waiting, SafetyTrace, SafetyOrder, SafetyPos, SafetyQueues
<1>20. RoundFits(SafetyTrace, 8)
  BY <1>1 DEF RoundFits, Waiting, SafetyTrace, SafetyOrder, SafetyPos, SafetyQueues
<1>21. Len(Waiting(SafetyTrace, 9)) = 0
  BY DEF Waiting, SafetyTrace, SafetyQueues
<1> QED
  BY <1>1, <1>2, <1>3, <1>4, <1>5, <1>6, <1>7, <1>8, <1>9, <1>10, <1>11,
     <1>12, <1>13, <1>14, <1>15, <1>16, <1>17, <1>18, <1>19, <1>20, <1>21

(* The round each pass waits for and its place in the queue.                *)
LEMMA SafetyPlaces ==
  ASSUME registered = runSafetyOnlyPipeline
  PROVE  \A i \in 1 .. 9 : TurnFits(SafetyTrace, i) /\ SlotFits(SafetyTrace, i)
<1>1. DOMAIN registered = 1 .. 9
  BY SafetyRounds
<1>2. TurnFits(SafetyTrace, 1) /\ SlotFits(SafetyTrace, 1)
  <2>1. /\ SafetyTrace.pos[1] = 1 /\ SafetyTrace.order[1] = 1 /\ SafetyTrace.deps[1] = <<>>
        /\ SafetyTrace.ready[1] = 0 /\ SafetyTrace.slot[1] = 1
    BY DEF SafetyTrace, SafetyOrder, SafetyPos, SafetyReady, SafetySlot, SafetyDeps
  <2>3. TurnFits(SafetyTrace, 1)
    BY <1>1, <2>1 DEF TurnFits
  <2>4. Waiting(SafetyTrace, 0) = <<1, 2, 3, 4>>
    BY DEF Waiting, SafetyTrace, SafetyQueues
  <2>5. FirstNew(SafetyTrace, 0) = 1
    BY DEF FirstNew, Waiting, SafetyTrace, SafetyQueues
  <2>6. 1 \in 1 .. Len(Waiting(SafetyTrace, 0)) /\ Waiting(SafetyTrace, 0)[1] = 1
    BY <2>4
  <2> QED
    BY <2>1, <2>3, <2>5, <2>6 DEF SlotFits
<1>3. TurnFits(SafetyTrace, 2) /\ SlotFits(SafetyTrace, 2)
  <2>1. /\ SafetyTrace.pos[2] = 6 /\ SafetyTrace.order[6] = 2 /\ SafetyTrace.deps[2] = <<>>
        /\ SafetyTrace.ready[2] = 0 /\ SafetyTrace.slot[2] = 2
    BY DEF SafetyTrace, SafetyOrder, SafetyPos, SafetyReady, SafetySlot, SafetyDeps
  <2>3. TurnFits(SafetyTrace, 2)
    BY <1>1, <2>1 DEF TurnFits
  <2>4. Waiting(SafetyTrace, 0) = <<1, 2, 3, 4>>
    BY DEF Waiting, SafetyTrace, SafetyQueues
  <2>5. FirstNew(SafetyTrace, 0) = 1
    BY DEF FirstNew, Waiting, SafetyTrace, SafetyQueues
  <2>6. 2 \in 1 .. Len(Waiting(SafetyTrace, 0)) /\ Waiting(SafetyTrace, 0)[2] = 2
    BY <2>4
  <2>7. \A p \in 1 .. 1 : p >= 1 => Waiting(SafetyTrace, 0)[p] < 2
    BY <2>4
  <2> QED
    BY <2>1, <2>3, <2>5, <2>6, <2>7 DEF SlotFits
<1>4. TurnFits(SafetyTrace, 3) /\ SlotFits(SafetyTrace, 3)
  <2>1. /\ SafetyTrace.pos[3] = 4 /\ SafetyTrace.order[4] = 3 /\ SafetyTrace.deps[3] = <<>>
        /\ SafetyTrace.ready[3] = 0 /\ SafetyTrace.slot[3] = 3
    BY DEF SafetyTrace, SafetyOrder, SafetyPos, SafetyReady, SafetySlot, SafetyDeps
  <2>3. TurnFits(SafetyTrace, 3)
    BY <1>1, <2>1 DEF TurnFits
  <2>4. Waiting(SafetyTrace, 0) = <<1, 2, 3, 4>>
    BY DEF Waiting, SafetyTrace, SafetyQueues
  <2>5. FirstNew(SafetyTrace, 0) = 1
    BY DEF FirstNew, Waiting, SafetyTrace, SafetyQueues
  <2>6. 3 \in 1 .. Len(Waiting(SafetyTrace, 0)) /\ Waiting(SafetyTrace, 0)[3] = 3
    BY <2>4
  <2>7. \A p \in 1 .. 2 : p >= 1 => Waiting(SafetyTrace, 0)[p] < 3
    BY <2>4
  <2> QED
    BY <2>1, <2>3, <2>5, <2>6, <2>7 DEF SlotFits
<1>5. TurnFits(SafetyTrace, 4) /\ SlotFits(SafetyTrace, 4)
  <2>1. /\ SafetyTrace.pos[4] = 2 /\ SafetyTrace.order[2] = 4 /\ SafetyTrace.deps[4] = <<>>
        /\ SafetyTrace.ready[4] = 0 /\ SafetyTrace.slot[4] = 4
    BY DEF SafetyTrace, SafetyOrder, SafetyPos, SafetyReady, SafetySlot, SafetyDeps
  <2>3. TurnFits(SafetyTrace, 4)
    BY <1>1, <2>1 DEF TurnFits
  <2>4. Waiting(SafetyTrace, 0) = <<1, 2, 3, 4>>
    BY DEF Waiting, SafetyTrace, SafetyQueues
  <2>5. FirstNew(SafetyTrace, 0) = 1
    BY DEF FirstNew, Waiting, SafetyTrace, SafetyQueues
  <2>6. 4 \in 1 .. Len(Waiting(SafetyTrace, 0)) /\ Waiting(SafetyTrace, 0)[4] = 4
    BY <2>4
  <2>7. \A p \in 1 .. 3 : p >= 1 => Waiting(SafetyTrace, 0)[p] < 4
    BY <2>4
  <2> QED
    BY <2>1, <2>3, <2>5, <2>6, <2>7 DEF SlotFits
<1>6. TurnFits(SafetyTrace, 5) /\ SlotFits(SafetyTrace, 5)
  <2>1. /\ SafetyTrace.pos[5] = 3 /\ SafetyTrace.order[3] = 5 /\ SafetyTrace.deps[5] = <<1>>
        /\ SafetyTrace.ready[5] = 1 /\ SafetyTrace.slot[5] = 4
    BY DEF SafetyTrace, SafetyOrder, SafetyPos, SafetyReady, SafetySlot, SafetyDeps
  <2>2. SafetyTrace.pos[1] = 1 /\ SafetyTrace.order[1] = 1
    BY DEF SafetyTrace, SafetyOrder, SafetyPos
  <2>3. TurnFits(SafetyTrace, 5)
    BY <1>1, <2>1, <2>2 DEF TurnFits
  <2>4. Waiting(SafetyTrace, 1) = <<4, 2, 3, 5>>
    BY DEF Waiting, SafetyTrace, SafetyQueues
  <2>5. FirstNew(SafetyTrace, 1) = 4
    BY DEF FirstNew, Waiting, SafetyTrace, SafetyQueues
  <2>6. 4 \in 1 .. Len(Waiting(SafetyTrace, 1)) /\ Waiting(SafetyTrace, 1)[4] = 5
    BY <2>4
  <2> QED
    BY <2>1, <2>3, <2>5, <2>6 DEF SlotFits
<1>7. TurnFits(SafetyTrace, 6) /\ SlotFits(SafetyTrace, 6)
  <2>1. /\ SafetyTrace.pos[6] = 5 /\ SafetyTrace.order[5] = 6 /\ SafetyTrace.deps[6] = <<1, 5>>
        /\ SafetyTrace.ready[6] = 3 /\ SafetyTrace.slot[6] = 3
    BY DEF SafetyTrace, SafetyOrder, SafetyPos, SafetyReady, SafetySlot, SafetyDeps
  <2>2. SafetyTrace.pos[1] = 1 /\ SafetyTrace.pos[5] = 3 /\ SafetyTrace.order[3] = 5
    BY DEF SafetyTrace, SafetyOrder, SafetyPos
  <2>3. TurnFits(SafetyTrace, 6)
    BY <1>1, <2>1, <2>2 DEF TurnFits
  <2>4. Waiting(SafetyTrace, 3) = <<3, 2, 6>>
    BY DEF Waiting, SafetyTrace, SafetyQueues
  <2>5. FirstNew(SafetyTrace, 3) = 3
    BY DEF FirstNew, Waiting, SafetyTrace, SafetyQueues
  <2>6. 3 \in 1 .. Len(Waiting(SafetyTrace, 3)) /\ Waiting(SafetyTrace, 3)[3] = 6
    BY <2>4
  <2> QED
    BY <2>1, <2>3, <2>5, <2>6 DEF SlotFits
<1>8. TurnFits(SafetyTrace, 7) /\ SlotFits(SafetyTrace, 7)
  <2>1. /\ SafetyTrace.pos[7] = 9 /\ SafetyTrace.order[9] = 7 /\ SafetyTrace.deps[7] = <<6, 5>>
        /\ SafetyTrace.ready[7] = 5 /\ SafetyTrace.slot[7] = 2
    BY DEF SafetyTrace, SafetyOrder, SafetyPos, SafetyReady, SafetySlot, SafetyDeps
  <2>2. SafetyTrace.pos[6] = 5 /\ SafetyTrace.pos[5] = 3 /\ SafetyTrace.order[5] = 6
    BY DEF SafetyTrace, SafetyOrder, SafetyPos
  <2>3. TurnFits(SafetyTrace, 7)
    BY <1>1, <2>1, <2>2 DEF TurnFits
  <2>4. Waiting(SafetyTrace, 5) = <<2, 7, 8, 9>>
    BY DEF Waiting, SafetyTrace, SafetyQueues
  <2>5. FirstNew(SafetyTrace, 5) = 2
    BY DEF FirstNew, Waiting, SafetyTrace, SafetyQueues
  <2>6. 2 \in 1 .. Len(Waiting(SafetyTrace, 5)) /\ Waiting(SafetyTrace, 5)[2] = 7
    BY <2>4
  <2> QED
    BY <2>1, <2>3, <2>5, <2>6 DEF SlotFits
<1>9. TurnFits(SafetyTrace, 8) /\ SlotFits(SafetyTrace, 8)
  <2>1. /\ SafetyTrace.pos[8] = 8 /\ SafetyTrace.order[8] = 8 /\ SafetyTrace.deps[8] = <<6, 5>>
        /\ SafetyTrace.ready[8] = 5 /\ SafetyTrace.slot[8] = 3
    BY DEF SafetyTrace, SafetyOrder, SafetyPos, SafetyReady, SafetySlot, SafetyDeps
  <2>2. SafetyTrace.pos[6] = 5 /\ SafetyTrace.pos[5] = 3 /\ SafetyTrace.order[5] = 6
    BY DEF SafetyTrace, SafetyOrder, SafetyPos
  <2>3. TurnFits(SafetyTrace, 8)
    BY <1>1, <2>1, <2>2 DEF TurnFits
  <2>4. Waiting(SafetyTrace, 5) = <<2, 7, 8, 9>>
    BY DEF Waiting, SafetyTrace, SafetyQueues
  <2>5. FirstNew(SafetyTrace, 5) = 2
    BY DEF FirstNew, Waiting, SafetyTrace, SafetyQueues
  <2>6. 3 \in 1 .. Len(Waiting(SafetyTrace, 5)) /\ Waiting(SafetyTrace, 5)[3] = 8
    BY <2>4
  <2>7. \A p \in 1 .. 2 : p >= 2 => Waiting(SafetyTrace, 5)[p] < 8
    BY <2>4
  <2> QED
    BY <2>1, <2>3, <2>5, <2>6, <2>7 DEF SlotFits
<1>10. TurnFits(SafetyTrace, 9) /\ SlotFits(SafetyTrace, 9)
  <2>1. /\ SafetyTrace.pos[9] = 7 /\ SafetyTrace.order[7] = 9 /\ SafetyTrace.deps[9] = <<1, 6>>
        /\ SafetyTrace.ready[9] = 5 /\ SafetyTrace.slot[9] = 4
    BY DEF SafetyTrace, SafetyOrder, SafetyPos, SafetyReady, SafetySlot, SafetyDeps
  <2>2. SafetyTrace.pos[1] = 1 /\ SafetyTrace.pos[6] = 5 /\ SafetyTrace.order[5] = 6
    BY DEF SafetyTrace, SafetyOrder, SafetyPos
  <2>3. TurnFits(SafetyTrace, 9)
    BY <1>1, <2>1, <2>2 DEF TurnFits
  <2>4. Waiting(SafetyTrace, 5) = <<2, 7, 8, 9>>
    BY DEF Waiting, SafetyTrace, SafetyQueues
  <2>5. FirstNew(SafetyTrace, 5) = 2
    BY DEF FirstNew, Waiting, SafetyTrace, SafetyQueues
  <2>6. 4 \in 1 .. Len(Waiting(SafetyTrace, 5)) /\ Waiting(SafetyTrace, 5)[4] = 9
    BY <2>4
  <2>7. \A p \in 1 .. 3 : p >= 2 => Waiting(SafetyTrace, 5)[p] < 9
    BY <2>4
  <2> QED
    BY <2>1, <2>3, <2>5, <2>6, <2>7 DEF SlotFits
<1> QED
  BY <1>2, <1>3, <1>4, <1>5, <1>6, <1>7, <1>8, <1>9, <1>10

(* The dependencies each pass declares.                                     *)
LEMMA SafetyDependencies ==
  ASSUME registered = runSafetyOnlyPipeline
  PROVE  \A i \in 1 .. 9 : DepsFit(SafetyTrace, i)
<1>1. DOMAIN registered = 1 .. 9
  BY SafetyRounds
<1>2. DepsFit(SafetyTrace, 1)
  BY <1>1 DEF DepsFit, runSafetyOnlyPipeline, CallGraphPass, Pass,
              SafetyTrace, SafetyDeps
<1>3. DepsFit(SafetyTrace, 2)
  BY <1>1 DEF DepsFit, runSafetyOnlyPipeline, MallocCheckPass, Pass,
              SafetyTrace, SafetyDeps
<1>4. DepsFit(SafetyTrace, 3)
  BY <1>1 DEF DepsFit, runSafetyOnlyPipeline, BufferOverflowPass, Pass,
              SafetyTrace, SafetyDeps
<1>5. DepsFit(SafetyTrace, 4)
  BY <1>1 DEF DepsFit, runSafetyOnlyPipeline, IntegerOverflowPass, Pass,
              SafetyTrace, SafetyDeps
<1>6. DepsFit(SafetyTrace, 5)
  <2>1. registered[5].deps = <<"call-graph">>
    BY DEF runSafetyOnlyPipeline, PtrLifetimePass, Pass
  <2>2. registered[1].name = "call-graph"
    BY DEF runSafetyOnlyPipeline, CallGraphPass, Pass
  <2>3. SafetyTrace.deps[5] = <<1>>
    BY DEF SafetyTrace, SafetyDeps
  <2> QED
    BY <1>1, <2>1, <2>2, <2>3 DEF DepsFit
<1>7. DepsFit(SafetyTrace, 6)
  <2>1. registered[6].deps = <<"call-graph", "ptr-lifetime">>
    BY DEF runSafetyOnlyPipeline, DangerSurfacePass, Pass
  <2>2. registered[1].name = "call-graph"
    BY DEF runSafetyOnlyPipeline, CallGraphPass, Pass
  <2>3. registered[5].name = "ptr-lifetime"
    BY DEF runSafetyOnlyPipeline, PtrLifetimePass, Pass
  <2>4. SafetyTrace.deps[6] = <<1, 5>>
    BY DEF SafetyTrace, SafetyDeps
  <2> QED
    BY <1>1, <2>1, <2>2, <2>3, <2>4 DEF DepsFit
<1>8. DepsFit(SafetyTrace, 7)
  <2>1. registered[7].deps = <<"danger-surface", "ptr-lifetime">>
    BY DEF runSafetyOnlyPipeline, MemorySafetyPass, Pass
  <2>2. registered[6].name = "danger-surface"
    BY DEF runSafetyOnlyPipeline, DangerSurfacePass, Pass
  <2>3. registered[5].name = "ptr-lifetime"
    BY DEF runSafetyOnlyPipeline, PtrLifetimePass, Pass
  <2>4. SafetyTrace.deps[7] = <<6, 5>>
    BY DEF SafetyTrace, SafetyDeps
  <2> QED
    BY <1>1, <2>1, <2>2, <2>3, <2>4 DEF DepsFit
<1>9. DepsFit(SafetyTrace, 8)
  <2>1. registered[8].deps = <<"danger-surface", "ptr-lifetime">>
    BY DEF runSafetyOnlyPipeline, FreeValidationPass, Pass
  <2>2. registered[6].name = "danger-surface"
    BY DEF runSafetyOnlyPipeline, DangerSurfacePass, Pass
  <2>3. registered[5].name = "ptr-lifetime"
    BY DEF runSafetyOnlyPipeline, PtrLifetimePass, Pass
  <2>4. SafetyTrace.deps[8] = <<6, 5>>
    BY DEF SafetyTrace, SafetyDeps
  <2> QED
    BY <1>1, <2>1, <2>2, <2>3, <2>4 DEF DepsFit
<1>10. DepsFit(SafetyTrace, 9)
  <2>1. registered[9].deps = <<"call-graph", "danger-surface">>
    BY DEF runSafetyOnlyPipeline, CallbackEscapePass, Pass
  <2>2. registered[1].name = "call-graph"
    BY DEF runSafetyOnlyPipeline, CallGraphPass, Pass
  <2>3. registered[6].name = "danger-surface"
    BY DEF runSafetyOnlyPipeline, DangerSurfacePass, Pass
  <2>4. SafetyTrace.deps[9] = <<1, 6>>
    BY DEF SafetyTrace, SafetyDeps
  <2> QED
    BY <1>1, <2>1, <2>2, <2>3, <2>4 DEF DepsFit
<1> QED
  BY <1>2, <1>3, <1>4, <1>5, <1>6, <1>7, <1>8, <1>9, <1>10

-----------------------------------------------------------------------------
(* The order of the 34 passes: surface-classifier, SemanticResolver and       *)
(* malloc-check, registered early (4, 5 and 6), stay at the places 2, 3 and 4 *)
(* of the queue, since swapRemove fills the front from the back.             *)
AllOrder == <<1, 34, 2, 33, 3, 32, 31, 26, 9, 8, 19, 13, 20, 10, 28, 17, 11,
            27, 22, 12, 7, 30, 29, 25, 23, 21, 18, 16, 15, 14, 6, 5, 4, 24>>
AllPos == <<1, 3, 5, 33, 32, 31, 21, 10, 9, 14, 17, 20, 12, 30, 29, 28, 16,
          27, 11, 13, 26, 19, 25, 34, 24, 8, 18, 15, 23, 22, 7, 6, 4, 2>>
AllReady == <<0, 1, 3, 0, 0, 0, 0, 0, 0, 9, 14, 13, 9, 20, 20, 20, 14, 20,
            9, 11, 20, 13, 20, 32, 20, 0, 13, 13, 20, 20, 0, 0, 0, 0>>
AllSlot == <<1, 12, 11, 2, 3, 4, 5, 6, 7, 6, 9, 6, 7, 5, 6, 7, 10, 8, 8, 7,
           9, 7, 10, 2, 11, 8, 8, 9, 12, 13, 9, 10, 11, 12>>
AllDeps == <<<<>>, <<1>>, <<1, 2>>, <<>>, <<>>, <<>>, <<>>, <<>>, <<>>,
           <<9>>, <<1, 2, 10>>, <<9, 20>>, <<9>>, <<9, 12>>, <<12>>, <<12>>,
           <<1, 2, 10>>, <<12>>, <<9>>, <<9, 19>>, <<12>>, <<9, 20>>,
           <<12, 9>>, <<5>>, <<12, 10>>, <<>>, <<20, 19>>, <<20, 19>>,
           <<12, 9>>, <<12, 9>>, <<>>, <<>>, <<>>, <<>>>>
AllQueues == <<<<1, 4, 5, 6, 7, 8, 9, 26, 31, 32, 33, 34>>,
               <<34, 4, 5, 6, 7, 8, 9, 26, 31, 32, 33, 2>>,
               <<2, 4, 5, 6, 7, 8, 9, 26, 31, 32, 33>>,
               <<33, 4, 5, 6, 7, 8, 9, 26, 31, 32, 3>>,
               <<3, 4, 5, 6, 7, 8, 9, 26, 31, 32>>,
               <<32, 4, 5, 6, 7, 8, 9, 26, 31>>,
               <<31, 4, 5, 6, 7, 8, 9, 26>>,
               <<26, 4, 5, 6, 7, 8, 9>>,
               <<9, 4, 5, 6, 7, 8>>,
               <<8, 4, 5, 6, 7, 10, 13, 19>>,
               <<19, 4, 5, 6, 7, 10, 13>>,
               <<13, 4, 5, 6, 7, 10, 20>>,
               <<20, 4, 5, 6, 7, 10>>,
               <<10, 4, 5, 6, 7, 12, 22, 27, 28>>,
               <<28, 4, 5, 6, 7, 12, 22, 27, 11, 17>>,
               <<17, 4, 5, 6, 7, 12, 22, 27, 11>>,
               <<11, 4, 5, 6, 7, 12, 22, 27>>,
               <<27, 4, 5, 6, 7, 12, 22>>,
               <<22, 4, 5, 6, 7, 12>>,
               <<12, 4, 5, 6, 7>>,
               <<7, 4, 5, 6, 14, 15, 16, 18, 21, 23, 25, 29, 30>>,
               <<30, 4, 5, 6, 14, 15, 16, 18, 21, 23, 25, 29>>,
               <<29, 4, 5, 6, 14, 15, 16, 18, 21, 23, 25>>,
               <<25, 4, 5, 6, 14, 15, 16, 18, 21, 23>>,
               <<23, 4, 5, 6, 14, 15, 16, 18, 21>>,
               <<21, 4, 5, 6, 14, 15, 16, 18>>,
               <<18, 4, 5, 6, 14, 15, 16>>,
               <<16, 4, 5, 6, 14, 15>>,
               <<15, 4, 5, 6, 14>>,
               <<14, 4, 5, 6>>,
               <<6, 4, 5>>,
               <<5, 4>>,
               <<4, 24>>,
               <<24>>,
               <<>>>>
AllTrace == [order |-> AllOrder, pos |-> AllPos, ready |-> AllReady,
             slot |-> AllSlot, deps |-> AllDeps, queues |-> AllQueues]

(* The queues, and the rounds that lead from each to the next.              *)
LEMMA AllRounds ==
  ASSUME registered = registerAllPasses
  PROVE  /\ DOMAIN registered = 1 .. 34 /\ Len(registered) = 34
         /\ \A k \in 0 .. 34 : Len(Waiting(AllTrace, k)) \in Nat /\ QueueFits(AllTrace, k)
         /\ \A k \in 0 .. 33 : RoundFits(AllTrace, k)
         /\ Len(Waiting(AllTrace, 34)) = 0
<1>1. DOMAIN registered = 1 .. 34 /\ Len(registered) = 34
  BY DEF registerAllPasses
<1>2. Len(Waiting(AllTrace, 0)) \in Nat /\ QueueFits(AllTrace, 0)
  BY <1>1 DEF QueueFits, Waiting, AllTrace, AllPos, AllReady, AllSlot, AllQueues
<1>3. Len(Waiting(AllTrace, 1)) \in Nat /\ QueueFits(AllTrace, 1)
  BY <1>1 DEF QueueFits, Waiting, AllTrace, AllPos, AllReady, AllSlot, AllQueues
<1>4. Len(Waiting(AllTrace, 2)) \in Nat /\ QueueFits(AllTrace, 2)
  BY <1>1 DEF QueueFits, Waiting, AllTrace, AllPos, AllReady, AllSlot, AllQueues
<1>5. Len(Waiting(AllTrace, 3)) \in Nat /\ QueueFits(AllTrace, 3)
  BY <1>1 DEF QueueFits, Waiting, AllTrace, AllPos, AllReady, AllSlot, AllQueues
<1>6. Len(Waiting(AllTrace, 4)) \in Nat /\ QueueFits(AllTrace, 4)
  BY <1>1 DEF QueueFits, Waiting, AllTrace, AllPos, AllReady, AllSlot, AllQueues
<1>7. Len(Waiting(AllTrace, 5)) \in Nat /\ QueueFits(AllTrace, 5)
  BY <1>1 DEF QueueFits, Waiting, AllTrace, AllPos, AllReady, AllSlot, AllQueues
<1>8. Len(Waiting(AllTrace, 6)) \in Nat /\ QueueFits(AllTrace, 6)
  BY <1>1 DEF QueueFits, Waiting, AllTrace, AllPos, AllReady, AllSlot, AllQueues
<1>9. Len(Waiting(AllTrace, 7)) \in Nat /\ QueueFits(AllTrace, 7)
  BY <1>1 DEF QueueFits, Waiting, AllTrace, AllPos, AllReady, AllSlot, AllQueues
<1>10. Len(Waiting(AllTrace, 8)) \in Nat /\ QueueFits(AllTrace, 8)
  BY <1>1 DEF QueueFits, Waiting, AllTrace, AllPos, AllReady, AllSlot, AllQueues
<1>11. Len(Waiting(AllTrace, 9)) \in Nat /\ QueueFits(AllTrace, 9)
  BY <1>1 DEF QueueFits, Waiting, AllTrace, AllPos, AllReady, AllSlot, AllQueues
<1>12. Len(Waiting(AllTrace, 10)) \in Nat /\ QueueFits(AllTrace, 10)
  BY <1>1 DEF QueueFits, Waiting, AllTrace, AllPos, AllReady, AllSlot, AllQueues
<1>13. Len(Waiting(AllTrace, 11)) \in Nat /\ QueueFits(AllTrace, 11)
  BY <1>1 DEF QueueFits, Waiting, AllTrace, AllPos, AllReady, AllSlot, AllQueues
<1>14. Len(Waiting(AllTrace, 12)) \in Nat /\ QueueFits(AllTrace, 12)
  BY <1>1 DEF QueueFits, Waiting, AllTrace, AllPos, AllReady, AllSlot, AllQueues
<1>15. Len(Waiting(AllTrace, 13)) \in Nat /\ QueueFits(AllTrace, 13)
  BY <1>1 DEF QueueFits, Waiting, AllTrace, AllPos, AllReady, AllSlot, AllQueues
<1>16. Len(Waiting(AllTrace, 14)) \in Nat /\ QueueFits(AllTrace, 14)
  BY <1>1 DEF QueueFits, Waiting, AllTrace, AllPos, AllReady, AllSlot, AllQueues
<1>17. Len(Waiting(AllTrace, 15)) \in Nat /\ QueueFits(AllTrace, 15)
  BY <1>1 DEF QueueFits, Waiting, AllTrace, AllPos, AllReady, AllSlot, AllQueues
<1>18. Len(Waiting(AllTrace, 16)) \in Nat /\ QueueFits(AllTrace, 16)
  BY <1>1 DEF QueueFits, Waiting, AllTrace, AllPos, AllReady, AllSlot, AllQueues
<1>19. Len(Waiting(AllTrace, 17)) \in Nat /\ QueueFits(AllTrace, 17)
  BY <1>1 DEF QueueFits, Waiting, AllTrace, AllPos, AllReady, AllSlot, AllQueues
<1>20. Len(Waiting(AllTrace, 18)) \in Nat /\ QueueFits(AllTrace, 18)
  BY <1>1 DEF QueueFits, Waiting, AllTrace, AllPos, AllReady, AllSlot, AllQueues
<1>21. Len(Waiting(AllTrace, 19)) \in Nat /\ QueueFits(AllTrace, 19)
  BY <1>1 DEF QueueFits, Waiting, AllTrace, AllPos, AllReady, AllSlot, AllQueues
<1>22. Len(Waiting(AllTrace, 20)) \in Nat /\ QueueFits(AllTrace, 20)
  BY <1>1 DEF QueueFits, Waiting, AllTrace, AllPos, AllReady, AllSlot, AllQueues
<1>23. Len(Waiting(AllTrace, 21)) \in Nat /\ QueueFits(AllTrace, 21)
  BY <1>1 DEF QueueFits, Waiting, AllTrace, AllPos, AllReady, AllSlot, AllQueues
<1>24. Len(Waiting(AllTrace, 22)) \in Nat /\ QueueFits(AllTrace, 22)
  BY <1>1 DEF QueueFits, Waiting, AllTrace, AllPos, AllReady, AllSlot, AllQueues
<1>25. Len(Waiting(AllTrace, 23)) \in Nat /\ QueueFits(AllTrace, 23)
  BY <1>1 DEF QueueFits, Waiting, AllTrace, AllPos, AllReady, AllSlot, AllQueues
<1>26. Len(Waiting(AllTrace, 24)) \in Nat /\ QueueFits(AllTrace, 24)
  BY <1>1 DEF QueueFits, Waiting, AllTrace, AllPos, AllReady, AllSlot, AllQueues
<1>27. Len(Waiting(AllTrace, 25)) \in Nat /\ QueueFits(AllTrace, 25)
  BY <1>1 DEF QueueFits, Waiting, AllTrace, AllPos, AllReady, AllSlot, AllQueues
<1>28. Len(Waiting(AllTrace, 26)) \in Nat /\ QueueFits(AllTrace, 26)
  BY <1>1 DEF QueueFits, Waiting, AllTrace, AllPos, AllReady, AllSlot, AllQueues
<1>29. Len(Waiting(AllTrace, 27)) \in Nat /\ QueueFits(AllTrace, 27)
  BY <1>1 DEF QueueFits, Waiting, AllTrace, AllPos, AllReady, AllSlot, AllQueues
<1>30. Len(Waiting(AllTrace, 28)) \in Nat /\ QueueFits(AllTrace, 28)
  BY <1>1 DEF QueueFits, Waiting, AllTrace, AllPos, AllReady, AllSlot, AllQueues
<1>31. Len(Waiting(AllTrace, 29)) \in Nat /\ QueueFits(AllTrace, 29)
  BY <1>1 DEF QueueFits, Waiting, AllTrace, AllPos, AllReady, AllSlot, AllQueues
<1>32. Len(Waiting(AllTrace, 30)) \in Nat /\ QueueFits(AllTrace, 30)
  BY <1>1 DEF QueueFits, Waiting, AllTrace, AllPos, AllReady, AllSlot, AllQueues
<1>33. Len(Waiting(AllTrace, 31)) \in Nat /\ QueueFits(AllTrace, 31)
  BY <1>1 DEF QueueFits, Waiting, AllTrace, AllPos, AllReady, AllSlot, AllQueues
<1>34. Len(Waiting(AllTrace, 32)) \in Nat /\ QueueFits(AllTrace, 32)
  BY <1>1 DEF QueueFits, Waiting, AllTrace, AllPos, AllReady, AllSlot, AllQueues
<1>35. Len(Waiting(AllTrace, 33)) \in Nat /\ QueueFits(AllTrace, 33)
  BY <1>1 DEF QueueFits, Waiting, AllTrace, AllPos, AllReady, AllSlot, AllQueues
<1>36. Len(Waiting(AllTrace, 34)) \in Nat /\ QueueFits(AllTrace, 34)
  BY <1>1 DEF QueueFits, Waiting, AllTrace, AllPos, AllReady, AllSlot, AllQueues
<1>37. RoundFits(AllTrace, 0)
  BY <1>1 DEF RoundFits, Waiting, AllTrace, AllOrder, AllPos, AllQueues
<1>38. RoundFits(AllTrace, 1)
  BY <1>1 DEF RoundFits, Waiting, AllTrace, AllOrder, AllPos, AllQueues
<1>39. RoundFits(AllTrace, 2)
  BY <1>1 DEF RoundFits, Waiting, AllTrace, AllOrder, AllPos, AllQueues
<1>40. RoundFits(AllTrace, 3)
  BY <1>1 DEF RoundFits, Waiting, AllTrace, AllOrder, AllPos, AllQueues
<1>41. RoundFits(AllTrace, 4)
  BY <1>1 DEF RoundFits, Waiting, AllTrace, AllOrder, AllPos, AllQueues
<1>42. RoundFits(AllTrace, 5)
  BY <1>1 DEF RoundFits, Waiting, AllTrace, AllOrder, AllPos, AllQueues
<1>43. RoundFits(AllTrace, 6)
  BY <1>1 DEF RoundFits, Waiting, AllTrace, AllOrder, AllPos, AllQueues
<1>44. RoundFits(AllTrace, 7)
  BY <1>1 DEF RoundFits, Waiting, AllTrace, AllOrder, AllPos, AllQueues
<1>45. RoundFits(AllTrace, 8)
  BY <1>1 DEF RoundFits, Waiting, AllTrace, AllOrder, AllPos, AllQueues
<1>46. RoundFits(AllTrace, 9)
  BY <1>1 DEF RoundFits, Waiting, AllTrace, AllOrder, AllPos, AllQueues
<1>47. RoundFits(AllTrace, 10)
  BY <1>1 DEF RoundFits, Waiting, AllTrace, AllOrder, AllPos, AllQueues
<1>48. RoundFits(AllTrace, 11)
  BY <1>1 DEF RoundFits, Waiting, AllTrace, AllOrder, AllPos, AllQueues
<1>49. RoundFits(AllTrace, 12)
  BY <1>1 DEF RoundFits, Waiting, AllTrace, AllOrder, AllPos, AllQueues
<1>50. RoundFits(AllTrace, 13)
  BY <1>1 DEF RoundFits, Waiting, AllTrace, AllOrder, AllPos, AllQueues
<1>51. RoundFits(AllTrace, 14)
  BY <1>1 DEF RoundFits, Waiting, AllTrace, AllOrder, AllPos, AllQueues
<1>52. RoundFits(AllTrace, 15)
  BY <1>1 DEF RoundFits, Waiting, AllTrace, AllOrder, AllPos, AllQueues
<1>53. RoundFits(AllTrace, 16)
  BY <1>1 DEF RoundFits, Waiting, AllTrace, AllOrder, AllPos, AllQueues
<1>54. RoundFits(AllTrace, 17)
  BY <1>1 DEF RoundFits, Waiting, AllTrace, AllOrder, AllPos, AllQueues
<1>55. RoundFits(AllTrace, 18)
  BY <1>1 DEF RoundFits, Waiting, AllTrace, AllOrder, AllPos, AllQueues
<1>56. RoundFits(AllTrace, 19)
  BY <1>1 DEF RoundFits, Waiting, AllTrace, AllOrder, AllPos, AllQueues
<1>57. RoundFits(AllTrace, 20)
  BY <1>1 DEF RoundFits, Waiting, AllTrace, AllOrder, AllPos, AllQueues
<1>58. RoundFits(AllTrace, 21)
  BY <1>1 DEF RoundFits, Waiting, AllTrace, AllOrder, AllPos, AllQueues
<1>59. RoundFits(AllTrace, 22)
  BY <1>1 DEF RoundFits, Waiting, AllTrace, AllOrder, AllPos, AllQueues
<1>60. RoundFits(AllTrace, 23)
  BY <1>1 DEF RoundFits, Waiting, AllTrace, AllOrder, AllPos, AllQueues
<1>61. RoundFits(AllTrace, 24)
  BY <1>1 DEF RoundFits, Waiting, AllTrace, AllOrder, AllPos, AllQueues
<1>62. RoundFits(AllTrace, 25)
  BY <1>1 DEF RoundFits, Waiting, AllTrace, AllOrder, AllPos, AllQueues
<1>63. RoundFits(AllTrace, 26)
  BY <1>1 DEF RoundFits, Waiting, AllTrace, AllOrder, AllPos, AllQueues
<1>64. RoundFits(AllTrace, 27)
  BY <1>1 DEF RoundFits, Waiting, AllTrace, AllOrder, AllPos, AllQueues
<1>65. RoundFits(AllTrace, 28)
  BY <1>1 DEF RoundFits, Waiting, AllTrace, AllOrder, AllPos, AllQueues
<1>66. RoundFits(AllTrace, 29)
  BY <1>1 DEF RoundFits, Waiting, AllTrace, AllOrder, AllPos, AllQueues
<1>67. RoundFits(AllTrace, 30)
  BY <1>1 DEF RoundFits, Waiting, AllTrace, AllOrder, AllPos, AllQueues
<1>68. RoundFits(AllTrace, 31)
  BY <1>1 DEF RoundFits, Waiting, AllTrace, AllOrder, AllPos, AllQueues
<1>69. RoundFits(AllTrace, 32)
  BY <1>1 DEF RoundFits, Waiting, AllTrace, AllOrder, AllPos, AllQueues
<1>70. RoundFits(AllTrace, 33)
  BY <1>1 DEF RoundFits, Waiting, AllTrace, AllOrder, AllPos, AllQueues
<1>71. Len(Waiting(AllTrace, 34)) = 0
  BY DEF Waiting, AllTrace, AllQueues
<1> QED
  BY <1>1, <1>2, <1>3, <1>4, <1>5, <1>6, <1>7, <1>8, <1>9, <1>10, <1>11,
     <1>12, <1>13, <1>14, <1>15, <1>16, <1>17, <1>18, <1>19, <1>20, <1>21,
     <1>22, <1>23, <1>24, <1>25, <1>26, <1>27, <1>28, <1>29, <1>30, <1>31,
     <1>32, <1>33, <1>34, <1>35, <1>36, <1>37, <1>38, <1>39, <1>40, <1>41,
     <1>42, <1>43, <1>44, <1>45, <1>46, <1>47, <1>48, <1>49, <1>50, <1>51,
     <1>52, <1>53, <1>54, <1>55, <1>56, <1>57, <1>58, <1>59, <1>60, <1>61,
     <1>62, <1>63, <1>64, <1>65, <1>66, <1>67, <1>68, <1>69, <1>70, <1>71

(* The round each pass waits for and its place in the queue.                *)
LEMMA AllPlaces ==
  ASSUME registered = registerAllPasses
  PROVE  \A i \in 1 .. 34 : TurnFits(AllTrace, i) /\ SlotFits(AllTrace, i)
<1>1. DOMAIN registered = 1 .. 34
  BY AllRounds
<1>2. TurnFits(AllTrace, 1) /\ SlotFits(AllTrace, 1)
  <2>1. /\ AllTrace.pos[1] = 1 /\ AllTrace.order[1] = 1 /\ AllTrace.deps[1] = <<>>
        /\ AllTrace.ready[1] = 0 /\ AllTrace.slot[1] = 1
    BY DEF AllTrace, AllOrder, AllPos, AllReady, AllSlot, AllDeps
  <2>3. TurnFits(AllTrace, 1)
    BY <1>1, <2>1 DEF TurnFits
  <2>4. Waiting(AllTrace, 0) = <<1, 4, 5, 6, 7, 8, 9, 26, 31, 32, 33, 34>>
    BY DEF Waiting, AllTrace, AllQueues
  <2>5. FirstNew(AllTrace, 0) = 1
    BY DEF FirstNew, Waiting, AllTrace, AllQueues
  <2>6. 1 \in 1 .. Len(Waiting(AllTrace, 0)) /\ Waiting(AllTrace, 0)[1] = 1
    BY <2>4
  <2> QED
    BY <2>1, <2>3, <2>5, <2>6 DEF SlotFits
<1>3. TurnFits(AllTrace, 2) /\ SlotFits(AllTrace, 2)
  <2>1. /\ AllTrace.pos[2] = 3 /\ AllTrace.order[3] = 2 /\ AllTrace.deps[2] = <<1>>
        /\ AllTrace.ready[2] = 1 /\ AllTrace.slot[2] = 12
    BY DEF AllTrace, AllOrder, AllPos, AllReady, AllSlot, AllDeps
  <2>2. AllTrace.pos[1] = 1 /\ AllTrace.order[1] = 1
    BY DEF AllTrace, AllOrder, AllPos
  <2>3. TurnFits(AllTrace, 2)
    BY <1>1, <2>1, <2>2 DEF TurnFits
  <2>4. Waiting(AllTrace, 1) = <<34, 4, 5, 6, 7, 8, 9, 26, 31, 32, 33, 2>>
    BY DEF Waiting, AllTrace, AllQueues
  <2>5. FirstNew(AllTrace, 1) = 12
    BY DEF FirstNew, Waiting, AllTrace, AllQueues
  <2>6. 12 \in 1 .. Len(Waiting(AllTrace, 1)) /\ Waiting(AllTrace, 1)[12] = 2
    BY <2>4
  <2> QED
    BY <2>1, <2>3, <2>5, <2>6 DEF SlotFits
<1>4. TurnFits(AllTrace, 3) /\ SlotFits(AllTrace, 3)
  <2>1. /\ AllTrace.pos[3] = 5 /\ AllTrace.order[5] = 3 /\ AllTrace.deps[3] = <<1, 2>>
        /\ AllTrace.ready[3] = 3 /\ AllTrace.slot[3] = 11
    BY DEF AllTrace, AllOrder, AllPos, AllReady, AllSlot, AllDeps
  <2>2. AllTrace.pos[1] = 1 /\ AllTrace.pos[2] = 3 /\ AllTrace.order[3] = 2
    BY DEF AllTrace, AllOrder, AllPos
  <2>3. TurnFits(AllTrace, 3)
    BY <1>1, <2>1, <2>2 DEF TurnFits
  <2>4. Waiting(AllTrace, 3) = <<33, 4, 5, 6, 7, 8, 9, 26, 31, 32, 3>>
    BY DEF Waiting, AllTrace, AllQueues
  <2>5. FirstNew(AllTrace, 3) = 11
    BY DEF FirstNew, Waiting, AllTrace, AllQueues
  <2>6. 11 \in 1 .. Len(Waiting(AllTrace, 3)) /\ Waiting(AllTrace, 3)[11] = 3
    BY <2>4
  <2> QED
    BY <2>1, <2>3, <2>5, <2>6 DEF SlotFits
<1>5. TurnFits(AllTrace, 4) /\ SlotFits(AllTrace, 4)
  <2>1. /\ AllTrace.pos[4] = 33 /\ AllTrace.order[33] = 4 /\ AllTrace.deps[4] = <<>>
        /\ AllTrace.ready[4] = 0 /\ AllTrace.slot[4] = 2
    BY DEF AllTrace, AllOrder, AllPos, AllReady, AllSlot, AllDeps
  <2>3. TurnFits(AllTrace, 4)
    BY <1>1, <2>1 DEF TurnFits
  <2>4. Waiting(AllTrace, 0) = <<1, 4, 5, 6, 7, 8, 9, 26, 31, 32, 33, 34>>
    BY DEF Waiting, AllTrace, AllQueues
  <2>5. FirstNew(AllTrace, 0) = 1
    BY DEF FirstNew, Waiting, AllTrace, AllQueues
  <2>6. 2 \in 1 .. Len(Waiting(AllTrace, 0)) /\ Waiting(AllTrace, 0)[2] = 4
    BY <2>4
  <2>7. \A p \in 1 .. 1 : p >= 1 => Waiting(AllTrace, 0)[p] < 4
    BY <2>4
  <2> QED
    BY <2>1, <2>3, <2>5, <2>6, <2>7 DEF SlotFits
<1>6. TurnFits(AllTrace, 5) /\ SlotFits(AllTrace, 5)
  <2>1. /\ AllTrace.pos[5] = 32 /\ AllTrace.order[32] = 5 /\ AllTrace.deps[5] = <<>>
        /\ AllTrace.ready[5] = 0 /\ AllTrace.slot[5] = 3
    BY DEF AllTrace, AllOrder, AllPos, AllReady, AllSlot, AllDeps
  <2>3. TurnFits(AllTrace, 5)
    BY <1>1, <2>1 DEF TurnFits
  <2>4. Waiting(AllTrace, 0) = <<1, 4, 5, 6, 7, 8, 9, 26, 31, 32, 33, 34>>
    BY DEF Waiting, AllTrace, AllQueues
  <2>5. FirstNew(AllTrace, 0) = 1
    BY DEF FirstNew, Waiting, AllTrace, AllQueues
  <2>6. 3 \in 1 .. Len(Waiting(AllTrace, 0)) /\ Waiting(AllTrace, 0)[3] = 5
    BY <2>4
  <2>7. \A p \in 1 .. 2 : p >= 1 => Waiting(AllTrace, 0)[p] < 5
    BY <2>4
  <2> QED
    BY <2>1, <2>3, <2>5, <2>6, <2>7 DEF SlotFits
<1>7. TurnFits(AllTrace, 6) /\ SlotFits(AllTrace, 6)
  <2>1. /\ AllTrace.pos[6] = 31 /\ AllTrace.order[31] = 6 /\ AllTrace.deps[6] = <<>>
        /\ AllTrace.ready[6] = 0 /\ AllTrace.slot[6] = 4
    BY DEF AllTrace, AllOrder, AllPos, AllReady, AllSlot, AllDeps
  <2>3. TurnFits(AllTrace, 6)
    BY <1>1, <2>1 DEF TurnFits
  <2>4. Waiting(AllTrace, 0) = <<1, 4, 5, 6, 7, 8, 9, 26, 31, 32, 33, 34>>
    BY DEF Waiting, AllTrace, AllQueues
  <2>5. FirstNew(AllTrace, 0) = 1
    BY DEF FirstNew, Waiting, AllTrace, AllQueues
  <2>6. 4 \in 1 .. Len(Waiting(AllTrace, 0)) /\ Waiting(AllTrace, 0)[4] = 6
    BY <2>4
  <2>7. \A p \in 1 .. 3 : p >= 1 => Waiting(AllTrace, 0)[p] < 6
    BY <2>4
  <2> QED
    BY <2>1, <2>3, <2>5, <2>6, <2>7 DEF SlotFits
<1>8. TurnFits(AllTrace, 7) /\ SlotFits(AllTrace, 7)
  <2>1. /\ AllTrace.pos[7] = 21 /\ AllTrace.order[21] = 7 /\ AllTrace.deps[7] = <<>>
        /\ AllTrace.ready[7] = 0 /\ AllTrace.slot[7] = 5
    BY DEF AllTrace, AllOrder, AllPos, AllReady, AllSlot, AllDeps
  <2>3. TurnFits(AllTrace, 7)
    BY <1>1, <2>1 DEF TurnFits
  <2>4. Waiting(AllTrace, 0) = <<1, 4, 5, 6, 7, 8, 9, 26, 31, 32, 33, 34>>
    BY DEF Waiting, AllTrace, AllQueues
  <2>5. FirstNew(AllTrace, 0) = 1
    BY DEF FirstNew, Waiting, AllTrace, AllQueues
  <2>6. 5 \in 1 .. Len(Waiting(AllTrace, 0)) /\ Waiting(AllTrace, 0)[5] = 7
    BY <2>4
  <2>7. \A p \in 1 .. 4 : p >= 1 => Waiting(AllTrace, 0)[p] < 7
    BY <2>4
  <2> QED
    BY <2>1, <2>3, <2>5, <2>6, <2>7 DEF SlotFits
<1>9. TurnFits(AllTrace, 8) /\ SlotFits(AllTrace, 8)
  <2>1. /\ AllTrace.pos[8] = 10 /\ AllTrace.order[10] = 8 /\ AllTrace.deps[8] = <<>>
        /\ AllTrace.ready[8] = 0 /\ AllTrace.slot[8] = 6
    BY DEF AllTrace, AllOrder, AllPos, AllReady, AllSlot, AllDeps
  <2>3. TurnFits(AllTrace, 8)
    BY <1>1, <2>1 DEF TurnFits
  <2>4. Waiting(AllTrace, 0) = <<1, 4, 5, 6, 7, 8, 9, 26, 31, 32, 33, 34>>
    BY DEF Waiting, AllTrace, AllQueues
  <2>5. FirstNew(AllTrace, 0) = 1
    BY DEF FirstNew, Waiting, AllTrace, AllQueues
  <2>6. 6 \in 1 .. Len(Waiting(AllTrace, 0)) /\ Waiting(AllTrace, 0)[6] = 8
    BY <2>4
  <2>7. \A p \in 1 .. 5 : p >= 1 => Waiting(AllTrace, 0)[p] < 8
    BY <2>4
  <2> QED
    BY <2>1, <2>3, <2>5, <2>6, <2>7 DEF SlotFits
<1>10. TurnFits(AllTrace, 9) /\ SlotFits(AllTrace, 9)
  <2>1. /\ AllTrace.pos[9] = 9 /\ AllTrace.order[9] = 9 /\ AllTrace.deps[9] = <<>>
        /\ AllTrace.ready[9] = 0 /\ AllTrace.slot[9] = 7
    BY DEF AllTrace, AllOrder, AllPos, AllReady, AllSlot, AllDeps
  <2>3. TurnFits(AllTrace, 9)
    BY <1>1, <2>1 DEF TurnFits
  <2>4. Waiting(AllTrace, 0) = <<1, 4, 5, 6, 7, 8, 9, 26, 31, 32, 33, 34>>
    BY DEF Waiting, AllTrace, AllQueues
  <2>5. FirstNew(AllTrace, 0) = 1
    BY DEF FirstNew, Waiting, AllTrace, AllQueues
  <2>6. 7 \in 1 .. Len(Waiting(AllTrace, 0)) /\ Waiting(AllTrace, 0)[7] = 9
    BY <2>4
  <2>7. \A p \in 1 .. 6 : p >= 1 => Waiting(AllTrace, 0)[p] < 9
    BY <2>4
  <2> QED
    BY <2>1, <2>3, <2>5, <2>6, <2>7 DEF SlotFits
<1>11. TurnFits(AllTrace, 10) /\ SlotFits(AllTrace, 10)
  <2>1. /\ AllTrace.pos[10] = 14 /\ AllTrace.order[14] = 10 /\ AllTrace.deps[10] = <<9>>
        /\ AllTrace.ready[10] = 9 /\ AllTrace.slot[10] = 6
    BY DEF AllTrace, AllOrder, AllPos, AllReady, AllSlot, AllDeps
  <2>2. AllTrace.pos[9] = 9 /\ AllTrace.order[9] = 9
    BY DEF AllTrace, AllOrder, AllPos
  <2>3. TurnFits(AllTrace, 10)
    BY <1>1, <2>1, <2>2 DEF TurnFits
  <2>4. Waiting(AllTrace, 9) = <<8, 4, 5, 6, 7, 10, 13, 19>>
    BY DEF Waiting, AllTrace, AllQueues
  <2>5. FirstNew(AllTrace, 9) = 6
    BY DEF FirstNew, Waiting, AllTrace, AllQueues
  <2>6. 6 \in 1 .. Len(Waiting(AllTrace, 9)) /\ Waiting(AllTrace, 9)[6] = 10
    BY <2>4
  <2> QED
    BY <2>1, <2>3, <2>5, <2>6 DEF SlotFits
<1>12. TurnFits(AllTrace, 11) /\ SlotFits(AllTrace, 11)
  <2>1. /\ AllTrace.pos[11] = 17 /\ AllTrace.order[17] = 11 /\ AllTrace.deps[11] = <<1, 2, 10>>
        /\ AllTrace.ready[11] = 14 /\ AllTrace.slot[11] = 9
    BY DEF AllTrace, AllOrder, AllPos, AllReady, AllSlot, AllDeps
  <2>2. AllTrace.pos[1] = 1 /\ AllTrace.pos[2] = 3 /\ AllTrace.pos[10] = 14 /\ AllTrace.order[14] = 10
    BY DEF AllTrace, AllOrder, AllPos
  <2>3. TurnFits(AllTrace, 11)
    BY <1>1, <2>1, <2>2 DEF TurnFits
  <2>4. Waiting(AllTrace, 14) = <<28, 4, 5, 6, 7, 12, 22, 27, 11, 17>>
    BY DEF Waiting, AllTrace, AllQueues
  <2>5. FirstNew(AllTrace, 14) = 9
    BY DEF FirstNew, Waiting, AllTrace, AllQueues
  <2>6. 9 \in 1 .. Len(Waiting(AllTrace, 14)) /\ Waiting(AllTrace, 14)[9] = 11
    BY <2>4
  <2> QED
    BY <2>1, <2>3, <2>5, <2>6 DEF SlotFits
<1>13. TurnFits(AllTrace, 12) /\ SlotFits(AllTrace, 12)
  <2>1. /\ AllTrace.pos[12] = 20 /\ AllTrace.order[20] = 12 /\ AllTrace.deps[12] = <<9, 20>>
        /\ AllTrace.ready[12] = 13 /\ AllTrace.slot[12] = 6
    BY DEF AllTrace, AllOrder, AllPos, AllReady, AllSlot, AllDeps
  <2>2. AllTrace.pos[9] = 9 /\ AllTrace.pos[20] = 13 /\ AllTrace.order[13] = 20
    BY DEF AllTrace, AllOrder, AllPos
  <2>3. TurnFits(AllTrace, 12)
    BY <1>1, <2>1, <2>2 DEF TurnFits
  <2>4. Waiting(AllTrace, 13) = <<10, 4, 5, 6, 7, 12, 22, 27, 28>>
    BY DEF Waiting, AllTrace, AllQueues
  <2>5. FirstNew(AllTrace, 13) = 6
    BY DEF FirstNew, Waiting, AllTrace, AllQueues
  <2>6. 6 \in 1 .. Len(Waiting(AllTrace, 13)) /\ Waiting(AllTrace, 13)[6] = 12
    BY <2>4
  <2> QED
    BY <2>1, <2>3, <2>5, <2>6 DEF SlotFits
<1>14. TurnFits(AllTrace, 13) /\ SlotFits(AllTrace, 13)
  <2>1. /\ AllTrace.pos[13] = 12 /\ AllTrace.order[12] = 13 /\ AllTrace.deps[13] = <<9>>
        /\ AllTrace.ready[13] = 9 /\ AllTrace.slot[13] = 7
    BY DEF AllTrace, AllOrder, AllPos, AllReady, AllSlot, AllDeps
  <2>2. AllTrace.pos[9] = 9 /\ AllTrace.order[9] = 9
    BY DEF AllTrace, AllOrder, AllPos
  <2>3. TurnFits(AllTrace, 13)
    BY <1>1, <2>1, <2>2 DEF TurnFits
  <2>4. Waiting(AllTrace, 9) = <<8, 4, 5, 6, 7, 10, 13, 19>>
    BY DEF Waiting, AllTrace, AllQueues
  <2>5. FirstNew(AllTrace, 9) = 6
    BY DEF FirstNew, Waiting, AllTrace, AllQueues
  <2>6. 7 \in 1 .. Len(Waiting(AllTrace, 9)) /\ Waiting(AllTrace, 9)[7] = 13
    BY <2>4
  <2>7. \A p \in 1 .. 6 : p >= 6 => Waiting(AllTrace, 9)[p] < 13
    BY <2>4
  <2> QED
    BY <2>1, <2>3, <2>5, <2>6, <2>7 DEF SlotFits
<1>15. TurnFits(AllTrace, 14) /\ SlotFits(AllTrace, 14)
  <2>1. /\ AllTrace.pos[14] = 30 /\ AllTrace.order[30] = 14 /\ AllTrace.deps[14] = <<9, 12>>
        /\ AllTrace.ready[14] = 20 /\ AllTrace.slot[14] = 5
    BY DEF AllTrace, AllOrder, AllPos, AllReady, AllSlot, AllDeps
  <2>2. AllTrace.pos[9] = 9 /\ AllTrace.pos[12] = 20 /\ AllTrace.order[20] = 12
    BY DEF AllTrace, AllOrder, AllPos
  <2>3. TurnFits(AllTrace, 14)
    BY <1>1, <2>1, <2>2 DEF TurnFits
  <2>4. Waiting(AllTrace, 20) = <<7, 4, 5, 6, 14, 15, 16, 18, 21, 23, 25,
        29, 30>>
    BY DEF Waiting, AllTrace, AllQueues
  <2>5. FirstNew(AllTrace, 20) = 5
    BY DEF FirstNew, Waiting, AllTrace, AllQueues
  <2>6. 5 \in 1 .. Len(Waiting(AllTrace, 20)) /\ Waiting(AllTrace, 20)[5] = 14
    BY <2>4
  <2> QED
    BY <2>1, <2>3, <2>5, <2>6 DEF SlotFits
<1>16. TurnFits(AllTrace, 15) /\ SlotFits(AllTrace, 15)
  <2>1. /\ AllTrace.pos[15] = 29 /\ AllTrace.order[29] = 15 /\ AllTrace.deps[15] = <<12>>
        /\ AllTrace.ready[15] = 20 /\ AllTrace.slot[15] = 6
    BY DEF AllTrace, AllOrder, AllPos, AllReady, AllSlot, AllDeps
  <2>2. AllTrace.pos[12] = 20 /\ AllTrace.order[20] = 12
    BY DEF AllTrace, AllOrder, AllPos
  <2>3. TurnFits(AllTrace, 15)
    BY <1>1, <2>1, <2>2 DEF TurnFits
  <2>4. Waiting(AllTrace, 20) = <<7, 4, 5, 6, 14, 15, 16, 18, 21, 23, 25,
        29, 30>>
    BY DEF Waiting, AllTrace, AllQueues
  <2>5. FirstNew(AllTrace, 20) = 5
    BY DEF FirstNew, Waiting, AllTrace, AllQueues
  <2>6. 6 \in 1 .. Len(Waiting(AllTrace, 20)) /\ Waiting(AllTrace, 20)[6] = 15
    BY <2>4
  <2>7. \A p \in 1 .. 5 : p >= 5 => Waiting(AllTrace, 20)[p] < 15
    BY <2>4
  <2> QED
    BY <2>1, <2>3, <2>5, <2>6, <2>7 DEF SlotFits
<1>17. TurnFits(AllTrace, 16) /\ SlotFits(AllTrace, 16)
  <2>1. /\ AllTrace.pos[16] = 28 /\ AllTrace.order[28] = 16 /\ AllTrace.deps[16] = <<12>>
        /\ AllTrace.ready[16] = 20 /\ AllTrace.slot[16] = 7
    BY DEF AllTrace, AllOrder, AllPos, AllReady, AllSlot, AllDeps
  <2>2. AllTrace.pos[12] = 20 /\ AllTrace.order[20] = 12
    BY DEF AllTrace, AllOrder, AllPos
  <2>3. TurnFits(AllTrace, 16)
    BY <1>1, <2>1, <2>2 DEF TurnFits
  <2>4. Waiting(AllTrace, 20) = <<7, 4, 5, 6, 14, 15, 16, 18, 21, 23, 25,
        29, 30>>
    BY DEF Waiting, AllTrace, AllQueues
  <2>5. FirstNew(AllTrace, 20) = 5
    BY DEF FirstNew, Waiting, AllTrace, AllQueues
  <2>6. 7 \in 1 .. Len(Waiting(AllTrace, 20)) /\ Waiting(AllTrace, 20)[7] = 16
    BY <2>4
  <2>7. \A p \in 1 .. 6 : p >= 5 => Waiting(AllTrace, 20)[p] < 16
    BY <2>4
  <2> QED
    BY <2>1, <2>3, <2>5, <2>6, <2>7 DEF SlotFits
<1>18. TurnFits(AllTrace, 17) /\ SlotFits(AllTrace, 17)
  <2>1. /\ AllTrace.pos[17] = 16 /\ AllTrace.order[16] = 17 /\ AllTrace.deps[17] = <<1, 2, 10>>
        /\ AllTrace.ready[17] = 14 /\ AllTrace.slot[17] = 10
    BY DEF AllTrace, AllOrder, AllPos, AllReady, AllSlot, AllDeps
  <2>2. AllTrace.pos[1] = 1 /\ AllTrace.pos[2] = 3 /\ AllTrace.pos[10] = 14 /\ AllTrace.order[14] = 10
    BY DEF AllTrace, AllOrder, AllPos
  <2>3. TurnFits(AllTrace, 17)
    BY <1>1, <2>1, <2>2 DEF TurnFits
  <2>4. Waiting(AllTrace, 14) = <<28, 4, 5, 6, 7, 12, 22, 27, 11, 17>>
    BY DEF Waiting, AllTrace, AllQueues
  <2>5. FirstNew(AllTrace, 14) = 9
    BY DEF FirstNew, Waiting, AllTrace, AllQueues
  <2>6. 10 \in 1 .. Len(Waiting(AllTrace, 14)) /\ Waiting(AllTrace, 14)[10] = 17
    BY <2>4
  <2>7. \A p \in 1 .. 9 : p >= 9 => Waiting(AllTrace, 14)[p] < 17
    BY <2>4
  <2> QED
    BY <2>1, <2>3, <2>5, <2>6, <2>7 DEF SlotFits
<1>19. TurnFits(AllTrace, 18) /\ SlotFits(AllTrace, 18)
  <2>1. /\ AllTrace.pos[18] = 27 /\ AllTrace.order[27] = 18 /\ AllTrace.deps[18] = <<12>>
        /\ AllTrace.ready[18] = 20 /\ AllTrace.slot[18] = 8
    BY DEF AllTrace, AllOrder, AllPos, AllReady, AllSlot, AllDeps
  <2>2. AllTrace.pos[12] = 20 /\ AllTrace.order[20] = 12
    BY DEF AllTrace, AllOrder, AllPos
  <2>3. TurnFits(AllTrace, 18)
    BY <1>1, <2>1, <2>2 DEF TurnFits
  <2>4. Waiting(AllTrace, 20) = <<7, 4, 5, 6, 14, 15, 16, 18, 21, 23, 25,
        29, 30>>
    BY DEF Waiting, AllTrace, AllQueues
  <2>5. FirstNew(AllTrace, 20) = 5
    BY DEF FirstNew, Waiting, AllTrace, AllQueues
  <2>6. 8 \in 1 .. Len(Waiting(AllTrace, 20)) /\ Waiting(AllTrace, 20)[8] = 18
    BY <2>4
  <2>7. \A p \in 1 .. 7 : p >= 5 => Waiting(AllTrace, 20)[p] < 18
    BY <2>4
  <2> QED
    BY <2>1, <2>3, <2>5, <2>6, <2>7 DEF SlotFits
<1>20. TurnFits(AllTrace, 19) /\ SlotFits(AllTrace, 19)
  <2>1. /\ AllTrace.pos[19] = 11 /\ AllTrace.order[11] = 19 /\ AllTrace.deps[19] = <<9>>
        /\ AllTrace.ready[19] = 9 /\ AllTrace.slot[19] = 8
    BY DEF AllTrace, AllOrder, AllPos, AllReady, AllSlot, AllDeps
  <2>2. AllTrace.pos[9] = 9 /\ AllTrace.order[9] = 9
    BY DEF AllTrace, AllOrder, AllPos
  <2>3. TurnFits(AllTrace, 19)
    BY <1>1, <2>1, <2>2 DEF TurnFits
  <2>4. Waiting(AllTrace, 9) = <<8, 4, 5, 6, 7, 10, 13, 19>>
    BY DEF Waiting, AllTrace, AllQueues
  <2>5. FirstNew(AllTrace, 9) = 6
    BY DEF FirstNew, Waiting, AllTrace, AllQueues
  <2>6. 8 \in 1 .. Len(Waiting(AllTrace, 9)) /\ Waiting(AllTrace, 9)[8] = 19
    BY <2>4
  <2>7. \A p \in 1 .. 7 : p >= 6 => Waiting(AllTrace, 9)[p] < 19
    BY <2>4
  <2> QED
    BY <2>1, <2>3, <2>5, <2>6, <2>7 DEF SlotFits
<1>21. TurnFits(AllTrace, 20) /\ SlotFits(AllTrace, 20)
  <2>1. /\ AllTrace.pos[20] = 13 /\ AllTrace.order[13] = 20 /\ AllTrace.deps[20] = <<9, 19>>
        /\ AllTrace.ready[20] = 11 /\ AllTrace.slot[20] = 7
    BY DEF AllTrace, AllOrder, AllPos, AllReady, AllSlot, AllDeps
  <2>2. AllTrace.pos[9] = 9 /\ AllTrace.pos[19] = 11 /\ AllTrace.order[11] = 19
    BY DEF AllTrace, AllOrder, AllPos
  <2>3. TurnFits(AllTrace, 20)
    BY <1>1, <2>1, <2>2 DEF TurnFits
  <2>4. Waiting(AllTrace, 11) = <<13, 4, 5, 6, 7, 10, 20>>
    BY DEF Waiting, AllTrace, AllQueues
  <2>5. FirstNew(AllTrace, 11) = 7
    BY DEF FirstNew, Waiting, AllTrace, AllQueues
  <2>6. 7 \in 1 .. Len(Waiting(AllTrace, 11)) /\ Waiting(AllTrace, 11)[7] = 20
    BY <2>4
  <2> QED
    BY <2>1, <2>3, <2>5, <2>6 DEF SlotFits
<1>22. TurnFits(AllTrace, 21) /\ SlotFits(AllTrace, 21)
  <2>1. /\ AllTrace.pos[21] = 26 /\ AllTrace.order[26] = 21 /\ AllTrace.deps[21] = <<12>>
        /\ AllTrace.ready[21] = 20 /\ AllTrace.slot[21] = 9
    BY DEF AllTrace, AllOrder, AllPos, AllReady, AllSlot, AllDeps
  <2>2. AllTrace.pos[12] = 20 /\ AllTrace.order[20] = 12
    BY DEF AllTrace, AllOrder, AllPos
  <2>3. TurnFits(AllTrace, 21)
    BY <1>1, <2>1, <2>2 DEF TurnFits
  <2>4. Waiting(AllTrace, 20) = <<7, 4, 5, 6, 14, 15, 16, 18, 21, 23, 25,
        29, 30>>
    BY DEF Waiting, AllTrace, AllQueues
  <2>5. FirstNew(AllTrace, 20) = 5
    BY DEF FirstNew, Waiting, AllTrace, AllQueues
  <2>6. 9 \in 1 .. Len(Waiting(AllTrace, 20)) /\ Waiting(AllTrace, 20)[9] = 21
    BY <2>4
  <2>7. \A p \in 1 .. 8 : p >= 5 => Waiting(AllTrace, 20)[p] < 21
    BY <2>4
  <2> QED
    BY <2>1, <2>3, <2>5, <2>6, <2>7 DEF SlotFits
<1>23. TurnFits(AllTrace, 22) /\ SlotFits(AllTrace, 22)
  <2>1. /\ AllTrace.pos[22] = 19 /\ AllTrace.order[19] = 22 /\ AllTrace.deps[22] = <<9, 20>>
        /\ AllTrace.ready[22] = 13 /\ AllTrace.slot[22] = 7
    BY DEF AllTrace, AllOrder, AllPos, AllReady, AllSlot, AllDeps
  <2>2. AllTrace.pos[9] = 9 /\ AllTrace.pos[20] = 13 /\ AllTrace.order[13] = 20
    BY DEF AllTrace, AllOrder, AllPos
  <2>3. TurnFits(AllTrace, 22)
    BY <1>1, <2>1, <2>2 DEF TurnFits
  <2>4. Waiting(AllTrace, 13) = <<10, 4, 5, 6, 7, 12, 22, 27, 28>>
    BY DEF Waiting, AllTrace, AllQueues
  <2>5. FirstNew(AllTrace, 13) = 6
    BY DEF FirstNew, Waiting, AllTrace, AllQueues
  <2>6. 7 \in 1 .. Len(Waiting(AllTrace, 13)) /\ Waiting(AllTrace, 13)[7] = 22
    BY <2>4
  <2>7. \A p \in 1 .. 6 : p >= 6 => Waiting(AllTrace, 13)[p] < 22
    BY <2>4
  <2> QED
    BY <2>1, <2>3, <2>5, <2>6, <2>7 DEF SlotFits
<1>24. TurnFits(AllTrace, 23) /\ SlotFits(AllTrace, 23)
  <2>1. /\ AllTrace.pos[23] = 25 /\ AllTrace.order[25] = 23 /\ AllTrace.deps[23] = <<12, 9>>
        /\ AllTrace.ready[23] = 20 /\ AllTrace.slot[23] = 10
    BY DEF AllTrace, AllOrder, AllPos, AllReady, AllSlot, AllDeps
  <2>2. AllTrace.pos[12] = 20 /\ AllTrace.pos[9] = 9 /\ AllTrace.order[20] = 12
    BY DEF AllTrace, AllOrder, AllPos
  <2>3. TurnFits(AllTrace, 23)
    BY <1>1, <2>1, <2>2 DEF TurnFits
  <2>4. Waiting(AllTrace, 20) = <<7, 4, 5, 6, 14, 15, 16, 18, 21, 23, 25,
        29, 30>>
    BY DEF Waiting, AllTrace, AllQueues
  <2>5. FirstNew(AllTrace, 20) = 5
    BY DEF FirstNew, Waiting, AllTrace, AllQueues
  <2>6. 10 \in 1 .. Len(Waiting(AllTrace, 20)) /\ Waiting(AllTrace, 20)[10] = 23
    BY <2>4
  <2>7. \A p \in 1 .. 9 : p >= 5 => Waiting(AllTrace, 20)[p] < 23
    BY <2>4
  <2> QED
    BY <2>1, <2>3, <2>5, <2>6, <2>7 DEF SlotFits
<1>25. TurnFits(AllTrace, 24) /\ SlotFits(AllTrace, 24)
  <2>1. /\ AllTrace.pos[24] = 34 /\ AllTrace.order[34] = 24 /\ AllTrace.deps[24] = <<5>>
        /\ AllTrace.ready[24] = 32 /\ AllTrace.slot[24] = 2
    BY DEF AllTrace, AllOrder, AllPos, AllReady, AllSlot, AllDeps
  <2>2. AllTrace.pos[5] = 32 /\ AllTrace.order[32] = 5
    BY DEF AllTrace, AllOrder, AllPos
  <2>3. TurnFits(AllTrace, 24)
    BY <1>1, <2>1, <2>2 DEF TurnFits
  <2>4. Waiting(AllTrace, 32) = <<4, 24>>
    BY DEF Waiting, AllTrace, AllQueues
  <2>5. FirstNew(AllTrace, 32) = 2
    BY DEF FirstNew, Waiting, AllTrace, AllQueues
  <2>6. 2 \in 1 .. Len(Waiting(AllTrace, 32)) /\ Waiting(AllTrace, 32)[2] = 24
    BY <2>4
  <2> QED
    BY <2>1, <2>3, <2>5, <2>6 DEF SlotFits
<1>26. TurnFits(AllTrace, 25) /\ SlotFits(AllTrace, 25)
  <2>1. /\ AllTrace.pos[25] = 24 /\ AllTrace.order[24] = 25 /\ AllTrace.deps[25] = <<12, 10>>
        /\ AllTrace.ready[25] = 20 /\ AllTrace.slot[25] = 11
    BY DEF AllTrace, AllOrder, AllPos, AllReady, AllSlot, AllDeps
  <2>2. AllTrace.pos[12] = 20 /\ AllTrace.pos[10] = 14 /\ AllTrace.order[20] = 12
    BY DEF AllTrace, AllOrder, AllPos
  <2>3. TurnFits(AllTrace, 25)
    BY <1>1, <2>1, <2>2 DEF TurnFits
  <2>4. Waiting(AllTrace, 20) = <<7, 4, 5, 6, 14, 15, 16, 18, 21, 23, 25,
        29, 30>>
    BY DEF Waiting, AllTrace, AllQueues
  <2>5. FirstNew(AllTrace, 20) = 5
    BY DEF FirstNew, Waiting, AllTrace, AllQueues
  <2>6. 11 \in 1 .. Len(Waiting(AllTrace, 20)) /\ Waiting(AllTrace, 20)[11] = 25
    BY <2>4
  <2>7. \A p \in 1 .. 10 : p >= 5 => Waiting(AllTrace, 20)[p] < 25
    BY <2>4
  <2> QED
    BY <2>1, <2>3, <2>5, <2>6, <2>7 DEF SlotFits
<1>27. TurnFits(AllTrace, 26) /\ SlotFits(AllTrace, 26)
  <2>1. /\ AllTrace.pos[26] = 8 /\ AllTrace.order[8] = 26 /\ AllTrace.deps[26] = <<>>
        /\ AllTrace.ready[26] = 0 /\ AllTrace.slot[26] = 8
    BY DEF AllTrace, AllOrder, AllPos, AllReady, AllSlot, AllDeps
  <2>3. TurnFits(AllTrace, 26)
    BY <1>1, <2>1 DEF TurnFits
  <2>4. Waiting(AllTrace, 0) = <<1, 4, 5, 6, 7, 8, 9, 26, 31, 32, 33, 34>>
    BY DEF Waiting, AllTrace, AllQueues
  <2>5. FirstNew(AllTrace, 0) = 1
    BY DEF FirstNew, Waiting, AllTrace, AllQueues
  <2>6. 8 \in 1 .. Len(Waiting(AllTrace, 0)) /\ Waiting(AllTrace, 0)[8] = 26
    BY <2>4
  <2>7. \A p \in 1 .. 7 : p >= 1 => Waiting(AllTrace, 0)[p] < 26
    BY <2>4
  <2> QED
    BY <2>1, <2>3, <2>5, <2>6, <2>7 DEF SlotFits
<1>28. TurnFits(AllTrace, 27) /\ SlotFits(AllTrace, 27)
  <2>1. /\ AllTrace.pos[27] = 18 /\ AllTrace.order[18] = 27 /\ AllTrace.deps[27] = <<20, 19>>
        /\ AllTrace.ready[27] = 13 /\ AllTrace.slot[27] = 8
    BY DEF AllTrace, AllOrder, AllPos, AllReady, AllSlot, AllDeps
  <2>2. AllTrace.pos[20] = 13 /\ AllTrace.pos[19] = 11 /\ AllTrace.order[13] = 20
    BY DEF AllTrace, AllOrder, AllPos
  <2>3. TurnFits(AllTrace, 27)
    BY <1>1, <2>1, <2>2 DEF TurnFits
  <2>4. Waiting(AllTrace, 13) = <<10, 4, 5, 6, 7, 12, 22, 27, 28>>
    BY DEF Waiting, AllTrace, AllQueues
  <2>5. FirstNew(AllTrace, 13) = 6
    BY DEF FirstNew, Waiting, AllTrace, AllQueues
  <2>6. 8 \in 1 .. Len(Waiting(AllTrace, 13)) /\ Waiting(AllTrace, 13)[8] = 27
    BY <2>4
  <2>7. \A p \in 1 .. 7 : p >= 6 => Waiting(AllTrace, 13)[p] < 27
    BY <2>4
  <2> QED
    BY <2>1, <2>3, <2>5, <2>6, <2>7 DEF SlotFits
<1>29. TurnFits(AllTrace, 28) /\ SlotFits(AllTrace, 28)
  <2>1. /\ AllTrace.pos[28] = 15 /\ AllTrace.order[15] = 28 /\ AllTrace.deps[28] = <<20, 19>>
        /\ AllTrace.ready[28] = 13 /\ AllTrace.slot[28] = 9
    BY DEF AllTrace, AllOrder, AllPos, AllReady, AllSlot, AllDeps
  <2>2. AllTrace.pos[20] = 13 /\ AllTrace.pos[19] = 11 /\ AllTrace.order[13] = 20
    BY DEF AllTrace, AllOrder, AllPos
  <2>3. TurnFits(AllTrace, 28)
    BY <1>1, <2>1, <2>2 DEF TurnFits
  <2>4. Waiting(AllTrace, 13) = <<10, 4, 5, 6, 7, 12, 22, 27, 28>>
    BY DEF Waiting, AllTrace, AllQueues
  <2>5. FirstNew(AllTrace, 13) = 6
    BY DEF FirstNew, Waiting, AllTrace, AllQueues
  <2>6. 9 \in 1 .. Len(Waiting(AllTrace, 13)) /\ Waiting(AllTrace, 13)[9] = 28
    BY <2>4
  <2>7. \A p \in 1 .. 8 : p >= 6 => Waiting(AllTrace, 13)[p] < 28
    BY <2>4
  <2> QED
    BY <2>1, <2>3, <2>5, <2>6, <2>7 DEF SlotFits
<1>30. TurnFits(AllTrace, 29) /\ SlotFits(AllTrace, 29)
  <2>1. /\ AllTrace.pos[29] = 23 /\ AllTrace.order[23] = 29 /\ AllTrace.deps[29] = <<12, 9>>
        /\ AllTrace.ready[29] = 20 /\ AllTrace.slot[29] = 12
    BY DEF AllTrace, AllOrder, AllPos, AllReady, AllSlot, AllDeps
  <2>2. AllTrace.pos[12] = 20 /\ AllTrace.pos[9] = 9 /\ AllTrace.order[20] = 12
    BY DEF AllTrace, AllOrder, AllPos
  <2>3. TurnFits(AllTrace, 29)
    BY <1>1, <2>1, <2>2 DEF TurnFits
  <2>4. Waiting(AllTrace, 20) = <<7, 4, 5, 6, 14, 15, 16, 18, 21, 23, 25,
        29, 30>>
    BY DEF Waiting, AllTrace, AllQueues
  <2>5. FirstNew(AllTrace, 20) = 5
    BY DEF FirstNew, Waiting, AllTrace, AllQueues
  <2>6. 12 \in 1 .. Len(Waiting(AllTrace, 20)) /\ Waiting(AllTrace, 20)[12] = 29
    BY <2>4
  <2>7. \A p \in 1 .. 11 : p >= 5 => Waiting(AllTrace, 20)[p] < 29
    BY <2>4
  <2> QED
    BY <2>1, <2>3, <2>5, <2>6, <2>7 DEF SlotFits
<1>31. TurnFits(AllTrace, 30) /\ SlotFits(AllTrace, 30)
  <2>1. /\ AllTrace.pos[30] = 22 /\ AllTrace.order[22] = 30 /\ AllTrace.deps[30] = <<12, 9>>
        /\ AllTrace.ready[30] = 20 /\ AllTrace.slot[30] = 13
    BY DEF AllTrace, AllOrder, AllPos, AllReady, AllSlot, AllDeps
  <2>2. AllTrace.pos[12] = 20 /\ AllTrace.pos[9] = 9 /\ AllTrace.order[20] = 12
    BY DEF AllTrace, AllOrder, AllPos
  <2>3. TurnFits(AllTrace, 30)
    BY <1>1, <2>1, <2>2 DEF TurnFits
  <2>4. Waiting(AllTrace, 20) = <<7, 4, 5, 6, 14, 15, 16, 18, 21, 23, 25,
        29, 30>>
    BY DEF Waiting, AllTrace, AllQueues
  <2>5. FirstNew(AllTrace, 20) = 5
    BY DEF FirstNew, Waiting, AllTrace, AllQueues
  <2>6. 13 \in 1 .. Len(Waiting(AllTrace, 20)) /\ Waiting(AllTrace, 20)[13] = 30
    BY <2>4
  <2>7. \A p \in 1 .. 12 : p >= 5 => Waiting(AllTrace, 20)[p] < 30
    BY <2>4
  <2> QED
    BY <2>1, <2>3, <2>5, <2>6, <2>7 DEF SlotFits
<1>32. TurnFits(AllTrace, 31) /\ SlotFits(AllTrace, 31)
  <2>1. /\ AllTrace.pos[31] = 7 /\ AllTrace.order[7] = 31 /\ AllTrace.deps[31] = <<>>
        /\ AllTrace.ready[31] = 0 /\ AllTrace.slot[31] = 9
    BY DEF AllTrace, AllOrder, AllPos, AllReady, AllSlot, AllDeps
  <2>3. TurnFits(AllTrace, 31)
    BY <1>1, <2>1 DEF TurnFits
  <2>4. Waiting(AllTrace, 0) = <<1, 4, 5, 6, 7, 8, 9, 26, 31, 32, 33, 34>>
    BY DEF Waiting, AllTrace, AllQueues
  <2>5. FirstNew(AllTrace, 0) = 1
    BY DEF FirstNew, Waiting, AllTrace, AllQueues
  <2>6. 9 \in 1 .. Len(Waiting(AllTrace, 0)) /\ Waiting(AllTrace, 0)[9] = 31
    BY <2>4
  <2>7. \A p \in 1 .. 8 : p >= 1 => Waiting(AllTrace, 0)[p] < 31
    BY <2>4
  <2> QED
    BY <2>1, <2>3, <2>5, <2>6, <2>7 DEF SlotFits
<1>33. TurnFits(AllTrace, 32) /\ SlotFits(AllTrace, 32)
  <2>1. /\ AllTrace.pos[32] = 6 /\ AllTrace.order[6] = 32 /\ AllTrace.deps[32] = <<>>
        /\ AllTrace.ready[32] = 0 /\ AllTrace.slot[32] = 10
    BY DEF AllTrace, AllOrder, AllPos, AllReady, AllSlot, AllDeps
  <2>3. TurnFits(AllTrace, 32)
    BY <1>1, <2>1 DEF TurnFits
  <2>4. Waiting(AllTrace, 0) = <<1, 4, 5, 6, 7, 8, 9, 26, 31, 32, 33, 34>>
    BY DEF Waiting, AllTrace, AllQueues
  <2>5. FirstNew(AllTrace, 0) = 1
    BY DEF FirstNew, Waiting, AllTrace, AllQueues
  <2>6. 10 \in 1 .. Len(Waiting(AllTrace, 0)) /\ Waiting(AllTrace, 0)[10] = 32
    BY <2>4
  <2>7. \A p \in 1 .. 9 : p >= 1 => Waiting(AllTrace, 0)[p] < 32
    BY <2>4
  <2> QED
    BY <2>1, <2>3, <2>5, <2>6, <2>7 DEF SlotFits
<1>34. TurnFits(AllTrace, 33) /\ SlotFits(AllTrace, 33)
  <2>1. /\ AllTrace.pos[33] = 4 /\ AllTrace.order[4] = 33 /\ AllTrace.deps[33] = <<>>
        /\ AllTrace.ready[33] = 0 /\ AllTrace.slot[33] = 11
    BY DEF AllTrace, AllOrder, AllPos, AllReady, AllSlot, AllDeps
  <2>3. TurnFits(AllTrace, 33)
    BY <1>1, <2>1 DEF TurnFits
  <2>4. Waiting(AllTrace, 0) = <<1, 4, 5, 6, 7, 8, 9, 26, 31, 32, 33, 34>>
    BY DEF Waiting, AllTrace, AllQueues
  <2>5. FirstNew(AllTrace, 0) = 1
    BY DEF FirstNew, Waiting, AllTrace, AllQueues
  <2>6. 11 \in 1 .. Len(Waiting(AllTrace, 0)) /\ Waiting(AllTrace, 0)[11] = 33
    BY <2>4
  <2>7. \A p \in 1 .. 10 : p >= 1 => Waiting(AllTrace, 0)[p] < 33
    BY <2>4
  <2> QED
    BY <2>1, <2>3, <2>5, <2>6, <2>7 DEF SlotFits
<1>35. TurnFits(AllTrace, 34) /\ SlotFits(AllTrace, 34)
  <2>1. /\ AllTrace.pos[34] = 2 /\ AllTrace.order[2] = 34 /\ AllTrace.deps[34] = <<>>
        /\ AllTrace.ready[34] = 0 /\ AllTrace.slot[34] = 12
    BY DEF AllTrace, AllOrder, AllPos, AllReady, AllSlot, AllDeps
  <2>3. TurnFits(AllTrace, 34)
    BY <1>1, <2>1 DEF TurnFits
  <2>4. Waiting(AllTrace, 0) = <<1, 4, 5, 6, 7, 8, 9, 26, 31, 32, 33, 34>>
    BY DEF Waiting, AllTrace, AllQueues
  <2>5. FirstNew(AllTrace, 0) = 1
    BY DEF FirstNew, Waiting, AllTrace, AllQueues
  <2>6. 12 \in 1 .. Len(Waiting(AllTrace, 0)) /\ Waiting(AllTrace, 0)[12] = 34
    BY <2>4
  <2>7. \A p \in 1 .. 11 : p >= 1 => Waiting(AllTrace, 0)[p] < 34
    BY <2>4
  <2> QED
    BY <2>1, <2>3, <2>5, <2>6, <2>7 DEF SlotFits
<1> QED
  BY <1>2, <1>3, <1>4, <1>5, <1>6, <1>7, <1>8, <1>9, <1>10, <1>11, <1>12,
     <1>13, <1>14, <1>15, <1>16, <1>17, <1>18, <1>19, <1>20, <1>21, <1>22,
     <1>23, <1>24, <1>25, <1>26, <1>27, <1>28, <1>29, <1>30, <1>31, <1>32,
     <1>33, <1>34, <1>35

(* The dependencies each pass declares.                                     *)
LEMMA AllDependencies ==
  ASSUME registered = registerAllPasses
  PROVE  \A i \in 1 .. 34 : DepsFit(AllTrace, i)
<1>1. DOMAIN registered = 1 .. 34
  BY AllRounds
<1>2. DepsFit(AllTrace, 1)
  BY <1>1 DEF DepsFit, registerAllPasses, CFGPass, Pass, AllTrace, AllDeps
<1>3. DepsFit(AllTrace, 2)
  <2>1. registered[2].deps = <<"cfg">>
    BY DEF registerAllPasses, DFGPass, Pass
  <2>2. registered[1].name = "cfg"
    BY DEF registerAllPasses, CFGPass, Pass
  <2>3. AllTrace.deps[2] = <<1>>
    BY DEF AllTrace, AllDeps
  <2> QED
    BY <1>1, <2>1, <2>2, <2>3 DEF DepsFit
<1>4. DepsFit(AllTrace, 3)
  <2>1. registered[3].deps = <<"cfg", "dfg">>
    BY DEF registerAllPasses, AliasPass, Pass
  <2>2. registered[1].name = "cfg"
    BY DEF registerAllPasses, CFGPass, Pass
  <2>3. registered[2].name = "dfg"
    BY DEF registerAllPasses, DFGPass, Pass
  <2>4. AllTrace.deps[3] = <<1, 2>>
    BY DEF AllTrace, AllDeps
  <2> QED
    BY <1>1, <2>1, <2>2, <2>3, <2>4 DEF DepsFit
<1>5. DepsFit(AllTrace, 4)
  BY <1>1 DEF DepsFit, registerAllPasses, SurfaceClassifierPass, Pass,
              AllTrace, AllDeps
<1>6. DepsFit(AllTrace, 5)
  BY <1>1 DEF DepsFit, registerAllPasses, SemanticResolverPass, Pass,
              AllTrace, AllDeps
<1>7. DepsFit(AllTrace, 6)
  BY <1>1 DEF DepsFit, registerAllPasses, MallocCheckPass, Pass, AllTrace,
              AllDeps
<1>8. DepsFit(AllTrace, 7)
  BY <1>1 DEF DepsFit, registerAllPasses, BufferOverflowPass, Pass,
              AllTrace, AllDeps
<1>9. DepsFit(AllTrace, 8)
  BY <1>1 DEF DepsFit, registerAllPasses, IntegerOverflowPass, Pass,
              AllTrace, AllDeps
<1>10. DepsFit(AllTrace, 9)
  BY <1>1 DEF DepsFit, registerAllPasses, CallGraphPass, Pass, AllTrace,
              AllDeps
<1>11. DepsFit(AllTrace, 10)
  <2>1. registered[10].deps = <<"call-graph">>
    BY DEF registerAllPasses, TaintPropagationPass, Pass
  <2>2. registered[9].name = "call-graph"
    BY DEF registerAllPasses, CallGraphPass, Pass
  <2>3. AllTrace.deps[10] = <<9>>
    BY DEF AllTrace, AllDeps
  <2> QED
    BY <1>1, <2>1, <2>2, <2>3 DEF DepsFit
<1>12. DepsFit(AllTrace, 11)
  <2>1. registered[11].deps = <<"cfg", "dfg", "pointer-flow">>
    BY DEF registerAllPasses, FFIDetectorPass, Pass
  <2>2. registered[1].name = "cfg"
    BY DEF registerAllPasses, CFGPass, Pass
  <2>3. registered[2].name = "dfg"
    BY DEF registerAllPasses, DFGPass, Pass
  <2>4. registered[10].name = "pointer-flow"
    BY DEF registerAllPasses, TaintPropagationPass, Pass
  <2>5. AllTrace.deps[11] = <<1, 2, 10>>
    BY DEF AllTrace, AllDeps
  <2> QED
    BY <1>1, <2>1, <2>2, <2>3, <2>4, <2>5 DEF DepsFit
<1>13. DepsFit(AllTrace, 12)
  <2>1. registered[12].deps = <<"call-graph", "danger-surface">>
    BY DEF registerAllPasses, FFIBoundaryPass, Pass
  <2>2. registered[9].name = "call-graph"
    BY DEF registerAllPasses, CallGraphPass, Pass
  <2>3. registered[20].name = "danger-surface"
    BY DEF registerAllPasses, DangerSurfacePass, Pass
  <2>4. AllTrace.deps[12] = <<9, 20>>
    BY DEF AllTrace, AllDeps
  <2> QED
    BY <1>1, <2>1, <2>2, <2>3, <2>4 DEF DepsFit
<1>14. DepsFit(AllTrace, 13)
  <2>1. registered[13].deps = <<"call-graph">>
    BY DEF registerAllPasses, FFITypeMismatchPass, Pass
  <2>2. registered[9].name = "call-graph"
    BY DEF registerAllPasses, CallGraphPass, Pass
  <2>3. AllTrace.deps[13] = <<9>>
    BY DEF AllTrace, AllDeps
  <2> QED
    BY <1>1, <2>1, <2>2, <2>3 DEF DepsFit
<1>15. DepsFit(AllTrace, 14)
  <2>1. registered[14].deps = <<"call-graph", "ffi-boundary">>
    BY DEF registerAllPasses, AbiCompatChecker, Pass
  <2>2. registered[9].name = "call-graph"
    BY DEF registerAllPasses, CallGraphPass, Pass
  <2>3. registered[12].name = "ffi-boundary"
    BY DEF registerAllPasses, FFIBoundaryPass, Pass
  <2>4. AllTrace.deps[14] = <<9, 12>>
    BY DEF AllTrace, AllDeps
  <2> QED
    BY <1>1, <2>1, <2>2, <2>3, <2>4 DEF DepsFit
<1>16. DepsFit(AllTrace, 15)
  <2>1. registered[15].deps = <<"ffi-boundary">>
    BY DEF registerAllPasses, FFIBodyCheckPass, Pass
  <2>2. registered[12].name = "ffi-boundary"
    BY DEF registerAllPasses, FFIBoundaryPass, Pass
  <2>3. AllTrace.deps[15] = <<12>>
    BY DEF AllTrace, AllDeps
  <2> QED
    BY <1>1, <2>1, <2>2, <2>3 DEF DepsFit
<1>17. DepsFit(AllTrace, 16)
  <2>1. registered[16].deps = <<"ffi-boundary">>
    BY DEF registerAllPasses, JniLeakDetectorPass, Pass
  <2>2. registered[12].name = "ffi-boundary"
    BY DEF registerAllPasses, FFIBoundaryPass, Pass
  <2>3. AllTrace.deps[16] = <<12>>
    BY DEF AllTrace, AllDeps
  <2> QED
    BY <1>1, <2>1, <2>2, <2>3 DEF DepsFit
<1>18. DepsFit(AllTrace, 17)
  <2>1. registered[17].deps = <<"cfg", "dfg", "pointer-flow">>
    BY DEF registerAllPasses, FFIAnalysisPass, Pass
  <2>2. registered[1].name = "cfg"
    BY DEF registerAllPasses, CFGPass, Pass
  <2>3. registered[2].name = "dfg"
    BY DEF registerAllPasses, DFGPass, Pass
  <2>4. registered[10].name = "pointer-flow"
    BY DEF registerAllPasses, TaintPropagationPass, Pass
  <2>5. AllTrace.deps[17] = <<1, 2, 10>>
    BY DEF AllTrace, AllDeps
  <2> QED
    BY <1>1, <2>1, <2>2, <2>3, <2>4, <2>5 DEF DepsFit
<1>19. DepsFit(AllTrace, 18)
  <2>1. registered[18].deps = <<"ffi-boundary">>
    BY DEF registerAllPasses, FFIUnsafePass, Pass
  <2>2. registered[12].name = "ffi-boundary"
    BY DEF registerAllPasses, FFIBoundaryPass, Pass
  <2>3. AllTrace.deps[18] = <<12>>
    BY DEF AllTrace, AllDeps
  <2> QED
    BY <1>1, <2>1, <2>2, <2>3 DEF DepsFit
<1>20. DepsFit(AllTrace, 19)
  <2>1. registered[19].deps = <<"call-graph">>
    BY DEF registerAllPasses, PtrLifetimePass, Pass
  <2>2. registered[9].name = "call-graph"
    BY DEF registerAllPasses, CallGraphPass, Pass
  <2>3. AllTrace.deps[19] = <<9>>
    BY DEF AllTrace, AllDeps
  <2> QED
    BY <1>1, <2>1, <2>2, <2>3 DEF DepsFit
<1>21. DepsFit(AllTrace, 20)
  <2>1. registered[20].deps = <<"call-graph", "ptr-lifetime">>
    BY DEF registerAllPasses, DangerSurfacePass, Pass
  <2>2. registered[9].name = "call-graph"
    BY DEF registerAllPasses, CallGraphPass, Pass
  <2>3. registered[19].name = "ptr-lifetime"
    BY DEF registerAllPasses, PtrLifetimePass, Pass
  <2>4. AllTrace.deps[20] = <<9, 19>>
    BY DEF AllTrace, AllDeps
  <2> QED
    BY <1>1, <2>1, <2>2, <2>3, <2>4 DEF DepsFit
<1>22. DepsFit(AllTrace, 21)
  <2>1. registered[21].deps = <<"ffi-boundary">>
    BY DEF registerAllPasses, PointerOwnershipPass, Pass
  <2>2. registered[12].name = "ffi-boundary"
    BY DEF registerAllPasses, FFIBoundaryPass, Pass
  <2>3. AllTrace.deps[21] = <<12>>
    BY DEF AllTrace, AllDeps
  <2> QED
    BY <1>1, <2>1, <2>2, <2>3 DEF DepsFit
<1>23. DepsFit(AllTrace, 22)
  <2>1. registered[22].deps = <<"call-graph", "danger-surface">>
    BY DEF registerAllPasses, CallbackEscapePass, Pass
  <2>2. registered[9].name = "call-graph"
    BY DEF registerAllPasses, CallGraphPass, Pass
  <2>3. registered[20].name = "danger-surface"
    BY DEF registerAllPasses, DangerSurfacePass, Pass
  <2>4. AllTrace.deps[22] = <<9, 20>>
    BY DEF AllTrace, AllDeps
  <2> QED
    BY <1>1, <2>1, <2>2, <2>3, <2>4 DEF DepsFit
<1>24. DepsFit(AllTrace, 23)
  <2>1. registered[23].deps = <<"ffi-boundary", "call-graph">>
    BY DEF registerAllPasses, CallbackLifecycleChecker, Pass
  <2>2. registered[12].name = "ffi-boundary"
    BY DEF registerAllPasses, FFIBoundaryPass, Pass
  <2>3. registered[9].name = "call-graph"
    BY DEF registerAllPasses, CallGraphPass, Pass
  <2>4. AllTrace.deps[23] = <<12, 9>>
    BY DEF AllTrace, AllDeps
  <2> QED
    BY <1>1, <2>1, <2>2, <2>3, <2>4 DEF DepsFit
<1>25. DepsFit(AllTrace, 24)
  <2>1. registered[24].deps = <<"SemanticResolver">>
    BY DEF registerAllPasses, RustFfiAuditor, Pass
  <2>2. registered[5].name = "SemanticResolver"
    BY DEF registerAllPasses, SemanticResolverPass, Pass
  <2>3. AllTrace.deps[24] = <<5>>
    BY DEF AllTrace, AllDeps
  <2> QED
    BY <1>1, <2>1, <2>2, <2>3 DEF DepsFit
<1>26. DepsFit(AllTrace, 25)
  <2>1. registered[25].deps = <<"ffi-boundary", "pointer-flow">>
    BY DEF registerAllPasses, CrossLangDataFlowPass, Pass
  <2>2. registered[12].name = "ffi-boundary"
    BY DEF registerAllPasses, FFIBoundaryPass, Pass
  <2>3. registered[10].name = "pointer-flow"
    BY DEF registerAllPasses, TaintPropagationPass, Pass
  <2>4. AllTrace.deps[25] = <<12, 10>>
    BY DEF AllTrace, AllDeps
  <2> QED
    BY <1>1, <2>1, <2>2, <2>3, <2>4 DEF DepsFit
<1>27. DepsFit(AllTrace, 26)
  BY <1>1 DEF DepsFit, registerAllPasses, ReturnCheckPass, Pass, AllTrace,
              AllDeps
<1>28. DepsFit(AllTrace, 27)
  <2>1. registered[27].deps = <<"danger-surface", "ptr-lifetime">>
    BY DEF registerAllPasses, MemorySafetyPass, Pass
  <2>2. registered[20].name = "danger-surface"
    BY DEF registerAllPasses, DangerSurfacePass, Pass
  <2>3. registered[19].name = "ptr-lifetime"
    BY DEF registerAllPasses, PtrLifetimePass, Pass
  <2>4. AllTrace.deps[27] = <<20, 19>>
    BY DEF AllTrace, AllDeps
  <2> QED
    BY <1>1, <2>1, <2>2, <2>3, <2>4 DEF DepsFit
<1>29. DepsFit(AllTrace, 28)
  <2>1. registered[28].deps = <<"danger-surface", "ptr-lifetime">>
    BY DEF registerAllPasses, FreeValidationPass, Pass
  <2>2. registered[20].name = "danger-surface"
    BY DEF registerAllPasses, DangerSurfacePass, Pass
  <2>3. registered[19].name = "ptr-lifetime"
    BY DEF registerAllPasses, PtrLifetimePass, Pass
  <2>4. AllTrace.deps[28] = <<20, 19>>
    BY DEF AllTrace, AllDeps
  <2> QED
    BY <1>1, <2>1, <2>2, <2>3, <2>4 DEF DepsFit
<1>30. DepsFit(AllTrace, 29)
  <2>1. registered[29].deps = <<"ffi-boundary", "call-graph">>
    BY DEF registerAllPasses, GcSafetyPass, Pass
  <2>2. registered[12].name = "ffi-boundary"
    BY DEF registerAllPasses, FFIBoundaryPass, Pass
  <2>3. registered[9].name = "call-graph"
    BY DEF registerAllPasses, CallGraphPass, Pass
  <2>4. AllTrace.deps[29] = <<12, 9>>
    BY DEF AllTrace, AllDeps
  <2> QED
    BY <1>1, <2>1, <2>2, <2>3, <2>4 DEF DepsFit
<1>31. DepsFit(AllTrace, 30)
  <2>1. registered[30].deps = <<"ffi-boundary", "call-graph">>
    BY DEF registerAllPasses, ErrorPropagationTracer, Pass
  <2>2. registered[12].name = "ffi-boundary"
    BY DEF registerAllPasses, FFIBoundaryPass, Pass
  <2>3. registered[9].name = "call-graph"
    BY DEF registerAllPasses, CallGraphPass, Pass
  <2>4. AllTrace.deps[30] = <<12, 9>>
    BY DEF AllTrace, AllDeps
  <2> QED
    BY <1>1, <2>1, <2>2, <2>3, <2>4 DEF DepsFit
<1>32. DepsFit(AllTrace, 31)
  BY <1>1 DEF DepsFit, registerAllPasses, LockPass, Pass, AllTrace, AllDeps
<1>33. DepsFit(AllTrace, 32)
  BY <1>1 DEF DepsFit, registerAllPasses, LayoutMismatchPass, Pass,
              AllTrace, AllDeps
<1>34. DepsFit(AllTrace, 33)
  BY <1>1 DEF DepsFit, registerAllPasses, StringSafetyPass, Pass, AllTrace,
              AllDeps
<1>35. DepsFit(AllTrace, 34)
  BY <1>1 DEF DepsFit, registerAllPasses, UnwindBoundaryPass, Pass,
              AllTrace, AllDeps
<1> QED
  BY <1>2, <1>3, <1>4, <1>5, <1>6, <1>7, <1>8, <1>9, <1>10, <1>11, <1>12,
     <1>13, <1>14, <1>15, <1>16, <1>17, <1>18, <1>19, <1>20, <1>21, <1>22,
     <1>23, <1>24, <1>25, <1>26, <1>27, <1>28, <1>29, <1>30, <1>31, <1>32,
     <1>33, <1>34, <1>35

(* What each pass reads, and the pass before it that fills it.              *)
LEMMA SafetySources ==
  ASSUME registered = runSafetyOnlyPipeline
  PROVE  Sourced(SafetyTrace)
<1>1. DOMAIN registered = 1 .. 9
  BY SafetyRounds
<1>2. registered = runSafetyOnlyPipeline
  OBVIOUS
<1>3. registered[1].writes = {"edges"} /\ SafetyTrace.pos[1] = 1
  BY DEF runSafetyOnlyPipeline, CallGraphPass, Pass, SafetyTrace, SafetyPos
<1>4. registered[5].writes = {"memory"} /\ SafetyTrace.pos[5] = 3
  BY DEF runSafetyOnlyPipeline, PtrLifetimePass, Pass, SafetyTrace, SafetyPos
<1>5. registered[6].writes = {"functions", "allocs"} /\ SafetyTrace.pos[6] = 5
  BY DEF runSafetyOnlyPipeline, DangerSurfacePass, Pass, SafetyTrace, SafetyPos
<1>6. Supplied(SafetyTrace, 1)
  BY DEF Supplied, runSafetyOnlyPipeline, CallGraphPass, Pass
<1>7. Supplied(SafetyTrace, 2)
  BY DEF Supplied, runSafetyOnlyPipeline, MallocCheckPass, Pass
<1>8. Supplied(SafetyTrace, 3)
  <2>1. registered[3].reads = {"allocs", "surfaces"} /\ registered[3].name =
        "buffer-overflow"
    BY DEF runSafetyOnlyPipeline, BufferOverflowPass, Pass
  <2>2. SafetyTrace.pos[3] = 4
    BY DEF SafetyTrace, SafetyPos
  <2> QED
    BY <1>1, <1>2, <2>1, <2>2 DEF Supplied
<1>9. Supplied(SafetyTrace, 4)
  BY DEF Supplied, runSafetyOnlyPipeline, IntegerOverflowPass, Pass
<1>10. Supplied(SafetyTrace, 5)
  <2>1. registered[5].reads = {"edges", "functions", "allocs", "surfaces"}
        /\ registered[5].name = "ptr-lifetime"
    BY DEF runSafetyOnlyPipeline, PtrLifetimePass, Pass
  <2>2. SafetyTrace.pos[5] = 3
    BY DEF SafetyTrace, SafetyPos
  <2> QED
    BY <1>1, <1>2, <1>3, <2>1, <2>2 DEF Supplied
<1>11. Supplied(SafetyTrace, 6)
  <2>1. registered[6].reads = {"edges", "memory"}
    BY DEF runSafetyOnlyPipeline, DangerSurfacePass, Pass
  <2>2. SafetyTrace.pos[6] = 5
    BY DEF SafetyTrace, SafetyPos
  <2> QED
    BY <1>1, <1>3, <1>4, <2>1, <2>2 DEF Supplied
<1>12. Supplied(SafetyTrace, 7)
  <2>1. registered[7].reads = {"edges", "memory", "functions", "allocs",
        "surfaces"}
    BY DEF runSafetyOnlyPipeline, MemorySafetyPass, Pass
  <2>2. SafetyTrace.pos[7] = 9
    BY DEF SafetyTrace, SafetyPos
  <2> QED
    BY <1>1, <1>3, <1>4, <1>5, <2>1, <2>2 DEF Supplied
<1>13. Supplied(SafetyTrace, 8)
  <2>1. registered[8].reads = {"edges", "memory", "functions", "allocs",
        "surfaces"}
    BY DEF runSafetyOnlyPipeline, FreeValidationPass, Pass
  <2>2. SafetyTrace.pos[8] = 8
    BY DEF SafetyTrace, SafetyPos
  <2> QED
    BY <1>1, <1>3, <1>4, <1>5, <2>1, <2>2 DEF Supplied
<1>14. Supplied(SafetyTrace, 9)
  <2>1. registered[9].reads = {"edges", "memory", "functions", "allocs",
        "surfaces"}
    BY DEF runSafetyOnlyPipeline, CallbackEscapePass, Pass
  <2>2. SafetyTrace.pos[9] = 7
    BY DEF SafetyTrace, SafetyPos
  <2> QED
    BY <1>1, <1>3, <1>4, <1>5, <2>1, <2>2 DEF Supplied
<1> QED
  BY <1>1, <1>6, <1>7, <1>8, <1>9, <1>10, <1>11, <1>12, <1>13, <1>14 DEF Sourced

(* The lists of the nine passes are a trace.                                *)
LEMMA SafetyIsTrace ==
  ASSUME registered = runSafetyOnlyPipeline
  PROVE  IsTrace(SafetyTrace)
<1>1. /\ DOMAIN registered = 1 .. 9 /\ Len(registered) = 9
      /\ \A k \in 0 .. 9 : Len(Waiting(SafetyTrace, k)) \in Nat /\ QueueFits(SafetyTrace, k)
      /\ \A k \in 0 .. 9 - 1 : RoundFits(SafetyTrace, k)
      /\ Len(Waiting(SafetyTrace, 9)) = 0
  BY SafetyRounds
<1>2. \A i \in 1 .. 9 : PassFits(SafetyTrace, i)
  BY <1>1, SafetyPlaces, SafetyDependencies, PlacedPassFits
<1> QED
  BY <1>1, <1>2 DEF IsTrace

(* What each pass reads, and the pass before it that fills it.              *)
LEMMA AllSources ==
  ASSUME registered = registerAllPasses
  PROVE  Sourced(AllTrace)
<1>1. DOMAIN registered = 1 .. 34
  BY AllRounds
<1>2. registered # runSafetyOnlyPipeline
  <2>1. Len(runSafetyOnlyPipeline) = 9 /\ Len(registered) = 34
    BY DEF runSafetyOnlyPipeline, registerAllPasses
  <2> QED
    BY <2>1
<1>3. registered[9].writes = {"edges"} /\ AllTrace.pos[9] = 9
  BY DEF registerAllPasses, CallGraphPass, Pass, AllTrace, AllPos
<1>4. registered[19].writes = {"memory"} /\ AllTrace.pos[19] = 11
  BY DEF registerAllPasses, PtrLifetimePass, Pass, AllTrace, AllPos
<1>5. registered[10].writes = {"taint"} /\ AllTrace.pos[10] = 14
  BY DEF registerAllPasses, TaintPropagationPass, Pass, AllTrace, AllPos
<1>6. registered[17].writes = {"boundaries"} /\ AllTrace.pos[17] = 16
  BY DEF registerAllPasses, FFIAnalysisPass, Pass, AllTrace, AllPos
<1>7. registered[21].writes = {"transfers"} /\ AllTrace.pos[21] = 26
  BY DEF registerAllPasses, PointerOwnershipPass, Pass, AllTrace, AllPos
<1>8. registered[20].writes = {"functions", "allocs"} /\ AllTrace.pos[20] = 13
  BY DEF registerAllPasses, DangerSurfacePass, Pass, AllTrace, AllPos
<1>9. Supplied(AllTrace, 1)
  BY DEF Supplied, registerAllPasses, CFGPass, Pass
<1>10. Supplied(AllTrace, 2)
  BY DEF Supplied, registerAllPasses, DFGPass, Pass
<1>11. Supplied(AllTrace, 3)
  BY DEF Supplied, registerAllPasses, AliasPass, Pass
<1>12. Supplied(AllTrace, 4)
  BY DEF Supplied, registerAllPasses, SurfaceClassifierPass, Pass
<1>13. Supplied(AllTrace, 5)
  BY DEF Supplied, registerAllPasses, SemanticResolverPass, Pass
<1>14. Supplied(AllTrace, 6)
  BY DEF Supplied, registerAllPasses, MallocCheckPass, Pass
<1>15. Supplied(AllTrace, 7)
  <2>1. registered[7].reads = {"allocs", "surfaces"}
    BY DEF registerAllPasses, BufferOverflowPass, Pass
  <2>2. AllTrace.pos[7] = 21
    BY DEF AllTrace, AllPos
  <2> QED
    BY <1>1, <1>8, <2>1, <2>2 DEF Supplied
<1>16. Supplied(AllTrace, 8)
  BY DEF Supplied, registerAllPasses, IntegerOverflowPass, Pass
<1>17. Supplied(AllTrace, 9)
  BY DEF Supplied, registerAllPasses, CallGraphPass, Pass
<1>18. Supplied(AllTrace, 10)
  <2>1. registered[10].reads = {"edges", "functions", "allocs", "surfaces"}
    BY DEF registerAllPasses, TaintPropagationPass, Pass
  <2>2. AllTrace.pos[10] = 14
    BY DEF AllTrace, AllPos
  <2> QED
    BY <1>1, <1>3, <1>8, <2>1, <2>2 DEF Supplied
<1>19. Supplied(AllTrace, 11)
  <2>1. registered[11].reads = {"edges", "taint"}
    BY DEF registerAllPasses, FFIDetectorPass, Pass
  <2>2. AllTrace.pos[11] = 17
    BY DEF AllTrace, AllPos
  <2> QED
    BY <1>1, <1>3, <1>5, <2>1, <2>2 DEF Supplied
<1>20. Supplied(AllTrace, 12)
  <2>1. registered[12].reads = {"edges", "functions", "surfaces"}
    BY DEF registerAllPasses, FFIBoundaryPass, Pass
  <2>2. AllTrace.pos[12] = 20
    BY DEF AllTrace, AllPos
  <2> QED
    BY <1>1, <1>3, <1>8, <2>1, <2>2 DEF Supplied
<1>21. Supplied(AllTrace, 13)
  <2>1. registered[13].reads = {"edges", "allocs", "surfaces"} /\
        registered[13].name = "ffi-type-mismatch"
    BY DEF registerAllPasses, FFITypeMismatchPass, Pass
  <2>2. AllTrace.pos[13] = 12
    BY DEF AllTrace, AllPos
  <2> QED
    BY <1>1, <1>2, <1>3, <2>1, <2>2 DEF Supplied
<1>22. Supplied(AllTrace, 14)
  <2>1. registered[14].reads = {"edges", "surfaces"}
    BY DEF registerAllPasses, AbiCompatChecker, Pass
  <2>2. AllTrace.pos[14] = 30
    BY DEF AllTrace, AllPos
  <2> QED
    BY <1>1, <1>3, <2>1, <2>2 DEF Supplied
<1>23. Supplied(AllTrace, 15)
  <2>1. registered[15].reads = {"boundaries", "resolution", "tainted",
        "surfaces"}
    BY DEF registerAllPasses, FFIBodyCheckPass, Pass
  <2>2. AllTrace.pos[15] = 29
    BY DEF AllTrace, AllPos
  <2> QED
    BY <1>1, <1>6, <2>1, <2>2 DEF Supplied
<1>24. Supplied(AllTrace, 16)
  BY DEF Supplied, registerAllPasses, JniLeakDetectorPass, Pass
<1>25. Supplied(AllTrace, 17)
  BY DEF Supplied, registerAllPasses, FFIAnalysisPass, Pass
<1>26. Supplied(AllTrace, 18)
  <2>1. registered[18].reads = {"boundaries", "surfaces"}
    BY DEF registerAllPasses, FFIUnsafePass, Pass
  <2>2. AllTrace.pos[18] = 27
    BY DEF AllTrace, AllPos
  <2> QED
    BY <1>1, <1>6, <2>1, <2>2 DEF Supplied
<1>27. Supplied(AllTrace, 19)
  <2>1. registered[19].reads = {"edges", "functions", "allocs", "surfaces"}
        /\ registered[19].name = "ptr-lifetime"
    BY DEF registerAllPasses, PtrLifetimePass, Pass
  <2>2. AllTrace.pos[19] = 11
    BY DEF AllTrace, AllPos
  <2> QED
    BY <1>1, <1>2, <1>3, <2>1, <2>2 DEF Supplied
<1>28. Supplied(AllTrace, 20)
  <2>1. registered[20].reads = {"edges", "memory"}
    BY DEF registerAllPasses, DangerSurfacePass, Pass
  <2>2. AllTrace.pos[20] = 13
    BY DEF AllTrace, AllPos
  <2> QED
    BY <1>1, <1>3, <1>4, <2>1, <2>2 DEF Supplied
<1>29. Supplied(AllTrace, 21)
  <2>1. registered[21].reads = {"edges", "memory", "functions",
        "resolution", "surfaces"}
    BY DEF registerAllPasses, PointerOwnershipPass, Pass
  <2>2. AllTrace.pos[21] = 26
    BY DEF AllTrace, AllPos
  <2> QED
    BY <1>1, <1>3, <1>4, <1>8, <2>1, <2>2 DEF Supplied
<1>30. Supplied(AllTrace, 22)
  <2>1. registered[22].reads = {"edges", "memory", "functions", "allocs",
        "surfaces"}
    BY DEF registerAllPasses, CallbackEscapePass, Pass
  <2>2. AllTrace.pos[22] = 19
    BY DEF AllTrace, AllPos
  <2> QED
    BY <1>1, <1>3, <1>4, <1>8, <2>1, <2>2 DEF Supplied
<1>31. Supplied(AllTrace, 23)
  BY DEF Supplied, registerAllPasses, CallbackLifecycleChecker, Pass
<1>32. Supplied(AllTrace, 24)
  <2>1. registered[24].reads = {"resolution", "memory", "transfers",
        "surfaces"}
    BY DEF registerAllPasses, RustFfiAuditor, Pass
  <2>2. AllTrace.pos[24] = 34
    BY DEF AllTrace, AllPos
  <2> QED
    BY <1>1, <1>4, <1>7, <2>1, <2>2 DEF Supplied
<1>33. Supplied(AllTrace, 25)
  BY DEF Supplied, registerAllPasses, CrossLangDataFlowPass, Pass
<1>34. Supplied(AllTrace, 26)
  BY DEF Supplied, registerAllPasses, ReturnCheckPass, Pass
<1>35. Supplied(AllTrace, 27)
  <2>1. registered[27].reads = {"edges", "memory", "functions", "allocs",
        "surfaces"}
    BY DEF registerAllPasses, MemorySafetyPass, Pass
  <2>2. AllTrace.pos[27] = 18
    BY DEF AllTrace, AllPos
  <2> QED
    BY <1>1, <1>3, <1>4, <1>8, <2>1, <2>2 DEF Supplied
<1>36. Supplied(AllTrace, 28)
  <2>1. registered[28].reads = {"edges", "memory", "functions", "allocs",
        "surfaces"}
    BY DEF registerAllPasses, FreeValidationPass, Pass
  <2>2. AllTrace.pos[28] = 15
    BY DEF AllTrace, AllPos
  <2> QED
    BY <1>1, <1>3, <1>4, <1>8, <2>1, <2>2 DEF Supplied
<1>37. Supplied(AllTrace, 29)
  BY DEF Supplied, registerAllPasses, GcSafetyPass, Pass
<1>38. Supplied(AllTrace, 30)
  BY DEF Supplied, registerAllPasses, ErrorPropagationTracer, Pass
<1>39. Supplied(AllTrace, 31)
  BY DEF Supplied, registerAllPasses, LockPass, Pass
<1>40. Supplied(AllTrace, 32)
  BY DEF Supplied, registerAllPasses, LayoutMismatchPass, Pass
<1>41. Supplied(AllTrace, 33)
  BY DEF Supplied, registerAllPasses, StringSafetyPass, Pass
<1>42. Supplied(AllTrace, 34)
  BY DEF Supplied, registerAllPasses, UnwindBoundaryPass, Pass
<1> QED
  BY <1>1, <1>9, <1>10, <1>11, <1>12, <1>13, <1>14, <1>15, <1>16, <1>17,
     <1>18, <1>19, <1>20, <1>21, <1>22, <1>23, <1>24, <1>25, <1>26, <1>27,
     <1>28, <1>29, <1>30, <1>31, <1>32, <1>33, <1>34, <1>35, <1>36, <1>37,
     <1>38, <1>39, <1>40, <1>41, <1>42 DEF Sourced

(* The lists of the 34 passes are a trace.                                  *)
LEMMA AllIsTrace ==
  ASSUME registered = registerAllPasses
  PROVE  IsTrace(AllTrace)
<1>1. /\ DOMAIN registered = 1 .. 34 /\ Len(registered) = 34
      /\ \A k \in 0 .. 34 : Len(Waiting(AllTrace, k)) \in Nat /\ QueueFits(AllTrace, k)
      /\ \A k \in 0 .. 34 - 1 : RoundFits(AllTrace, k)
      /\ Len(Waiting(AllTrace, 34)) = 0
  BY AllRounds
<1>2. \A i \in 1 .. 34 : PassFits(AllTrace, i)
  BY <1>1, AllPlaces, AllDependencies, PlacedPassFits
<1> QED
  BY <1>1, <1>2 DEF IsTrace

-----------------------------------------------------------------------------
\* The order of the pipeline that runs, if it is one of the two.
KnownInv ==
  /\ registered = runSafetyOnlyPipeline => TraceInv(SafetyTrace)
  /\ registered = registerAllPasses => TraceInv(AllTrace)

(* Nothing is sorted at the start.                                          *)
LEMMA KnownInit == ContextInit => KnownInv
BY DEF ContextInit, Init, KnownInv, TraceInv, Follows, OrderIs, Sorting

(* The pipeline that runs, if it is one of the two, follows its trace.      *)
LEMMA KnownStep ==
  ASSUME Inv, ContextInv, KnownInv, [ContextStep]_allVars
  PROVE  KnownInv'
<1>1. registered' = registered
  BY DEF ContextStep, RegisterNext, StartRun, ResolveStep, RunRegistered, EndOfRun, allVars
<1>2. PipelineInv
  BY DEF ContextInv
<1>3. ASSUME registered = runSafetyOnlyPipeline
      PROVE  TraceInv(SafetyTrace)'
  BY <1>2, <1>3, SafetyIsTrace, TraceStep DEF KnownInv
<1>4. ASSUME registered = registerAllPasses
      PROVE  TraceInv(AllTrace)'
  BY <1>2, <1>4, AllIsTrace, TraceStep DEF KnownInv
<1> QED
  BY <1>1, <1>3, <1>4 DEF KnownInv

-----------------------------------------------------------------------------
(* A pipeline with a trace has no cycle: while passes are left, one waits.   *)
LEMMA OneIsWaiting ==
  ASSUME Inv, PipelineInv, NEW t, IsTrace(t), Follows(t)
  PROVE  ~ CycleDetected
<1> SUFFICES ASSUME CycleDetected PROVE FALSE
  OBVIOUS
<1> DEFINE k == Len(result)
           h == t.order[k + 1]
<1>1. pc = "kahn" /\ todo = {} /\ queue = <<>> /\ k # Len(passes) /\ Sorting
  BY DEF CycleDetected, Sorted, Sorting
<1>2. k \in Nat /\ k <= Len(registered) /\ Len(passes) = Len(registered)
      /\ Len(registered) \in Nat /\ Indices = DOMAIN registered /\ QueueFits(t, k)
  BY <1>1, TraceFacts
<1>3. k \in 0 .. (Len(registered) - 1)
  BY <1>1, <1>2
<1> HIDE DEF k
<1>4. RoundFits(t, k) /\ Len(Waiting(t, k)) \in Nat
  BY <1>2, <1>3 DEF IsTrace
<1>5. /\ h \in Indices /\ 1 \in 1 .. Len(Waiting(t, k)) /\ Waiting(t, k)[1] = h
  BY <1>2, <1>4 DEF RoundFits
<1>6. t.ready[h] <= k /\ k < t.pos[h]
  BY <1>2, <1>5 DEF QueueFits
<1>7. In(queue, h)
  BY <1>1, <1>5, <1>6, WaitsInQueue DEF k
<1> QED
  BY <1>1, <1>7 DEF In

(* Every dependency of a pipeline with a trace is the name of a pass.        *)
LEMMA NoneIsMissing ==
  ASSUME Inv, PipelineInv, NEW t, IsTrace(t), Len(passes) = Len(registered), NEW e \in Edges
  PROVE  Dep(e) \in DOMAIN pass_map
<1>1. /\ Indices = DOMAIN registered /\ DOMAIN registered = 1 .. Len(registered)
  BY PipelineFacts DEF Indices
<1>2. e[1] \in Indices /\ e[2] \in DOMAIN passes[e[1]].deps
  BY DEF Edges, EdgesInto
<1>3. registered[e[1]].deps = passes[e[1]].deps
  BY <1>2 DEF PipelineInv
<1>4. PassFits(t, e[1])
  BY <1>1, <1>2 DEF IsTrace
<1>5. PICK d \in Indices : registered[d].name = Dep(e)
  BY <1>1, <1>2, <1>3, <1>4 DEF PassFits, Dep
<1>6. passes[d].name = Dep(e)
  BY <1>5 DEF PipelineInv
<1> QED
  BY <1>5, <1>6 DEF Inv, TypeOK, RegistryOK

(* The sort ends with an order: neither of its two errors can be returned.  *)
LEMMA NeverAborted ==
  ASSUME Inv, PipelineInv, NEW t, IsTrace(t), TraceInv(t), [ContextStep]_allVars,
         outcome \notin {"missing", "cycle"}
  PROVE  outcome' \notin {"missing", "cycle"}
<1>1. CASE StartRun
  <2>1. \A e \in Edges : Dep(e) \in DOMAIN pass_map
    BY <1>1, NoneIsMissing DEF StartRun
  <2> QED
    BY <1>1, <2>1 DEF StartRun, Run, BuildGraph
<1>2. CASE ResolveStep
  <2>1. ~ CycleDetected
    BY OneIsWaiting DEF TraceInv
  <2> QED
    BY <1>2, <2>1 DEF ResolveStep, Seed, Seeded, Dequeue, Relax, StoreOrder
<1>3. CASE RegisterNext \/ RunRegistered \/ EndOfRun \/ UNCHANGED allVars
  BY <1>3 DEF RegisterNext, RegisterPass, RunRegistered, RunPass, EndOfRun, EndRun, allVars, vars
<1> QED
  BY <1>1, <1>2, <1>3 DEF ContextStep

-----------------------------------------------------------------------------
\* The pipelines the program registers (src/pipeline/pipeline.zig).
TwoPipelines == Pipelines \subseteq {registerAllPasses, runSafetyOnlyPipeline}

KnownContext == Inv /\ ContextInv /\ HandInv /\ KnownInv /\ outcome \notin {"missing", "cycle"}

(* All that is known of a run of one of the two pipelines.                  *)
LEMMA KnownInvariance == TwoPipelines => (ContextSpec => []KnownContext)
<1> SUFFICES ASSUME TwoPipelines PROVE ContextSpec => []KnownContext
  OBVIOUS
<1>1. ContextInit => KnownInv /\ HandInv /\ outcome \notin {"missing", "cycle"}
  BY KnownInit DEF ContextInit, Init, HandInv, EarlierFills, OneRunInv
<1>2. ASSUME Inv, ContextInv, KnownContext, [ContextStep]_allVars, Inv'
      PROVE  HandInv' /\ KnownInv' /\ (outcome \notin {"missing", "cycle"})'
  <2>1. HandInv' /\ KnownInv'
    BY <1>2, HandStep, KnownStep DEF KnownContext
  <2>2. PipelineInv /\ registered \in {registerAllPasses, runSafetyOnlyPipeline}
    BY <1>2 DEF ContextInv, PipelineInv, TwoPipelines
  <2>3. \E t : IsTrace(t) /\ TraceInv(t)
    BY <1>2, <2>2, SafetyIsTrace, AllIsTrace DEF KnownContext, KnownInv
  <2>4. outcome' \notin {"missing", "cycle"}
    BY <1>2, <2>2, <2>3, NeverAborted DEF KnownContext
  <2> QED
    BY <2>1, <2>4
<1>3. Inv /\ ContextInv /\ KnownContext /\ [ContextStep]_allVars /\ Inv' /\ ContextInv'
        => KnownContext'
  BY <1>2 DEF KnownContext
<1>4. Inv /\ ContextInv /\ ContextInit => KnownContext
  BY <1>1 DEF KnownContext
<1> QED
  BY <1>3, <1>4, ContextInvariance, PTL DEF ContextSpec

(* In the two pipelines there are, a pass finds edges, the memory graph, taint *)
(* facts, boundaries and transfers unless every pass that fills them failed,  *)
(* and what is relevant but for the two passes that run before it is known.  *)
THEOREM ProducersComeFirst == TwoPipelines => (ContextSpec => []ConsumersFollowProducers)
<1> SUFFICES ASSUME TwoPipelines PROVE ContextSpec => []ConsumersFollowProducers
  OBVIOUS
<1>1. KnownContext => ConsumersFollowProducers
  <2> SUFFICES ASSUME KnownContext PROVE ConsumersFollowProducers
    OBVIOUS
  <2>1. registered \in {registerAllPasses, runSafetyOnlyPipeline}
    BY DEF KnownContext, ContextInv, PipelineInv, TwoPipelines
  <2>2. CASE registered = runSafetyOnlyPipeline
    BY <2>2, SafetyIsTrace, SafetySources, SourcesRan DEF KnownContext, KnownInv
  <2>3. CASE registered = registerAllPasses
    BY <2>3, AllIsTrace, AllSources, SourcesRan DEF KnownContext, KnownInv
  <2> QED
    BY <2>1, <2>2, <2>3
<1> QED
  BY <1>1, KnownInvariance, PTL

\* What the run returned is none of the errors of resolveDependencies.
PipelineRuns == outcome \notin {"missing", "cycle"}

(* Both pipelines can be sorted: every name a pass declares is that of a     *)
(* registered pass, and no dependencies form a cycle (resolveDependencies,   *)
(* src/pass/pass.zig).                                                       *)
THEOREM PipelinesAreSorted == TwoPipelines => (ContextSpec => []PipelineRuns)
<1> SUFFICES ASSUME TwoPipelines PROVE ContextSpec => []PipelineRuns
  OBVIOUS
<1>1. KnownContext => PipelineRuns
  BY DEF KnownContext, PipelineRuns
<1> QED
  BY <1>1, KnownInvariance, PTL

=============================================================================
