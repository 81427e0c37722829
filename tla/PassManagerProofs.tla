-------------------------- MODULE PassManagerProofs ---------------------------
(***************************************************************************)
(* The orders the pass manager computes are schedules, and the cycles it   *)
(* reports are real, for any passes with any dependencies.                 *)
(*                                                                         *)
(* The argument: in_degree[i] counts the edges into i that have not been   *)
(* relaxed, which are those that come from a node outside the result and   *)
(* those still to be done of its last node.  So a node that is queued has  *)
(* all its providers in the result already, and when the queue is empty    *)
(* every node outside the result has a provider outside the result.        *)
(***************************************************************************)
EXTENDS PassManager, FiniteSetTheorems, SequenceTheorems, TLAPS

In(s, x) == \E j \in 1..Len(s) : s[j] = x
Distinct(s) == \A j, k \in 1..Len(s) : s[j] = s[k] => j = k
Sorting == pc \in {"seed", "kahn"}

\* The edges into i that in_degree[i] counts.
Unrelaxed(i) == {e \in EdgesInto(i) : ~In(result, Provider(e)) \/ e \in todo}

\* The map leads to the last pass of each name.
MapInv ==
  \A i \in Indices : LET p == pass_map[passes[i].name] IN
    i <= p /\ passes[p].name = passes[i].name

\* The nodes and edges at hand are nodes and edges of the graph.
GraphInv ==
  Sorting =>
    /\ \A e \in Edges : Dep(e) \in DOMAIN pass_map
    /\ Len(in_degree) = Len(passes)
    /\ \A j \in 1..Len(queue) : queue[j] \in Indices
    /\ \A j \in 1..Len(result) : result[j] \in Indices
    /\ \A e \in todo : e \in Edges /\ Len(result) > 0 /\ Provider(e) = result[Len(result)]

DegreeInv ==
  Sorting => \A i \in Indices : in_degree[i] = Cardinality(Unrelaxed(i))

\* A node is queued, or in the result, once, and only when its count is zero.
QueueInv ==
  Sorting =>
    /\ Distinct(queue) /\ Distinct(result)
    /\ \A i \in Indices : In(queue, i) => in_degree[i] = 0 /\ ~In(result, i)
    /\ \A i \in Indices : In(result, i) => in_degree[i] = 0
    /\ pc = "kahn" =>
         \A i \in Indices : in_degree[i] = 0 => In(queue, i) \/ In(result, i)

\* The seeding loop has looked at the nodes below scan.
SeedInv ==
  pc = "seed" =>
    /\ Len(result) = 0 /\ todo = {}
    /\ \A i \in Indices : i < scan /\ in_degree[i] = 0 => In(queue, i)
    /\ \A i \in Indices : In(queue, i) => i < scan

OrderInv == Sorting => Ordered(result)

\* The passes run so far are the beginning of the order.
RunInv ==
  pc = "running" =>
    /\ resolved
    /\ Len(ran) <= Len(resolved_order)
    /\ \A j \in 1..Len(ran) : ran[j].pass = resolved_order[j]

Inv ==
  /\ TypeOK /\ MapInv /\ GraphInv /\ DegreeInv /\ QueueInv /\ SeedInv
  /\ OrderInv /\ RunInv /\ OrderIsSchedule

-----------------------------------------------------------------------------
(* An interval has its length.                                            *)
LEMMA IntervalSize ==
  ASSUME NEW n \in Nat
  PROVE  IsFiniteSet(1..n) /\ Cardinality(1..n) = n
<1>1. 1 \in Int /\ n \in Int
  OBVIOUS
<1>2. IsFiniteSet(1..n) /\ Cardinality(1..n) = IF 1 > n THEN 0 ELSE n - 1 + 1
  BY <1>1, FS_Interval
<1> QED
  BY <1>2

(* The queue without its first element.                                    *)
LEMMA SwapRemoved ==
  ASSUME NEW S, NEW q \in Seq(S), q # <<>>
  PROVE  /\ SwapRemoveFirst(q) \in Seq(S)
         /\ Len(SwapRemoveFirst(q)) = Len(q) - 1
         /\ \A j \in 1..(Len(q) - 1) :
              SwapRemoveFirst(q)[j] = IF j = 1 THEN q[Len(q)] ELSE q[j]
         /\ \A x : In(SwapRemoveFirst(q), x) => In(q, x)
         /\ \A x : In(q, x) => x = q[1] \/ In(SwapRemoveFirst(q), x)
         /\ Distinct(q) => Distinct(SwapRemoveFirst(q)) /\ ~In(SwapRemoveFirst(q), q[1])
<1> DEFINE r == SwapRemoveFirst(q)
           n == Len(q) - 1
<1>1. n \in Nat /\ Len(q) = n + 1 /\ q \in [1..Len(q) -> S]
  BY EmptySeq, LenProperties
<1>2. r \in [1..n -> S] /\ \A j \in 1..n : r[j] = IF j = 1 THEN q[Len(q)] ELSE q[j]
  BY <1>1 DEF SwapRemoveFirst
<1> HIDE DEF r, n
<1>3. r \in Seq(S) /\ Len(r) = n
  <2>1. r \in Seq(S)
    <3>1. [1..n -> S] \in {[1..m -> S] : m \in Nat}
      BY <1>1
    <3> QED
      BY <1>2, <3>1, SeqDef
  <2>2. DOMAIN r = 1..n /\ Len(r) \in Nat /\ DOMAIN r = 1..Len(r)
    BY <1>2, <2>1, LenProperties
  <2>3. 1..n = 1..Len(r) => n = Len(r)
    BY <1>1, <2>2, IntervalSize
  <2> QED
    BY <2>1, <2>2, <2>3
<1>4. \A x : In(r, x) => In(q, x)
  BY <1>1, <1>2, <1>3 DEF In
<1>5. ASSUME NEW x, In(q, x), x # q[1]
      PROVE  In(r, x)
  <2>1. PICK j \in 1..Len(q) : q[j] = x
    BY <1>5 DEF In
  <2>2. j # 1 /\ j \in 2..(n + 1)
    BY <1>1, <1>5, <2>1
  <2>3. CASE j = n + 1
    <3>1. n > 0 /\ r[1] = x
      BY <1>1, <1>2, <2>1, <2>2, <2>3
    <3> QED
      BY <1>1, <1>3, <3>1 DEF In
  <2>4. CASE j # n + 1
    <3>0. j \in 1..n
      BY <1>1, <2>1, <2>2, <2>4
    <3>1. r[j] = IF j = 1 THEN q[Len(q)] ELSE q[j]
      BY <1>2, <3>0
    <3>2. r[j] = x
      BY <2>1, <2>2, <3>1
    <3> QED
      BY <1>3, <3>0, <3>2 DEF In
  <2> QED
    BY <2>3, <2>4
<1>6. Distinct(q) => Distinct(r) /\ ~In(r, q[1])
  <2> SUFFICES ASSUME Distinct(q) PROVE Distinct(r) /\ ~In(r, q[1])
    OBVIOUS
  <2>1. Distinct(r)
    BY <1>1, <1>2, <1>3 DEF Distinct
  <2>2. ~In(r, q[1])
    BY <1>1, <1>2, <1>3 DEF Distinct, In
  <2> QED
    BY <2>1, <2>2
<1> QED
  BY <1>1, <1>2, <1>3, <1>4, <1>5, <1>6 DEF r, n

(* The queue, or the result, with one more element.                        *)
LEMMA Appended ==
  ASSUME NEW S, NEW q \in Seq(S), NEW y \in S
  PROVE  /\ Append(q, y) \in Seq(S)
         /\ Len(Append(q, y)) = Len(q) + 1
         /\ \A j \in 1..Len(q) : Append(q, y)[j] = q[j]
         /\ Append(q, y)[Len(q) + 1] = y
         /\ \A x : In(Append(q, y), x) <=> In(q, x) \/ x = y
         /\ Distinct(q) /\ ~In(q, y) => Distinct(Append(q, y))
<1> DEFINE r == Append(q, y)
<1>1. r \in Seq(S) /\ Len(q) \in Nat /\ Len(r) = Len(q) + 1
  OBVIOUS
<1>2. (\A j \in 1..Len(q) : r[j] = q[j]) /\ r[Len(q) + 1] = y
  OBVIOUS
<1> HIDE DEF r
<1>3. \A x : In(r, x) <=> In(q, x) \/ x = y
  BY <1>1, <1>2 DEF In
<1>4. Distinct(q) /\ ~In(q, y) => Distinct(r)
  BY <1>1, <1>2 DEF In, Distinct
<1> QED
  BY <1>1, <1>2, <1>3, <1>4 DEF r

(* As many different nodes as there are passes are all the passes.         *)
LEMMA AllNodes ==
  ASSUME NEW n \in Nat, NEW s \in Seq(Nat \ {0}),
         Distinct(s), \A j \in 1..Len(s) : s[j] \in 1..n
  PROVE  Len(s) = n <=> \A i \in 1..n : In(s, i)
<1>1. Len(s) \in Nat /\ s \in [1..Len(s) -> 1..n]
  BY LenProperties
<1>2. s \in Injection(1..Len(s), 1..n)
  BY <1>1 DEF Injection, IsInjective, Distinct
<1>3. IsFiniteSet(1..n) /\ Cardinality(1..n) = n /\ Cardinality(1..Len(s)) = Len(s)
  BY <1>1, IntervalSize
<1>4. Cardinality(1..Len(s)) = Cardinality(1..n) <=> s \in Surjection(1..Len(s), 1..n)
  <2> HIDE DEF Injection, Surjection
  <2> DEFINE A == 1..Len(s)
             B == 1..n
  <2>1. s \in Injection(A, B) /\ IsFiniteSet(B)
    BY <1>2, <1>3
  <2> HIDE DEF A, B
  <2>2. Cardinality(A) = Cardinality(B) <=> s \in Surjection(A, B)
    BY <2>1, FS_Injection
  <2> QED
    BY <2>2 DEF A, B
<1> QED
  BY <1>1, <1>3, <1>4 DEF Surjection, In

(* The edges that are counted: finitely many, all of them at first.        *)
LEMMA CountedEdges ==
  ASSUME TypeOK, NEW i \in Indices
  PROVE  /\ passes[i].deps \in Seq(Names)
         /\ IsFiniteSet(EdgesInto(i))
         /\ Cardinality(EdgesInto(i)) = Len(passes[i].deps)
<1> DEFINE d == passes[i].deps
<1>1. d \in Seq(Names)
  <2>1. passes[i] \in [name : Names, deps : DepLists]
    BY ElementOfSeq DEF TypeOK, RegistryOK, Indices
  <2>2. d \in DepLists
    BY <2>1
  <2> QED
    BY <2>2, DepListsAssumption
<1>2. Len(d) \in Nat /\ DOMAIN d = 1..Len(d)
  BY <1>1, LenProperties
<1>3. IsFiniteSet(1..Len(d)) /\ Cardinality(1..Len(d)) = Len(d)
  BY <1>2, IntervalSize
<1> DEFINE f == [k \in 1..Len(d) |-> <<i, k>>]
<1>4. EdgesInto(i) = {<<i, k>> : k \in 1..Len(d)}
  BY <1>2 DEF EdgesInto
<1>5. f \in Bijection(1..Len(d), EdgesInto(i))
  BY <1>4 DEF Bijection, Injection, Surjection, IsInjective
<1>6. ExistsBijection(1..Len(d), EdgesInto(i))
  BY <1>5 DEF ExistsBijection
<1>7. IsFiniteSet(EdgesInto(i)) /\ Cardinality(EdgesInto(i)) = Cardinality(1..Len(d))
  <2> DEFINE A == 1..Len(d)
             B == EdgesInto(i)
  <2>1. IsFiniteSet(A) /\ ExistsBijection(A, B)
    BY <1>3, <1>6
  <2> HIDE DEF A, B
  <2>2. IsFiniteSet(B) /\ Cardinality(B) = Cardinality(A)
    BY <2>1, FS_Bijection
  <2> QED
    BY <2>2 DEF A, B
<1> QED
  BY <1>1, <1>3, <1>7

(* Indices are positive numbers up to the number of passes.                *)
LEMMA IndexFacts ==
  ASSUME TypeOK
  PROVE  Len(passes) \in Nat /\ Indices \subseteq Nat \ {0}
<1>1. passes \in Seq([name : Names, deps : DepLists])
  BY DEF TypeOK, RegistryOK
<1>2. Len(passes) \in Nat
  BY <1>1, LenProperties
<1> QED
  BY <1>2 DEF Indices

(* An edge is an edge into a registered pass.                              *)
LEMMA EdgeFacts ==
  ASSUME TypeOK, NEW e \in Edges
  PROVE  /\ e[1] \in Indices /\ e[1] \in Nat \ {0} /\ e[2] \in Nat \ {0}
         /\ e = <<e[1], e[2]>>
         /\ e \in EdgesInto(e[1])
         /\ Dep(e) \in DOMAIN pass_map => Provider(e) \in Indices
<1>1. PICK i \in Indices : e \in EdgesInto(i)
  BY DEF Edges
<1>2. PICK k \in DOMAIN passes[i].deps : e = <<i, k>>
  BY <1>1 DEF EdgesInto
<1>3. DOMAIN passes[i].deps = 1..Len(passes[i].deps) /\ Len(passes[i].deps) \in Nat
  BY CountedEdges, LenProperties
<1>4. Dep(e) \in DOMAIN pass_map => Provider(e) \in Indices
  BY DEF TypeOK, RegistryOK, Provider
<1> QED
  BY <1>1, <1>2, <1>3, <1>4 DEF Indices

(* An edge into a pass is an edge, and the counted ones are finitely many. *)
LEMMA IntoFacts ==
  ASSUME TypeOK, NEW i \in Indices
  PROVE  /\ \A e \in EdgesInto(i) : e \in Edges /\ e[1] = i
         /\ IsFiniteSet(Unrelaxed(i))
         /\ Cardinality(Unrelaxed(i)) \in Nat
         /\ Cardinality(Unrelaxed(i)) = 0 <=> Unrelaxed(i) = {}
<1>1. \A e \in EdgesInto(i) : e \in Edges /\ e[1] = i
  BY DEF Edges, EdgesInto
<1>2. IsFiniteSet(EdgesInto(i)) /\ Unrelaxed(i) \in SUBSET EdgesInto(i)
  BY CountedEdges DEF Unrelaxed
<1> DEFINE U == Unrelaxed(i)
           E == EdgesInto(i)
<1> HIDE DEF U, E
<1>3. IsFiniteSet(E) /\ U \in SUBSET E
  BY <1>2 DEF U, E
<1>4. IsFiniteSet(U)
  BY <1>3, FS_Subset
<1>5. Cardinality(U) \in Nat
  BY <1>4, FS_CardinalityType
<1>6. Cardinality(U) = 0 <=> U = {}
  BY <1>4, FS_EmptySet
<1> QED
  BY <1>1, <1>4, <1>5, <1>6 DEF U

(* The graph stays while the registered passes do.                         *)
LEMMA GraphStays ==
  ASSUME UNCHANGED registry
  PROVE  /\ Indices' = Indices /\ Edges' = Edges
         /\ \A i : EdgesInto(i)' = EdgesInto(i)
         /\ \A e : Dep(e)' = Dep(e) /\ Provider(e)' = Provider(e)
         /\ RegistryOK' = RegistryOK /\ MapInv' = MapInv
  BY DEF registry, Indices, Edges, EdgesInto, Dep, Provider, RegistryOK, MapInv

LEMMA InitInv == Init => Inv
<1> SUFFICES ASSUME Init PROVE Inv
  OBVIOUS
<1>1. TypeOK
  <2>1. passes = <<>> /\ Len(passes) = 0 /\ Indices = {}
    BY DEF Init, Indices
  <2>2. pass_map \in [{passes[i].name : i \in Indices} -> Indices]
    BY <2>1 DEF Init
  <2>3. \A S : <<>> \in Seq(S)
    BY EmptySeq
  <2>4. RegistryOK
    BY <2>1, <2>2, <2>3, MaxPassesAssumption DEF RegistryOK
  <2>5. KahnOK
    BY <2>3 DEF Init, KahnOK
  <2>6. CallOK
    BY <2>3 DEF Init, CallOK
  <2> QED
    BY <2>4, <2>5, <2>6 DEF TypeOK
<1>2. MapInv /\ GraphInv /\ DegreeInv /\ QueueInv /\ SeedInv /\ OrderInv /\ RunInv
  BY DEF Init, MapInv, Indices, GraphInv, DegreeInv, QueueInv, SeedInv, OrderInv,
         RunInv, Sorting
<1>3. OrderIsSchedule
  BY DEF Init, OrderIsSchedule
<1> QED
  BY <1>1, <1>2, <1>3 DEF Inv

LEMMA RegisterKeepsInv ==
  ASSUME Inv, NEW name \in Names, NEW deps \in DepLists, RegisterPass(name, deps)
  PROVE  Inv'
<1> DEFINE n == Len(passes)
           entry == [name |-> name, deps |-> deps]
<1>1. /\ passes \in Seq([name : Names, deps : DepLists]) /\ n \in Nat
      /\ entry \in [name : Names, deps : DepLists]
      /\ passes' = Append(passes, entry)
  <2>1. passes \in Seq([name : Names, deps : DepLists])
    BY DEF Inv, TypeOK, RegistryOK
  <2>2. entry \in [name : Names, deps : DepLists]
    OBVIOUS
  <2>3. passes' = Append(passes, entry)
    BY DEF RegisterPass
  <2> QED
    BY <2>1, <2>2, <2>3
<1>2. /\ passes' \in Seq([name : Names, deps : DepLists]) /\ Len(passes') = n + 1
      /\ passes'[n + 1] = entry /\ \A i \in 1..n : passes'[i] = passes[i]
  BY <1>1
<1>3. /\ pass_map' \in [{passes'[i].name : i \in 1..(n + 1)} -> 1..(n + 1)]
      /\ pass_map'[name] = n + 1
      /\ \A m \in DOMAIN pass_map : m # name => pass_map'[m] = pass_map[m]
  <2>1. pass_map \in [{passes[i].name : i \in 1..n} -> 1..n]
    BY DEF Inv, TypeOK, RegistryOK, Indices
  <2>2. pass_map' = [m \in DOMAIN pass_map \cup {name} |->
                       IF m = name THEN n + 1 ELSE pass_map[m]]
    BY DEF RegisterPass
  <2>3. DOMAIN pass_map \cup {name} = {passes'[i].name : i \in 1..(n + 1)}
    BY <1>1, <1>2, <2>1
  <2>4. \A m \in DOMAIN pass_map : pass_map[m] \in 1..(n + 1)
    BY <1>1, <2>1
  <2>5. n + 1 \in 1..(n + 1)
    BY <1>1
  <2> QED
    BY <2>2, <2>3, <2>4, <2>5
<1>4. TypeOK'
  <2>1. Len(passes') <= MaxPasses
    BY <1>1, <1>2, MaxPassesAssumption DEF RegisterPass
  <2>2. (pass_map \in [{passes[i].name : i \in Indices} -> Indices])'
    BY <1>2, <1>3 DEF Indices
  <2>3. RegistryOK'
    BY <1>2, <2>1, <2>2 DEF RegistryOK
  <2> QED
    BY <2>3 DEF Inv, TypeOK, KahnOK, CallOK, RegisterPass, kahn
<1>5. MapInv'
  <2> SUFFICES ASSUME NEW i \in 1..(n + 1)
               PROVE  /\ i <= pass_map'[passes'[i].name]
                      /\ passes'[pass_map'[passes'[i].name]].name = passes'[i].name
    BY <1>2 DEF MapInv, Indices
  <2>1. CASE passes'[i].name = name
    BY <1>1, <1>2, <1>3, <2>1
  <2>2. CASE passes'[i].name # name
    <3>1. i \in 1..n /\ passes'[i] = passes[i]
      BY <1>1, <1>2, <2>2
    <3>2. /\ i <= pass_map[passes[i].name]
          /\ passes[pass_map[passes[i].name]].name = passes[i].name
      BY <3>1 DEF Inv, MapInv, Indices
    <3>3. passes[i].name \in DOMAIN pass_map /\ pass_map[passes[i].name] \in 1..n
      BY <3>1 DEF Inv, TypeOK, RegistryOK, Indices
    <3> QED
      BY <1>2, <1>3, <2>2, <3>1, <3>2, <3>3
  <2> QED
    BY <2>1, <2>2
<1>6. pc' = "idle" /\ resolved' = FALSE /\ named' = FALSE
  BY DEF RegisterPass
<1> QED
  BY <1>4, <1>5, <1>6 DEF Inv, GraphInv, DegreeInv, QueueInv, SeedInv, OrderInv, RunInv,
       Sorting, OrderIsSchedule

(* A call begins: the count of a pass is the number of its dependencies.   *)
LEMMA BuildKeepsInv ==
  ASSUME Inv, pc = "idle", BuildGraph, UNCHANGED <<registry, cache>>,
         caller' \in {"order", "run"}, ran' = ran
  PROVE  Inv'
<1>1. /\ Indices' = Indices /\ Edges' = Edges
      /\ \A i : EdgesInto(i)' = EdgesInto(i)
      /\ \A e : Dep(e)' = Dep(e) /\ Provider(e)' = Provider(e)
      /\ RegistryOK' = RegistryOK /\ MapInv' = MapInv
  BY GraphStays
<1>2. OrderIsSchedule' /\ MapInv'
  BY <1>1 DEF Inv, OrderIsSchedule, MapInv, Complete, Ordered, registry, cache
<1>3. CASE pc' = "idle" /\ UNCHANGED kahn /\ outcome' = "missing"
  <2>1. TypeOK'
    BY <1>1, <1>3 DEF Inv, TypeOK, KahnOK, CallOK, cache, kahn
  <2> QED
    BY <1>2, <1>3, <2>1 DEF Inv, GraphInv, DegreeInv, QueueInv, SeedInv, OrderInv,
         RunInv, Sorting
<1>4. CASE /\ \A e \in Edges : Dep(e) \in DOMAIN pass_map
           /\ pc' = "seed" /\ scan' = 1
           /\ in_degree' = [i \in Indices |-> Len(passes[i].deps)]
           /\ queue' = <<>> /\ todo' = {} /\ result' = <<>>
           /\ UNCHANGED outcome
  <2>1. \A i \in Indices : Len(passes[i].deps) \in Nat
    BY CountedEdges DEF Inv
  <2>2. in_degree' \in Seq(Nat) /\ Len(in_degree') = Len(passes)
    <3>0. Len(passes) \in Nat
      BY IndexFacts DEF Inv
    <3>1. in_degree' \in [1..Len(passes) -> Nat]
      BY <1>4, <2>1 DEF Indices
    <3>2. [1..Len(passes) -> Nat] \in {[1..m -> Nat] : m \in Nat}
      BY <3>0
    <3>3. in_degree' \in Seq(Nat)
      BY <3>1, <3>2, SeqDef
    <3>4. 1..Len(passes) = 1..Len(in_degree') /\ Len(in_degree') \in Nat
      BY <3>1, <3>3, LenProperties
    <3> QED
      BY <3>0, <3>3, <3>4, IntervalSize
  <2>3. Len(queue') = 0 /\ Len(result') = 0 /\ (\A S : <<>> \in Seq(S))
    BY <1>4, EmptySeq
  <2>4. TypeOK'
    <3>1. KahnOK'
      <4>1. queue' \in Seq(Nat \ {0}) /\ result' \in Seq(Nat \ {0})
        BY <1>4, <2>3, Zenon
      <4>2. scan' = 1 /\ todo' = {}
        BY <1>4
      <4> QED
        BY <2>2, <4>1, <4>2 DEF KahnOK
    <3>2. CallOK'
      BY <1>4 DEF Inv, TypeOK, CallOK, cache
    <3> QED
      BY <1>1, <3>1, <3>2 DEF Inv, TypeOK
  <2>5. GraphInv'
    <3>1. \A e \in Edges' : (Dep(e) \in DOMAIN pass_map)'
      BY <1>1, <1>4 DEF registry
    <3>2. Len(in_degree') = Len(passes')
      BY <2>2 DEF registry
    <3> QED
      BY <1>4, <2>3, <3>1, <3>2 DEF GraphInv
  <2>6. \A i \in Indices : Unrelaxed(i)' = EdgesInto(i)
    BY <1>1, <2>3 DEF Unrelaxed, In
  <2>7. DegreeInv'
    BY <1>1, <1>4, <2>6, CountedEdges DEF DegreeInv, Inv
  <2>8. QueueInv' /\ SeedInv' /\ OrderInv' /\ RunInv'
    BY <1>1, <1>4, <2>3 DEF QueueInv, SeedInv, OrderInv, RunInv, In, Distinct, Ordered, Indices
  <2> QED
    BY <1>2, <2>4, <2>5, <2>7, <2>8 DEF Inv
<1> QED
  BY <1>3, <1>4 DEF BuildGraph

LEMMA SeedKeepsInv ==
  ASSUME Inv, Seed
  PROVE  Inv'
<1> USE DEF Inv
<1>1. /\ Indices' = Indices /\ Edges' = Edges
      /\ \A i : EdgesInto(i)' = EdgesInto(i)
      /\ \A e : Dep(e)' = Dep(e) /\ Provider(e)' = Provider(e)
      /\ RegistryOK' = RegistryOK /\ MapInv' = MapInv
      /\ UNCHANGED <<registry, cache, pc, caller, in_degree, todo, result, outcome, ran>>
  BY GraphStays DEF Seed
<1>2. scan \in Indices /\ scan \in Nat \ {0} /\ pc = "seed" /\ scan' = scan + 1
  BY DEF Seed, TypeOK, KahnOK
<1>3. ~In(queue, scan) /\ ~In(result, scan)
  BY <1>2 DEF SeedInv, In
<1>4. /\ queue' \in Seq(Nat \ {0})
      /\ \A x : In(queue', x) <=> In(queue, x) \/ (x = scan /\ in_degree[scan] = 0)
      /\ Distinct(queue')
      /\ \A j \in 1..Len(queue') : queue'[j] \in Indices
  <2>1. queue \in Seq(Nat \ {0}) /\ Distinct(queue) /\ \A j \in 1..Len(queue) : queue[j] \in Indices
    BY <1>2 DEF TypeOK, KahnOK, QueueInv, GraphInv, Sorting
  <2>2. CASE in_degree[scan] = 0
    <3>1. queue' = Append(queue, scan)
      BY <2>2 DEF Seed
    <3>2. \A x : In(queue', x) => x \in Indices
      BY <1>2, <2>1, <3>1, Appended DEF In
    <3>3. \A j \in 1..Len(queue') : In(queue', queue'[j])
      BY DEF In
    <3> QED
      BY <1>2, <1>3, <2>1, <2>2, <3>1, <3>2, <3>3, Appended
  <2>3. CASE in_degree[scan] # 0
    <3>1. queue' = queue
      BY <2>3 DEF Seed
    <3> QED
      BY <2>1, <2>3, <3>1
  <2> QED
    BY <2>2, <2>3
<1>5. TypeOK'
  <2>1. KahnOK'
    BY <1>1, <1>2, <1>4 DEF TypeOK, KahnOK
  <2>2. CallOK'
    BY <1>1 DEF TypeOK, CallOK, cache
  <2> QED
    BY <1>1, <2>1, <2>2 DEF TypeOK
<1>6. GraphInv'
  BY <1>1, <1>2, <1>4 DEF GraphInv, Sorting, registry
<1>7. DegreeInv'
  BY <1>1, <1>2 DEF DegreeInv, Sorting, Unrelaxed, In
<1>8. QueueInv' /\ SeedInv'
  <2>1. QueueInv'
    BY <1>1, <1>2, <1>3, <1>4 DEF QueueInv, SeedInv, Sorting, In, Distinct
  <2>2. SeedInv'
    <3>1. Len(result) = 0 /\ todo = {} /\ (\A i \in Indices : i \in Nat)
      BY <1>2, IndexFacts DEF SeedInv
    <3>2. \A i \in Indices : i < scan + 1 => i < scan \/ i = scan
      BY <1>2, <3>1
    <3>3. \A i \in Indices : i < scan + 1 /\ in_degree[i] = 0 => In(queue', i)
      BY <1>2, <1>4, <3>2 DEF SeedInv
    <3>4. \A i \in Indices : In(queue', i) => i < scan + 1
      BY <1>2, <1>4, <3>1 DEF SeedInv
    <3> QED
      BY <1>1, <1>2, <3>1, <3>3, <3>4 DEF SeedInv
  <2> QED
    BY <2>1, <2>2
<1>9. OrderInv' /\ RunInv' /\ OrderIsSchedule' /\ MapInv'
  <2>1. OrderInv' /\ RunInv' /\ MapInv'
    BY <1>1, <1>2 DEF OrderInv, RunInv, Sorting, Ordered, registry
  <2>2. OrderIsSchedule'
    BY <1>1 DEF OrderIsSchedule, Ordered, Complete, registry, cache
  <2> QED
    BY <2>1, <2>2
<1> QED
  BY <1>5, <1>6, <1>7, <1>8, <1>9

LEMMA SeededKeepsInv ==
  ASSUME Inv, Seeded
  PROVE  Inv'
<1> USE DEF Inv
<1>1. /\ Indices' = Indices /\ Edges' = Edges
      /\ \A i : EdgesInto(i)' = EdgesInto(i)
      /\ \A e : Dep(e)' = Dep(e) /\ Provider(e)' = Provider(e)
      /\ RegistryOK' = RegistryOK /\ MapInv' = MapInv
      /\ UNCHANGED <<registry, cache, caller, kahn, outcome, ran>>
      /\ pc = "seed" /\ pc' = "kahn"
  BY GraphStays DEF Seeded
<1>2. \A i \in Indices : i < scan
  BY IndexFacts DEF Seeded, TypeOK, KahnOK, Indices
<1>3. TypeOK'
  BY <1>1 DEF TypeOK, KahnOK, CallOK, cache, kahn
<1>4. GraphInv' /\ DegreeInv'
  BY <1>1 DEF GraphInv, DegreeInv, Unrelaxed, In, Sorting, registry, kahn
<1>5. QueueInv'
  BY <1>1, <1>2 DEF QueueInv, SeedInv, In, Distinct, Sorting, kahn
<1>6. SeedInv' /\ OrderInv' /\ RunInv'
  BY <1>1 DEF SeedInv, OrderInv, Ordered, RunInv, Sorting, registry, kahn
<1>7. OrderIsSchedule'
  BY <1>1 DEF OrderIsSchedule, Ordered, Complete, registry, cache
<1> QED
  BY <1>1, <1>3, <1>4, <1>5, <1>6, <1>7

(* The node taken from the queue has its providers in the result.  The     *)
(* edges from it are counted until they are relaxed.                       *)
LEMMA DequeueKeepsInv ==
  ASSUME Inv, Dequeue
  PROVE  Inv'
<1> USE DEF Inv
<1> DEFINE node == queue[1]
<1>1. /\ Indices' = Indices /\ Edges' = Edges
      /\ \A i : EdgesInto(i)' = EdgesInto(i)
      /\ \A e : Dep(e)' = Dep(e) /\ Provider(e)' = Provider(e)
      /\ RegistryOK' = RegistryOK /\ MapInv' = MapInv
      /\ UNCHANGED <<registry, cache, pc, caller, scan, in_degree, outcome, ran>>
      /\ pc = "kahn" /\ Sorting /\ Sorting'
  BY GraphStays DEF Dequeue, Sorting
<1>2. /\ queue \in Seq(Nat \ {0}) /\ result \in Seq(Nat \ {0})
      /\ queue # <<>> /\ todo = {}
      /\ queue' = SwapRemoveFirst(queue) /\ result' = Append(result, node)
      /\ todo' = EdgesFrom(node)
  BY DEF Dequeue, TypeOK, KahnOK
<1>3. /\ node \in Indices /\ node \in Nat \ {0} /\ In(queue, node)
      /\ in_degree[node] = 0 /\ ~In(result, node)
  <2>1. Len(queue) \in Nat \ {0}
    BY <1>2, EmptySeq
  <2>2. In(queue, node) /\ node \in Indices
    BY <1>1, <2>1 DEF In, GraphInv
  <2> QED
    BY <1>1, <2>2, IndexFacts DEF QueueInv
<1>4. /\ queue' \in Seq(Nat \ {0}) /\ Distinct(queue')
      /\ \A x : In(queue', x) => In(queue, x) /\ x # node
      /\ \A x : In(queue, x) => x = node \/ In(queue', x)
  BY <1>1, <1>2, SwapRemoved DEF QueueInv
<1>5. /\ result' \in Seq(Nat \ {0}) /\ Distinct(result')
      /\ Len(result') = Len(result) + 1 /\ Len(result) \in Nat
      /\ \A j \in 1..Len(result) : result'[j] = result[j]
      /\ result'[Len(result) + 1] = node
      /\ \A x : In(result', x) <=> In(result, x) \/ x = node
  BY <1>1, <1>2, <1>3, Appended DEF QueueInv
<1>6. \A i \in Indices : Unrelaxed(i)' = Unrelaxed(i)
  <2> SUFFICES ASSUME NEW i \in Indices, NEW e \in EdgesInto(i)
               PROVE  ~In(result', Provider(e)) \/ e \in EdgesFrom(node)
                        <=> ~In(result, Provider(e)) \/ e \in {}
    BY <1>1, <1>2 DEF Unrelaxed
  <2>1. e \in EdgesFrom(node) <=> Provider(e) = node
    BY IntoFacts DEF EdgesFrom
  <2> QED
    BY <1>3, <1>5, <2>1
<1>7. \A e \in EdgesInto(node) : Dep(e) \in DOMAIN pass_map /\ In(result, Provider(e))
  <2>1. Unrelaxed(node) = {}
    BY <1>1, <1>3, IntoFacts DEF DegreeInv
  <2>2. \A e \in EdgesInto(node) : e \in Edges
    BY <1>3, IntoFacts
  <2> QED
    BY <1>1, <2>1, <2>2 DEF Unrelaxed, GraphInv
<1>8. TypeOK'
  <2>1. todo' \in SUBSET ((Nat \ {0}) \X (Nat \ {0}))
    BY <1>2, EdgeFacts DEF EdgesFrom
  <2>2. KahnOK'
    BY <1>1, <1>4, <1>5, <2>1 DEF TypeOK, KahnOK
  <2>3. CallOK'
    BY <1>1 DEF TypeOK, CallOK, cache
  <2> QED
    BY <1>1, <2>2, <2>3 DEF TypeOK
<1>9. GraphInv'
  <2>1. \A j \in 1..Len(queue') : queue'[j] \in Indices
    <3>1. \A j \in 1..Len(queue') : In(queue, queue'[j])
      BY <1>4 DEF In
    <3> QED
      BY <1>1, <3>1 DEF GraphInv, In
  <2>2. \A j \in 1..Len(result') : result'[j] \in Indices
    BY <1>1, <1>3, <1>5 DEF GraphInv
  <2>3. \A e \in todo' : e \in Edges /\ Provider(e) = result'[Len(result')]
    BY <1>2, <1>5 DEF EdgesFrom
  <2> QED
    BY <1>1, <1>5, <2>1, <2>2, <2>3 DEF GraphInv, registry
<1>10. DegreeInv'
  BY <1>1, <1>6 DEF DegreeInv
<1>11. QueueInv' /\ SeedInv'
  BY <1>1, <1>3, <1>4, <1>5 DEF QueueInv, SeedInv
<1>12. OrderInv'
  <2> SUFFICES ASSUME NEW q \in 1..Len(result')
               PROVE  /\ result'[q] \in Indices
                      /\ \A e \in EdgesInto(result'[q]) :
                           /\ Dep(e) \in DOMAIN pass_map
                           /\ \E p \in 1..(q - 1) : result'[p] = Provider(e)
    BY <1>1 DEF OrderInv, Ordered, registry
  <2>1. CASE q \in 1..Len(result)
    <3>1. Ordered(result) /\ result'[q] = result[q] /\ q \in Nat /\ q <= Len(result)
      BY <1>1, <1>5, <2>1 DEF OrderInv
    <3>2. \A p \in 1..(q - 1) : result'[p] = result[p]
      BY <1>5, <3>1
    <3> QED
      BY <2>1, <3>1, <3>2 DEF Ordered
  <2>2. CASE q = Len(result) + 1
    BY <1>3, <1>5, <1>7, <2>2 DEF In
  <2> QED
    BY <1>5, <2>1, <2>2
<1>13. RunInv' /\ OrderIsSchedule'
  BY <1>1 DEF RunInv, OrderIsSchedule, Ordered, Complete, registry, cache
<1> QED
  BY <1>1, <1>8, <1>9, <1>10, <1>11, <1>12, <1>13

(* Relaxing an edge takes it out of the edges counted for its target.      *)
LEMMA RelaxKeepsInv ==
  ASSUME Inv, Relax
  PROVE  Inv'
<1> USE DEF Inv
<1>1. /\ Indices' = Indices /\ Edges' = Edges
      /\ \A i : EdgesInto(i)' = EdgesInto(i)
      /\ \A e : Dep(e)' = Dep(e) /\ Provider(e)' = Provider(e)
      /\ RegistryOK' = RegistryOK /\ MapInv' = MapInv
      /\ UNCHANGED <<registry, cache, pc, caller, scan, result, outcome, ran>>
      /\ pc = "kahn" /\ Sorting /\ Sorting'
  BY GraphStays DEF Relax, Sorting
<1>2. PICK e \in todo :
        /\ todo' = todo \ {e}
        /\ in_degree' = [in_degree EXCEPT ![e[1]] = @ - 1]
        /\ queue' = IF in_degree[e[1]] = 1 THEN Append(queue, e[1]) ELSE queue
  BY DEF Relax, FirstEdges
<1> DEFINE i == e[1]
<1>3. /\ e \in Edges /\ Len(result) > 0 /\ Provider(e) = result[Len(result)]
      /\ i \in Indices /\ i \in Nat \ {0} /\ e \in EdgesInto(i)
  BY <1>1, <1>2, EdgeFacts DEF GraphInv
<1>4. In(result, Provider(e))
  <2>1. Len(result) \in Nat
    BY DEF TypeOK, KahnOK
  <2> QED
    BY <1>3, <2>1 DEF In
<1>5. Unrelaxed(i)' = Unrelaxed(i) \ {e} /\ e \in Unrelaxed(i)
  BY <1>1, <1>2, <1>3, <1>4 DEF Unrelaxed, In
<1>6. ASSUME NEW j \in Indices, j # i
      PROVE  Unrelaxed(j)' = Unrelaxed(j)
  <2>1. e \notin EdgesInto(j)
    BY <1>6, IntoFacts
  <2> QED
    BY <1>1, <1>2, <2>1 DEF Unrelaxed, In
<1>7. /\ in_degree[i] = Cardinality(Unrelaxed(i)) /\ in_degree[i] \in Nat \ {0}
      /\ Cardinality(Unrelaxed(i)') = in_degree[i] - 1
  <2>1. IsFiniteSet(Unrelaxed(i)) /\ Cardinality(Unrelaxed(i)) \in Nat
        /\ Cardinality(Unrelaxed(i)) # 0
    BY <1>3, <1>5, IntoFacts
  <2>2. in_degree[i] = Cardinality(Unrelaxed(i))
    BY <1>1, <1>3 DEF DegreeInv
  <2> DEFINE U == Unrelaxed(i)
  <2>3. e \in U /\ IsFiniteSet(U)
    BY <1>5, <2>1
  <2> HIDE DEF U
  <2>4. Cardinality(U \ {e}) = Cardinality(U) - 1
    BY <2>3, FS_RemoveElement
  <2> QED
    BY <1>5, <2>1, <2>2, <2>4 DEF U
<1>8. /\ in_degree \in Seq(Nat) /\ Len(in_degree) = Len(passes) /\ i \in 1..Len(in_degree)
      /\ in_degree[i] - 1 \in Nat
  BY <1>1, <1>3, <1>7 DEF TypeOK, KahnOK, GraphInv, Indices
<1>9. /\ in_degree' \in Seq(Nat) /\ Len(in_degree') = Len(passes)
      /\ \A j \in Indices : in_degree'[j] = IF j = i THEN in_degree[i] - 1 ELSE in_degree[j]
  <2>1. in_degree' = [in_degree EXCEPT ![i] = in_degree[i] - 1]
    BY <1>2
  <2>2. /\ in_degree' \in Seq(Nat) /\ Len(in_degree') = Len(in_degree)
        /\ \A j \in 1..Len(in_degree) :
             in_degree'[j] = IF j = i THEN in_degree[i] - 1 ELSE in_degree[j]
    BY <1>8, <2>1, ExceptSeq
  <2> QED
    BY <1>8, <2>2 DEF Indices
<1>10. /\ ~In(queue, i) /\ ~In(result, i)
  BY <1>1, <1>3, <1>7 DEF QueueInv
<1>11. /\ queue' \in Seq(Nat \ {0}) /\ Distinct(queue')
       /\ \A x : In(queue', x) <=> In(queue, x) \/ (x = i /\ in_degree[i] = 1)
  <2>1. queue \in Seq(Nat \ {0}) /\ Distinct(queue)
    BY <1>1 DEF TypeOK, KahnOK, QueueInv
  <2>2. CASE in_degree[i] = 1
    <3>1. queue' = Append(queue, i)
      BY <1>2, <2>2
    <3> QED
      BY <1>3, <1>10, <2>1, <2>2, <3>1, Appended
  <2>3. CASE in_degree[i] # 1
    <3>1. queue' = queue
      BY <1>2, <2>3
    <3> QED
      BY <2>1, <2>3, <3>1
  <2> QED
    BY <2>2, <2>3
<1>12. TypeOK'
  <2>1. KahnOK'
    BY <1>1, <1>2, <1>9, <1>11 DEF TypeOK, KahnOK
  <2>2. CallOK'
    BY <1>1 DEF TypeOK, CallOK, cache
  <2> QED
    BY <1>1, <2>1, <2>2 DEF TypeOK
<1>13. GraphInv'
  <2>1. \A j \in 1..Len(queue') : queue'[j] \in Indices
    <3>1. \A x : In(queue', x) => x \in Indices
      BY <1>1, <1>3, <1>11 DEF GraphInv, In
    <3>2. \A j \in 1..Len(queue') : In(queue', queue'[j])
      BY DEF In
    <3> QED
      BY <3>1, <3>2
  <2> QED
    BY <1>1, <1>2, <1>9, <2>1 DEF GraphInv, registry
<1>14. DegreeInv'
  BY <1>1, <1>3, <1>6, <1>7, <1>9 DEF DegreeInv
<1>15. QueueInv' /\ SeedInv'
  <2>1. Distinct(result') /\ \A x : In(result', x) <=> In(result, x)
    BY <1>1 DEF QueueInv, In, Distinct
  <2>2. \A x \in Indices : In(queue', x) => in_degree'[x] = 0 /\ ~In(result', x)
    BY <1>1, <1>3, <1>7, <1>9, <1>10, <1>11, <2>1 DEF QueueInv
  <2>3. \A x \in Indices : In(result', x) => in_degree'[x] = 0
    BY <1>1, <1>9, <1>10, <2>1 DEF QueueInv
  <2>4. \A x \in Indices : in_degree'[x] = 0 => In(queue', x) \/ In(result', x)
    BY <1>1, <1>3, <1>7, <1>9, <1>11, <2>1 DEF QueueInv
  <2> QED
    BY <1>1, <1>11, <2>1, <2>2, <2>3, <2>4 DEF QueueInv, SeedInv
<1>16. OrderInv' /\ RunInv'
  BY <1>1 DEF OrderInv, RunInv, Ordered, registry
<1>17. OrderIsSchedule'
  BY <1>1 DEF OrderIsSchedule, Ordered, Complete, registry, cache
<1> QED
  BY <1>1, <1>12, <1>13, <1>14, <1>15, <1>16, <1>17

(* The order and the run are sequences, and have lengths.                  *)
LEMMA RunFacts ==
  ASSUME Inv
  PROVE  /\ resolved_order \in Seq(Nat \ {0}) /\ Len(resolved_order) \in Nat
         /\ ran \in Seq([pass : Nat \ {0}, ok : BOOLEAN]) /\ Len(ran) \in Nat
<1>1. CallOK
  BY DEF Inv, TypeOK
<1> DEFINE T == [pass : Nat \ {0}, ok : BOOLEAN]
<1>2. resolved_order \in Seq(Nat \ {0}) /\ ran \in Seq(T)
  BY <1>1 DEF CallOK
<1> HIDE DEF T
<1>3. Len(resolved_order) \in Nat /\ Len(ran) \in Nat
  BY <1>2, LenProperties
<1> QED
  BY <1>2, <1>3 DEF T

(* When sorting ends, or never began, what is left to keep is the order    *)
(* and the run.                                                            *)
LEMMA OutsideSorting ==
  ASSUME Inv, UNCHANGED <<registry, kahn>>, pc' \in {"idle", "running"},
         CallOK', RunInv', OrderIsSchedule'
  PROVE  Inv'
<1> USE DEF Inv
<1>1. RegistryOK' /\ MapInv'
  BY GraphStays DEF TypeOK
<1>2. KahnOK'
  BY DEF TypeOK, KahnOK, kahn
<1>3. GraphInv' /\ DegreeInv' /\ QueueInv' /\ SeedInv' /\ OrderInv'
  BY DEF GraphInv, DegreeInv, QueueInv, SeedInv, OrderInv, Sorting
<1> QED
  BY <1>1, <1>2, <1>3 DEF TypeOK

(* The cached order is one for the new state too, unless it is replaced.   *)
LEMMA CacheStays ==
  ASSUME Inv, UNCHANGED <<registry, cache>>
  PROVE  OrderIsSchedule'
<1>1. /\ Indices' = Indices /\ \A i : EdgesInto(i)' = EdgesInto(i)
      /\ \A e : Dep(e)' = Dep(e) /\ Provider(e)' = Provider(e)
  BY GraphStays
<1> QED
  BY <1>1 DEF Inv, OrderIsSchedule, Ordered, Complete, registry, cache

(* A result as long as there are passes is an order of all of them.        *)
LEMMA ResultIsOrder ==
  ASSUME Inv, Sorting, Len(result) = Len(passes)
  PROVE  Complete(result) /\ Ordered(result)
<1>1. result \in Seq(Nat \ {0}) /\ Distinct(result) /\ Len(passes) \in Nat
  BY IndexFacts DEF Inv, TypeOK, KahnOK, QueueInv
<1>2. \A j \in 1..Len(result) : result[j] \in 1..Len(passes)
  BY DEF Inv, GraphInv, Indices
<1>3. \A i \in 1..Len(passes) : In(result, i)
  BY <1>1, <1>2, AllNodes
<1> QED
  BY <1>3 DEF Complete, In, Indices, Inv, OrderInv

(* The order that was found is stored.                                     *)
LEMMA StoredOrder ==
  ASSUME Inv, Sorting, Len(result) = Len(passes), UNCHANGED registry,
         resolved' = TRUE, resolved_order' = result
  PROVE  OrderIsSchedule'
<1>1. /\ Indices' = Indices /\ \A i : EdgesInto(i)' = EdgesInto(i)
      /\ \A e : Dep(e)' = Dep(e) /\ Provider(e)' = Provider(e)
  BY GraphStays
<1>2. Complete(result) /\ Ordered(result)
  BY ResultIsOrder
<1> QED
  BY <1>1, <1>2 DEF OrderIsSchedule, Ordered, Complete, registry

LEMMA RunKeepsInv ==
  ASSUME Inv, Run
  PROVE  Inv'
<1>1. CASE ~resolved /\ BuildGraph /\ UNCHANGED ran
  BY <1>1, BuildKeepsInv DEF Run
<1>2. CASE resolved /\ pc' = "running" /\ ran' = <<>> /\ UNCHANGED <<kahn, outcome>>
  <2>1. OrderIsSchedule'
    BY CacheStays DEF Run
  <2>2. ran' \in Seq([pass : Nat \ {0}, ok : BOOLEAN]) /\ Len(ran') = 0
    BY <1>2, EmptySeq, Zenon
  <2>3. CallOK'
    BY <1>2, <2>2 DEF Inv, TypeOK, CallOK, Run, cache
  <2>4. RunInv'
    <3>1. Len(resolved_order) \in Nat
      BY RunFacts
    <3> QED
      BY <1>2, <2>2, <3>1 DEF RunInv, Run, cache
  <2> QED
    BY <1>2, <2>1, <2>3, <2>4, OutsideSorting DEF Run
<1> QED
  BY <1>1, <1>2 DEF Run

LEMMA CycleKeepsInv ==
  ASSUME Inv, CycleDetected
  PROVE  Inv'
<1>1. OrderIsSchedule'
  BY CacheStays DEF CycleDetected
<1>2. CallOK' /\ RunInv'
  BY DEF Inv, TypeOK, CallOK, CycleDetected, cache, RunInv
<1> QED
  BY <1>1, <1>2, OutsideSorting DEF CycleDetected

LEMMA StoreKeepsInv ==
  ASSUME Inv, StoreOrder
  PROVE  Inv'
<1>0. Sorting
  BY DEF Sorting, StoreOrder, Sorted
<1>1. OrderIsSchedule'
  BY <1>0, StoredOrder DEF StoreOrder
<1>2. /\ result \in Seq(Nat \ {0}) /\ Len(result) \in Nat
      /\ <<>> \in Seq([pass : Nat \ {0}, ok : BOOLEAN]) /\ Len(<<>>) = 0
  <2>1. result \in Seq(Nat \ {0})
    BY DEF Inv, TypeOK, KahnOK
  <2>2. \A S : <<>> \in Seq(S)
    BY EmptySeq
  <2> QED
    BY <2>1, <2>2, LenProperties, EmptySeq
<1>3. CallOK'
  BY <1>2 DEF Inv, TypeOK, CallOK, StoreOrder
<1>4. RunInv'
  BY <1>2 DEF RunInv, StoreOrder
<1> QED
  BY <1>1, <1>3, <1>4, OutsideSorting DEF StoreOrder

LEMMA OutOfMemoryKeepsInv ==
  ASSUME Inv, OutOfMemory
  PROVE  Inv'
<1>1. OrderIsSchedule'
  <2>1. CASE UNCHANGED cache
    BY <2>1, CacheStays DEF OutOfMemory
  <2>2. CASE /\ Sorted /\ Len(result) = Len(passes)
             /\ resolved' = TRUE /\ resolved_order' = result /\ UNCHANGED named
    BY <2>2, StoredOrder DEF OutOfMemory, Sorting
  <2> QED
    BY <2>1, <2>2 DEF OutOfMemory
<1>2. CallOK'
  BY DEF Inv, TypeOK, KahnOK, CallOK, OutOfMemory, cache
<1>3. RunInv'
  BY DEF RunInv, OutOfMemory
<1> QED
  BY <1>1, <1>2, <1>3, OutsideSorting DEF OutOfMemory

(* The next pass of the order runs.                                        *)
LEMMA RunPassKeepsInv ==
  ASSUME Inv, NEW ok \in BOOLEAN, RunPass(ok)
  PROVE  Inv'
<1>1. OrderIsSchedule'
  BY CacheStays DEF RunPass
<1> DEFINE n == Len(ran)
           T == [pass : Nat \ {0}, ok : BOOLEAN]
           entry == [pass |-> resolved_order[n + 1], ok |-> ok]
<1>2. /\ ran \in Seq(T) /\ n \in Nat /\ n < Len(resolved_order)
      /\ resolved_order \in Seq(Nat \ {0}) /\ ran' = Append(ran, entry)
  BY RunFacts DEF RunPass
<1>3. entry \in T
  <2>1. n + 1 \in 1..Len(resolved_order)
    BY <1>2
  <2>2. resolved_order[n + 1] \in Nat \ {0}
    BY <1>2, <2>1, ElementOfSeq
  <2> QED
    BY <2>2
<1>4. /\ ran' \in Seq(T) /\ Len(ran') = n + 1 /\ ran'[n + 1] = entry
      /\ \A j \in 1..n : ran'[j] = ran[j]
  BY <1>2, <1>3
<1>5. CallOK'
  BY <1>4 DEF Inv, TypeOK, CallOK, RunPass, cache
<1>6. RunInv'
  <2>1. /\ pc = "running" /\ resolved' = resolved /\ resolved_order' = resolved_order
        /\ resolved /\ \A j \in 1..n : ran[j].pass = resolved_order[j]
    BY DEF RunPass, cache, Inv, RunInv
  <2>2. \A j \in 1..(n + 1) : j \in 1..n \/ j = n + 1
    BY <1>2
  <2>3. \A j \in 1..Len(ran') : ran'[j].pass = resolved_order[j]
    BY <1>4, <2>1, <2>2
  <2>4. Len(ran') <= Len(resolved_order)
    BY <1>2, <1>4
  <2> QED
    BY <2>1, <2>3, <2>4 DEF RunInv
<1> QED
  BY <1>1, <1>5, <1>6, OutsideSorting DEF RunPass

LEMMA EndRunKeepsInv ==
  ASSUME Inv, EndRun
  PROVE  Inv'
<1>1. OrderIsSchedule'
  BY CacheStays DEF EndRun
<1>2. CallOK' /\ RunInv'
  BY DEF Inv, TypeOK, CallOK, EndRun, cache, RunInv
<1> QED
  BY <1>1, <1>2, OutsideSorting DEF EndRun

LEMMA StutterKeepsInv ==
  ASSUME Inv, UNCHANGED vars
  PROVE  Inv'
<1>1. /\ Indices' = Indices /\ Edges' = Edges
      /\ \A i : EdgesInto(i)' = EdgesInto(i)
      /\ \A e : Dep(e)' = Dep(e) /\ Provider(e)' = Provider(e)
      /\ RegistryOK' = RegistryOK /\ MapInv' = MapInv
  BY GraphStays DEF vars
<1>2. OrderIsSchedule'
  BY CacheStays DEF vars
<1>3. TypeOK'
  BY <1>1 DEF Inv, TypeOK, KahnOK, CallOK, vars, cache, kahn
<1>4. GraphInv' /\ DegreeInv'
  BY <1>1 DEF Inv, GraphInv, DegreeInv, Unrelaxed, In, Sorting, vars, registry, kahn
<1>5. QueueInv' /\ SeedInv'
  BY <1>1 DEF Inv, QueueInv, SeedInv, In, Distinct, Sorting, vars, kahn
<1>6. OrderInv' /\ RunInv'
  BY <1>1 DEF Inv, OrderInv, Ordered, RunInv, Sorting, vars, registry, cache, kahn
<1> QED
  BY <1>1, <1>2, <1>3, <1>4, <1>5, <1>6 DEF Inv

LEMMA NextInv == Inv /\ [Next]_vars => Inv'
<1> SUFFICES ASSUME Inv, [Next]_vars PROVE Inv'
  OBVIOUS
<1>1. ASSUME NEW name \in Names, NEW deps \in DepLists, RegisterPass(name, deps)
      PROVE  Inv'
  BY <1>1, RegisterKeepsInv
<1>2. CASE ResolveDependencies
  BY <1>2, BuildKeepsInv DEF ResolveDependencies
<1>3. CASE Run
  BY <1>3, RunKeepsInv
<1>4. CASE Step
  BY <1>4, SeedKeepsInv, SeededKeepsInv, DequeueKeepsInv, RelaxKeepsInv, CycleKeepsInv,
     StoreKeepsInv, RunPassKeepsInv, EndRunKeepsInv DEF Step
<1>5. CASE OutOfMemory
  BY <1>5, OutOfMemoryKeepsInv
<1>6. CASE UNCHANGED vars
  BY <1>6, StutterKeepsInv
<1> QED
  BY <1>1, <1>2, <1>3, <1>4, <1>5, <1>6 DEF Next

LEMMA Invariance == Spec => []Inv
<1>1. Init => Inv
  BY InitInv
<1>2. Inv /\ [Next]_vars => Inv'
  BY NextInv
<1> QED
  BY <1>1, <1>2, PTL DEF Spec

-----------------------------------------------------------------------------
(* Every variable keeps its type; so no count of edges into a pass, an     *)
(* unsigned word in the code, is ever decremented below zero.              *)
THEOREM TypeCorrect == Spec => []TypeOK
<1>1. Inv => TypeOK
  BY DEF Inv
<1> QED
  BY <1>1, Invariance, PTL

(* The order the manager caches, and hands out names for, is an order of   *)
(* all the passes registered now, each behind what it depends on.          *)
THEOREM OrdersAreSchedules == Spec => []OrderIsSchedule
<1>1. Inv => OrderIsSchedule
  BY DEF Inv
<1> QED
  BY <1>1, Invariance, PTL

(* Whenever passes run, each one that has run had its dependencies run     *)
(* before it.                                                              *)
THEOREM RunsFollowDependencies == Spec => []DependenciesRanFirst
<1>1. Inv => DependenciesRanFirst
  <2> SUFFICES ASSUME Inv, pc = "running"
               PROVE  Ordered([j \in 1..Len(ran) |-> ran[j].pass])
    BY DEF DependenciesRanFirst
  <2> DEFINE s == [j \in 1..Len(ran) |-> ran[j].pass]
  <2>1. /\ Ordered(resolved_order) /\ Len(ran) <= Len(resolved_order)
        /\ \A j \in 1..Len(ran) : ran[j].pass = resolved_order[j]
    BY DEF Inv, RunInv, OrderIsSchedule
  <2>2. Len(ran) \in Nat /\ Len(resolved_order) \in Nat
    BY RunFacts
  <2>3. Len(s) = Len(ran) /\ \A j \in 1..Len(ran) : s[j] = resolved_order[j]
    BY <2>1, <2>2
  <2> HIDE DEF s
  <2>4. ASSUME NEW q \in 1..Len(s)
        PROVE  /\ s[q] \in Indices
               /\ \A e \in EdgesInto(s[q]) :
                    /\ Dep(e) \in DOMAIN pass_map
                    /\ \E p \in 1..(q - 1) : s[p] = Provider(e)
    <3>1. q \in 1..Len(resolved_order) /\ s[q] = resolved_order[q]
      BY <2>1, <2>2, <2>3
    <3>2. \A p \in 1..(q - 1) : s[p] = resolved_order[p]
      BY <2>2, <2>3
    <3> QED
      BY <2>1, <3>1, <3>2 DEF Ordered
  <2>5. Ordered(s)
    BY <2>4 DEF Ordered
  <2> QED
    BY <2>5 DEF s
<1> QED
  BY <1>1, Invariance, PTL

(* A run ends when every registered pass has run, failed passes or not.    *)
THEOREM RunsAreComplete == Spec => EveryPassRuns
<1>1. Inv /\ [Next]_vars =>
        [EndRun => Complete([j \in 1..Len(ran) |-> ran[j].pass])]_vars
  <2> SUFFICES ASSUME Inv, EndRun
               PROVE  Complete([j \in 1..Len(ran) |-> ran[j].pass])
    OBVIOUS
  <2> DEFINE s == [j \in 1..Len(ran) |-> ran[j].pass]
  <2>1. /\ Complete(resolved_order) /\ Len(ran) = Len(resolved_order)
        /\ \A j \in 1..Len(ran) : ran[j].pass = resolved_order[j]
    BY DEF Inv, RunInv, OrderIsSchedule, EndRun
  <2>2. Len(ran) \in Nat
    BY RunFacts
  <2>3. Len(s) = Len(ran) /\ \A j \in 1..Len(ran) : s[j] = resolved_order[j]
    BY <2>1, <2>2
  <2> HIDE DEF s
  <2>4. Complete(s)
    BY <2>1, <2>3 DEF Complete
  <2> QED
    BY <2>4 DEF s
<1> QED
  BY <1>1, Invariance, PTL DEF Spec, EveryPassRuns

(* The passes that are not in the result each wait for one that is not.    *)
LEMMA WaitingPasses ==
  ASSUME Inv, CycleDetected
  PROVE  \E S \in SUBSET Indices :
           S # {} /\ \A i \in S : \E e \in EdgesInto(i) : Provider(e) \in S
<1> DEFINE S == {i \in Indices : ~In(result, i)}
<1>1. /\ Sorting /\ pc = "kahn" /\ todo = {} /\ queue = <<>>
      /\ Len(result) # Len(passes)
  BY DEF CycleDetected, Sorted, Sorting
<1>2. S # {}
  <2>1. result \in Seq(Nat \ {0}) /\ Distinct(result) /\ Len(passes) \in Nat
    BY <1>1, IndexFacts DEF Inv, TypeOK, KahnOK, QueueInv
  <2>2. \A j \in 1..Len(result) : result[j] \in 1..Len(passes)
    BY <1>1 DEF Inv, GraphInv, Indices
  <2>3. ~ \A i \in 1..Len(passes) : In(result, i)
    BY <1>1, <2>1, <2>2, AllNodes
  <2> QED
    BY <2>3 DEF Indices
<1>3. ASSUME NEW i \in S
      PROVE  \E e \in EdgesInto(i) : Provider(e) \in S
  <2>1. i \in Indices /\ ~In(result, i) /\ ~In(queue, i)
    BY <1>1, EmptySeq DEF In
  <2>2. in_degree[i] # 0 /\ in_degree[i] = Cardinality(Unrelaxed(i))
    BY <1>1, <2>1 DEF Inv, QueueInv, DegreeInv
  <2>3. PICK e \in Unrelaxed(i) : TRUE
    BY <2>1, <2>2, IntoFacts DEF Inv
  <2>4. e \in EdgesInto(i) /\ ~In(result, Provider(e)) /\ e \in Edges
    BY <1>1, <2>1, <2>3, IntoFacts DEF Unrelaxed, Inv
  <2>5. Provider(e) \in Indices
    BY <1>1, <2>4, EdgeFacts DEF Inv, GraphInv
  <2> QED
    BY <2>4, <2>5
<1> QED
  BY <1>2, <1>3

(* A cycle is reported only where passes wait for each other.              *)
THEOREM ReportedCyclesAreReal == Spec => CycleIsReal
<1> DEFINE Cyclic ==
      \E S \in SUBSET Indices :
        S # {} /\ \A i \in S : \E e \in EdgesInto(i) : Provider(e) \in S
<1>1. Inv /\ [Next]_vars => [CycleDetected => Cyclic]_vars
  BY WaitingPasses
<1> QED
  BY <1>1, Invariance, PTL DEF Spec, CycleIsReal

-----------------------------------------------------------------------------
(* The name map leads to the pass a name stands for.                       *)
LEMMA MapProvides ==
  ASSUME Inv, NEW p \in Indices, NEW name
  PROVE  Schedule!Provides(p, name) <=> name \in DOMAIN pass_map /\ pass_map[name] = p
<1>1. /\ pass_map \in [{passes[i].name : i \in Indices} -> Indices]
      /\ Indices \subseteq Nat /\ Schedule!Indices = Indices
      /\ MapInv
  <2>1. DOMAIN passes = 1..Len(passes)
    BY LenProperties DEF Inv, TypeOK, RegistryOK
  <2> QED
    BY <2>1, IndexFacts DEF Inv, TypeOK, RegistryOK, Schedule!Indices, Indices
<1>2. ASSUME name \in DOMAIN pass_map, pass_map[name] = p
      PROVE  Schedule!Provides(p, name)
  <2>1. PICK i \in Indices : passes[i].name = name
    BY <1>1, <1>2
  <2>2. passes[p].name = name
    BY <1>1, <1>2, <2>1 DEF MapInv
  <2>3. \A q \in Indices : passes[q].name = name => q <= p
    BY <1>1, <1>2 DEF MapInv
  <2> QED
    BY <1>1, <2>2, <2>3 DEF Schedule!Provides
<1>3. ASSUME Schedule!Provides(p, name)
      PROVE  name \in DOMAIN pass_map /\ pass_map[name] = p
  <2>1. passes[p].name = name /\ \A q \in Indices : passes[q].name = name => q <= p
    BY <1>1, <1>3 DEF Schedule!Provides
  <2>2. name \in DOMAIN pass_map /\ pass_map[name] \in Indices
    BY <1>1, <2>1
  <2>3. p <= pass_map[name] /\ passes[pass_map[name]].name = name
    BY <1>1, <2>1 DEF MapInv
  <2>4. pass_map[name] <= p
    BY <2>1, <2>2, <2>3
  <2>5. p \in Nat /\ pass_map[name] \in Nat
    BY <1>1, <2>2
  <2>6. pass_map[name] = p
    BY <2>3, <2>4, <2>5
  <2> QED
    BY <2>2, <2>6
<1> QED
  BY <1>2, <1>3

(* An edge of the graph is a dependency of the promise, and conversely.    *)
LEMMA EdgesAreDependencies ==
  ASSUME Inv, NEW i \in Indices, NEW d \in Indices
  PROVE  Schedule!DependsOn(i, d) <=>
           \E e \in EdgesInto(i) : Dep(e) \in DOMAIN pass_map /\ Provider(e) = d
<1>1. \A name : Schedule!Provides(d, name)
                  <=> name \in DOMAIN pass_map /\ pass_map[name] = d
  BY MapProvides
<1>2. Schedule!DependsOn(i, d) <=>
        \E k \in DOMAIN passes[i].deps :
          passes[i].deps[k] \in DOMAIN pass_map /\ pass_map[passes[i].deps[k]] = d
  BY <1>1 DEF Schedule!DependsOn
<1>3. \A k : LET e == <<i, k>> IN
        Dep(e) = passes[i].deps[k] /\ Provider(e) = pass_map[passes[i].deps[k]]
  BY DEF Dep, Provider
<1>4. \A k \in DOMAIN passes[i].deps : <<i, k>> \in EdgesInto(i)
  BY DEF EdgesInto
<1>5. \A e \in EdgesInto(i) : \E k \in DOMAIN passes[i].deps : e = <<i, k>>
  BY DEF EdgesInto
<1>6. ASSUME Schedule!DependsOn(i, d)
      PROVE  \E e \in EdgesInto(i) : Dep(e) \in DOMAIN pass_map /\ Provider(e) = d
  <2>1. PICK k \in DOMAIN passes[i].deps :
          passes[i].deps[k] \in DOMAIN pass_map /\ pass_map[passes[i].deps[k]] = d
    BY <1>2, <1>6
  <2>2. Dep(<<i, k>>) \in DOMAIN pass_map /\ Provider(<<i, k>>) = d
    BY <1>3, <2>1
  <2> QED
    BY <1>4, <2>2
<1>7. ASSUME NEW e \in EdgesInto(i), Dep(e) \in DOMAIN pass_map, Provider(e) = d
      PROVE  Schedule!DependsOn(i, d)
  <2>1. PICK k \in DOMAIN passes[i].deps : e = <<i, k>>
    BY <1>5
  <2>2. passes[i].deps[k] \in DOMAIN pass_map /\ pass_map[passes[i].deps[k]] = d
    BY <1>3, <1>7, <2>1
  <2> QED
    BY <1>2, <2>2
<1> QED
  BY <1>6, <1>7

(* A dependency is missing exactly when an edge has no provider.           *)
LEMMA MissingMeans ==
  ASSUME Inv
  PROVE  Schedule!Missing <=> \E e \in Edges : Dep(e) \notin DOMAIN pass_map
<1>1. \A p \in Indices : \A name : Schedule!Provides(p, name)
                  <=> name \in DOMAIN pass_map /\ pass_map[name] = p
  BY MapProvides
<1>2. Schedule!Indices = Indices /\ \A name \in DOMAIN pass_map : pass_map[name] \in Indices
  <2>1. DOMAIN passes = 1..Len(passes)
    BY LenProperties DEF Inv, TypeOK, RegistryOK
  <2> QED
    BY <2>1 DEF Inv, TypeOK, RegistryOK, Schedule!Indices, Indices
<1>3. \A name : (\A p \in Indices : ~Schedule!Provides(p, name)) <=> name \notin DOMAIN pass_map
  BY <1>1, <1>2
<1>4. Schedule!Missing <=>
        \E i \in Indices : \E k \in DOMAIN passes[i].deps : passes[i].deps[k] \notin DOMAIN pass_map
  BY <1>2, <1>3 DEF Schedule!Missing
<1>5. \A i, k : Dep(<<i, k>>) = passes[i].deps[k]
  BY DEF Dep
<1>6. \A i \in Indices : \A k \in DOMAIN passes[i].deps : <<i, k>> \in Edges
  BY DEF Edges, EdgesInto
<1>7. \A e \in Edges : \E i \in Indices : \E k \in DOMAIN passes[i].deps : e = <<i, k>>
  BY DEF Edges, EdgesInto
<1>8. ASSUME Schedule!Missing PROVE \E e \in Edges : Dep(e) \notin DOMAIN pass_map
  <2>1. PICK i \in Indices : \E k \in DOMAIN passes[i].deps :
          passes[i].deps[k] \notin DOMAIN pass_map
    BY <1>4, <1>8
  <2>2. PICK k \in DOMAIN passes[i].deps : passes[i].deps[k] \notin DOMAIN pass_map
    BY <2>1
  <2>3. <<i, k>> \in Edges /\ Dep(<<i, k>>) \notin DOMAIN pass_map
    BY <1>5, <1>6, <2>2
  <2> QED
    BY <2>3
<1>9. ASSUME NEW e \in Edges, Dep(e) \notin DOMAIN pass_map PROVE Schedule!Missing
  <2>1. PICK i \in Indices : \E k \in DOMAIN passes[i].deps : e = <<i, k>>
    BY <1>7
  <2>2. PICK k \in DOMAIN passes[i].deps : e = <<i, k>>
    BY <2>1
  <2>3. passes[i].deps[k] \notin DOMAIN pass_map
    BY <1>5, <1>9, <2>2
  <2> QED
    BY <1>4, <2>3
<1> QED
  BY <1>8, <1>9

(* The order found is a schedule in the sense of the promise.              *)
LEMMA ResultIsSchedule ==
  ASSUME Inv, Sorting, Len(result) = Len(passes)
  PROVE  result \in [Schedule!Indices -> Schedule!Indices] /\ Schedule!IsSchedule(result)
<1>1. /\ result \in Seq(Nat \ {0}) /\ Len(passes) \in Nat /\ Indices = 1..Len(result)
      /\ Distinct(result)
  BY IndexFacts DEF Inv, TypeOK, KahnOK, QueueInv, Indices
<1>2. Schedule!Indices = Indices
  <2>1. DOMAIN passes = 1..Len(passes)
    BY LenProperties DEF Inv, TypeOK, RegistryOK
  <2> QED
    BY <2>1 DEF Schedule!Indices, Indices
<1>3. result \in [Indices -> Indices]
  BY <1>1, LenProperties DEF Inv, GraphInv
<1>4. Ordered(result)
  BY ResultIsOrder
<1>5. ASSUME NEW q \in Indices, NEW d \in Indices, Schedule!DependsOn(result[q], d)
      PROVE  \E p \in Indices : p < q /\ result[p] = d
  <2>1. result[q] \in Indices
    BY <1>3
  <2>2. PICK e \in EdgesInto(result[q]) : Provider(e) = d
    BY <1>5, <2>1, EdgesAreDependencies
  <2>3. PICK p \in 1..(q - 1) : result[p] = d
    BY <1>1, <1>4, <2>2 DEF Ordered
  <2>4. p \in Indices /\ p < q
    BY <1>1
  <2> QED
    BY <2>3, <2>4
<1> QED
  BY <1>1, <1>2, <1>3, <1>5 DEF Schedule!IsSchedule, Distinct

(* Each step of the manager is a step of the promise, or changes nothing   *)
(* the promise speaks of.                                                  *)
LEMMA StepIsScheduleStep ==
  ASSUME Inv, [Next]_vars
  PROVE  [Schedule!Next]_Schedule!vars
<1> USE DEF Schedule!vars
<1>1. ASSUME NEW name \in Names, NEW deps \in DepLists, RegisterPass(name, deps)
      PROVE  Schedule!Next
  BY <1>1 DEF RegisterPass, cache, Schedule!Register, Schedule!Next
<1>2. ASSUME pc = "idle", NEW what \in {"order", "run"}, caller' = what,
             ~(what = "run" /\ resolved), BuildGraph,
             UNCHANGED <<registry, cache, ran>>
      PROVE  Schedule!Call(what)
  BY <1>2, MissingMeans DEF BuildGraph, registry, cache, Schedule!Call
<1>3. CASE ResolveDependencies
  <2>1. Schedule!Call("order")
    BY <1>2, <1>3 DEF ResolveDependencies
  <2> QED
    BY <2>1 DEF Schedule!Next
<1>4. CASE Run
  <2>1. ASSUME ~resolved, BuildGraph, UNCHANGED ran
        PROVE  Schedule!Call("run")
    BY <1>2, <1>4, <2>1 DEF Run
  <2>2. ASSUME resolved, pc' = "running", ran' = <<>>, UNCHANGED <<kahn, outcome>>
        PROVE  Schedule!Call("run")
    BY <1>4, <2>2 DEF Run, registry, cache, Schedule!Call
  <2>3. Schedule!Call("run")
    BY <1>4, <2>1, <2>2 DEF Run
  <2> QED
    BY <2>3 DEF Schedule!Next
<1>5. CASE Seed \/ Seeded \/ Dequeue \/ Relax
  BY <1>5 DEF Seed, Seeded, Dequeue, Relax, registry, cache
<1>6. CASE CycleDetected
  <2>1. PICK S \in SUBSET Indices :
          S # {} /\ \A i \in S : \E e \in EdgesInto(i) : Provider(e) \in S
    BY <1>6, WaitingPasses
  <2>2. \A e \in Edges : Dep(e) \in DOMAIN pass_map
    BY <1>6 DEF CycleDetected, Sorted, Inv, GraphInv, Sorting
  <2>3. \A i \in S : \E d \in S : Schedule!DependsOn(i, d)
    <3> SUFFICES ASSUME NEW i \in S PROVE \E d \in S : Schedule!DependsOn(i, d)
      OBVIOUS
    <3>1. PICK e \in EdgesInto(i) : Provider(e) \in S
      BY <2>1
    <3>2. Dep(e) \in DOMAIN pass_map /\ i \in Indices /\ Provider(e) \in Indices
      BY <2>1, <2>2, <3>1, IntoFacts DEF Inv
    <3> QED
      BY <3>1, <3>2, EdgesAreDependencies
  <2>4. Schedule!Indices = Indices
    <3>1. DOMAIN passes = 1..Len(passes)
      BY LenProperties DEF Inv, TypeOK, RegistryOK
    <3> QED
      BY <3>1 DEF Schedule!Indices, Indices
  <2>5. Schedule!Deadlocked
    BY <2>1, <2>3, <2>4 DEF Schedule!Deadlocked
  <2>6. Schedule!Impossible
    BY <1>6, <2>5 DEF CycleDetected, Sorted, registry, cache, Schedule!Impossible
  <2> QED
    BY <2>6 DEF Schedule!Next
<1>7. CASE StoreOrder
  <2>1. result \in [Schedule!Indices -> Schedule!Indices] /\ Schedule!IsSchedule(result)
    BY <1>7, ResultIsSchedule DEF StoreOrder, Sorted, Sorting
  <2>2. Schedule!Scheduled
    BY <1>7, <2>1 DEF StoreOrder, Sorted, registry, Schedule!Scheduled
  <2> QED
    BY <2>2 DEF Schedule!Next
<1>8. CASE OutOfMemory
  <2>1. ASSUME UNCHANGED cache
        PROVE  Schedule!OutOfMemory
    BY <1>8, <2>1 DEF OutOfMemory, registry, cache, Schedule!OutOfMemory
  <2>2. ASSUME Sorted, Len(result) = Len(passes),
               resolved' = TRUE, resolved_order' = result
        PROVE  Schedule!OutOfMemory
    <3>1. result \in [Schedule!Indices -> Schedule!Indices] /\ Schedule!IsSchedule(result)
      BY <2>2, ResultIsSchedule DEF Sorted, Sorting
    <3> QED
      BY <1>8, <2>2, <3>1 DEF OutOfMemory, registry, Schedule!OutOfMemory
  <2>3. Schedule!OutOfMemory
    BY <1>8, <2>1, <2>2 DEF OutOfMemory
  <2> QED
    BY <2>3 DEF Schedule!Next
<1>9. ASSUME NEW ok \in BOOLEAN, RunPass(ok)
      PROVE  Schedule!Next
  BY <1>9 DEF RunPass, registry, cache, Schedule!Execute, Schedule!Next
<1>10. CASE EndRun
  BY <1>10 DEF EndRun, registry, cache, Schedule!Done, Schedule!Next
<1>11. CASE UNCHANGED vars
  BY <1>11 DEF vars, registry, cache
<1> QED
  BY <1>1, <1>3, <1>4, <1>5, <1>6, <1>7, <1>8, <1>9, <1>10, <1>11 DEF Next, Step

(* The manager implements the promise of PassSchedule: what Kahn's loops   *)
(* compute is some schedule, and a call fails only for a cause.            *)
THEOREM ManagerImplementsSchedule == Spec => ImplementsSchedule
<1>1. Init => Schedule!Init
  BY DEF Init, Schedule!Init
<1>2. Inv /\ [Next]_vars => [Schedule!Next]_Schedule!vars
  BY StepIsScheduleStep
<1> QED
  BY <1>1, <1>2, Invariance, PTL DEF Spec, ImplementsSchedule, Schedule!Spec
=============================================================================
