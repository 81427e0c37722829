------------------------- MODULE DangerSurfaceProofs -------------------------
(***************************************************************************)
(* Theorems about DangerSurface, for any number of functions and any       *)
(* bounds: the index of the crossing calls follows their list, exactly the *)
(* direct dangers are relevant, and the two judges agree.                  *)
(***************************************************************************)
EXTENDS DangerSurface, TLAPS

\* The places in the list of the edges to a callee that still have names.
Places(callee) ==
  {i \in DOMAIN cross_lang_edges :
     cross_lang_edges[i][1] # Nobody /\ cross_lang_edges[i][2] = callee}

EdgesTyped ==
  /\ cross_lang_edges \in Seq(({Nobody} \cup Functions) \X (Callees \cup {Garbage}))
  /\ cross_edge_by_callee \in [DOMAIN cross_edge_by_callee -> Seq(Nat)]

\* What is in the index: where there is an entry it is a list that starts with
\* the first place, unless it is the one that was never made, and that one
\* exists only after a failure.
EntryIsRight(callee) ==
  IF callee \notin DOMAIN cross_edge_by_callee THEN Places(callee) = {}
  ELSE LET entry == cross_edge_by_callee[callee] IN
       IF entry = Undefined THEN "call-graph" \in failed /\ Places(callee) = {}
       ELSE /\ entry # <<>> /\ entry[1] \in Places(callee)
            /\ \A i \in Places(callee) : entry[1] <= i

IndexInv ==
  /\ EdgesTyped
  /\ stage = "call-graph" => "call-graph" \notin failed
  /\ \A callee \in Callees : EntryIsRight(callee)

-----------------------------------------------------------------------------
\* The smallest number of a set is the one that is in it and below the others.
LEMMA MinIsLeast ==
  ASSUME NEW S \in SUBSET Nat, NEW x \in S, \A y \in S : x <= y
  PROVE  Min(S) = x
<1> DEFINE Least(m) == m \in S /\ \A y \in S : m =< y
<1>1. Least(x)
  OBVIOUS
<1>2. \A m : Least(m) => m = x
  OBVIOUS
<1> QED
  BY <1>1, <1>2, Zenon DEF Min

\* Places are numbers of edges, and these start at 1.
LEMMA PlacesAreNumbers ==
  ASSUME EdgesTyped, NEW callee
  PROVE  Places(callee) \in SUBSET (Nat \ {0})
BY DEF EdgesTyped, Places

\* The invariant says what is to be shown.
LEMMA InvImpliesLookups == IndexInv => LookupsFindFirstEdge
<1> SUFFICES ASSUME IndexInv, NEW callee \in Callees
             PROVE  IF Indexed(cross_edge_by_callee, callee) = Undefined
                      THEN "call-graph" \in failed /\ Places(callee) = {}
                      ELSE getCrossEdgeByCallee(callee) =
                             IF Places(callee) = {} THEN 0 ELSE Min(Places(callee))
  BY DEF LookupsFindFirstEdge, Places
<1>1. EntryIsRight(callee) /\ EdgesTyped
  BY DEF IndexInv
<1>2. CASE callee \notin DOMAIN cross_edge_by_callee
  <2>1. Indexed(cross_edge_by_callee, callee) = <<>>
    BY <1>2 DEF Indexed
  <2>2. <<>> # Undefined
    BY DEF Undefined
  <2> QED
    BY <1>1, <1>2, <2>1, <2>2 DEF EntryIsRight, getCrossEdgeByCallee
<1>3. CASE callee \in DOMAIN cross_edge_by_callee
  <2> DEFINE entry == cross_edge_by_callee[callee]
  <2>1. Indexed(cross_edge_by_callee, callee) = entry
    BY <1>3 DEF Indexed
  <2>2. CASE entry = Undefined
    BY <1>1, <1>3, <2>1, <2>2 DEF EntryIsRight
  <2>3. CASE entry # Undefined
    <3>1. entry # <<>> /\ entry[1] \in Places(callee) /\ \A i \in Places(callee) : entry[1] <= i
      BY <1>1, <1>3, <2>3 DEF EntryIsRight
    <3>2. Min(Places(callee)) = entry[1]
      BY <1>1, <3>1, PlacesAreNumbers, MinIsLeast
    <3> QED
      BY <2>1, <2>3, <3>1, <3>2 DEF getCrossEdgeByCallee
  <2> QED
    BY <2>2, <2>3
<1> QED
  BY <1>2, <1>3

\* Nothing is indexed before the first edge.
LEMMA InitInv == Init => IndexInv
BY DEF Init, IndexInv, EdgesTyped, EntryIsRight, Places

-----------------------------------------------------------------------------
\* An edge that is appended with names and put at the end of its entry.
LEMMA ExtractEdgeKeeps ==
  ASSUME IndexInv, NEW caller \in Functions, NEW to \in Callees, ExtractEdge(caller, to)
  PROVE  IndexInv'
<1> DEFINE n == Len(cross_lang_edges) + 1
           old == Indexed(cross_edge_by_callee, to)
<1>1. /\ stage = "call-graph" /\ stage' = stage /\ failed' = failed
      /\ cross_lang_edges' = Append(cross_lang_edges, <<caller, to>>)
      /\ cross_edge_by_callee' =
           WithEntry(cross_edge_by_callee, to, Append(old, Len(cross_lang_edges')))
  BY DEF ExtractEdge, Crosses, addCrossLangEdge
<1>2. /\ EdgesTyped /\ \A callee \in Callees : EntryIsRight(callee)
      /\ "call-graph" \notin failed
  BY <1>1 DEF IndexInv
<1>3. /\ cross_lang_edges' \in Seq(({Nobody} \cup Functions) \X (Callees \cup {Garbage}))
      /\ Len(cross_lang_edges') = n /\ n \in Nat
      /\ DOMAIN cross_lang_edges' = DOMAIN cross_lang_edges \cup {n}
      /\ cross_lang_edges'[n] = <<caller, to>>
      /\ \A i \in DOMAIN cross_lang_edges :
           i < n /\ i \in Nat /\ cross_lang_edges'[i] = cross_lang_edges[i]
  BY <1>1, <1>2 DEF EdgesTyped
<1>4. old \in Seq(Nat)
  BY <1>2 DEF EdgesTyped, Indexed
<1>5. /\ DOMAIN cross_edge_by_callee' = DOMAIN cross_edge_by_callee \cup {to}
      /\ cross_edge_by_callee'[to] = Append(old, n)
      /\ \A callee \in DOMAIN cross_edge_by_callee \ {to} :
           cross_edge_by_callee'[callee] = cross_edge_by_callee[callee]
      /\ cross_edge_by_callee' = [c \in DOMAIN cross_edge_by_callee \cup {to} |-> cross_edge_by_callee'[c]]
  BY <1>1, <1>3 DEF WithEntry
<1>6. Append(old, n) \in Seq(Nat)
  BY <1>3, <1>4
<1>7. cross_edge_by_callee' \in [DOMAIN cross_edge_by_callee' -> Seq(Nat)]
  <2>1. \A c \in DOMAIN cross_edge_by_callee' : cross_edge_by_callee'[c] \in Seq(Nat)
    BY <1>2, <1>5, <1>6 DEF EdgesTyped
  <2> QED
    BY <1>5, <2>1
<1>8. EdgesTyped'
  BY <1>3, <1>7 DEF EdgesTyped
<1>9. caller # Nobody
  BY DEF Functions, Nobody
<1>10. ASSUME NEW callee \in Callees PROVE EntryIsRight(callee)'
  <2>1. EntryIsRight(callee)
    BY <1>2
  <2>2. CASE callee # to
    <3>1. Places(callee)' = Places(callee)
      BY <1>3, <2>2 DEF Places
    <3>2. /\ callee \in DOMAIN cross_edge_by_callee' <=> callee \in DOMAIN cross_edge_by_callee
          /\ callee \in DOMAIN cross_edge_by_callee =>
               cross_edge_by_callee'[callee] = cross_edge_by_callee[callee]
      BY <1>5, <2>2
    <3> QED
      BY <1>1, <2>1, <3>1, <3>2 DEF EntryIsRight
  <2>3. CASE callee = to
    <3>1. Places(to)' = Places(to) \cup {n}
      BY <1>3, <1>9 DEF Places
    <3>2. Places(to) \in SUBSET (DOMAIN cross_lang_edges)
      BY DEF Places
    <3>3. \A i \in Places(to) : i < n
      BY <1>3, <3>2
    <3>4. CASE old = <<>>
      <4>1. Places(to) = {}
        BY <1>2, <2>1, <2>3, <3>4 DEF EntryIsRight, Indexed, Undefined
      <4>2. Append(old, n) = <<n>> /\ n # 0
        BY <1>3, <3>4, <1>2 DEF EdgesTyped
      <4>3. Append(old, n) # Undefined /\ Append(old, n) # <<>> /\ Append(old, n)[1] = n
        BY <4>2 DEF Undefined
      <4>4. Places(to)' = {n}
        BY <3>1, <4>1
      <4> QED
        BY <1>3, <1>5, <2>3, <4>3, <4>4 DEF EntryIsRight
    <3>5. CASE old # <<>>
      <4>1. to \in DOMAIN cross_edge_by_callee /\ old = cross_edge_by_callee[to]
        BY <3>5 DEF Indexed
      <4>2. /\ old # Undefined /\ old[1] \in Places(to)
            /\ \A i \in Places(to) : old[1] <= i
        BY <1>2, <2>1, <2>3, <4>1 DEF EntryIsRight
      <4>3. old[1] \in Nat /\ old[1] # 0 /\ old[1] < n
        BY <1>2, <3>3, <4>2, PlacesAreNumbers
      <4>4. Append(old, n) # <<>> /\ Append(old, n)[1] = old[1]
        BY <1>4, <3>5, <1>3
      <4>5. Append(old, n) # Undefined
        BY <4>3, <4>4 DEF Undefined
      <4>6. \A i \in Places(to)' : old[1] <= i
        BY <1>3, <3>1, <4>2, <4>3
      <4> QED
        BY <1>5, <2>3, <3>1, <4>2, <4>4, <4>5, <4>6 DEF EntryIsRight
    <3> QED
      BY <3>4, <3>5
  <2> QED
    BY <2>2, <2>3
<1> QED
  BY <1>1, <1>2, <1>8, <1>10 DEF IndexInv

\* An edge that is left behind without names is nobody's place.
LEMMA ExtractFailsKeeps ==
  ASSUME IndexInv, NEW caller \in Functions, NEW to \in Callees, ExtractFails(caller, to)
  PROVE  IndexInv'
<1>1. /\ stage' = "ptr-lifetime" /\ failed' = failed \cup {"call-graph"}
      /\ EdgesTyped /\ \A callee \in Callees : EntryIsRight(callee)
  BY DEF ExtractFails, IndexInv
<1>2. /\ cross_lang_edges' \in Seq(({Nobody} \cup Functions) \X (Callees \cup {Garbage}))
      /\ \A callee : Places(callee)' = Places(callee)
  <2>1. CASE cross_lang_edges' = cross_lang_edges
    BY <1>1, <2>1 DEF EdgesTyped, Places
  <2>2. ASSUME NEW name \in Callees \cup {Garbage},
               cross_lang_edges' = Append(cross_lang_edges, <<Nobody, name>>)
        PROVE  <1>2
    <3> DEFINE n == Len(cross_lang_edges) + 1
    <3>1. /\ cross_lang_edges' \in Seq(({Nobody} \cup Functions) \X (Callees \cup {Garbage}))
          /\ DOMAIN cross_lang_edges' = DOMAIN cross_lang_edges \cup {n}
          /\ cross_lang_edges'[n] = <<Nobody, name>>
          /\ \A i \in DOMAIN cross_lang_edges :
               i # n /\ cross_lang_edges'[i] = cross_lang_edges[i]
      BY <1>1, <2>2 DEF EdgesTyped
    <3>2. cross_lang_edges'[n][1] = Nobody
      BY <3>1
    <3> QED
      BY <3>1, <3>2 DEF Places
  <2> QED
    BY <2>1, <2>2 DEF ExtractFails
<1>3. \/ cross_edge_by_callee' = cross_edge_by_callee
      \/ /\ to \notin DOMAIN cross_edge_by_callee
         /\ cross_edge_by_callee' = WithEntry(cross_edge_by_callee, to, Undefined)
  BY DEF ExtractFails
<1>4. CASE cross_edge_by_callee' = cross_edge_by_callee
  <2>1. EdgesTyped'
    BY <1>1, <1>2, <1>4 DEF EdgesTyped
  <2>2. \A callee \in Callees : EntryIsRight(callee)'
    BY <1>1, <1>2, <1>4 DEF EntryIsRight
  <2> QED
    BY <1>1, <2>1, <2>2 DEF IndexInv
<1>5. CASE /\ to \notin DOMAIN cross_edge_by_callee
           /\ cross_edge_by_callee' = WithEntry(cross_edge_by_callee, to, Undefined)
  <2>1. /\ DOMAIN cross_edge_by_callee' = DOMAIN cross_edge_by_callee \cup {to}
        /\ \A c \in DOMAIN cross_edge_by_callee :
             cross_edge_by_callee'[c] = cross_edge_by_callee[c]
        /\ cross_edge_by_callee'[to] = Undefined
        /\ cross_edge_by_callee' =
             [c \in DOMAIN cross_edge_by_callee \cup {to} |-> cross_edge_by_callee'[c]]
    BY <1>5 DEF WithEntry
  <2>2. Undefined \in Seq(Nat)
    BY DEF Undefined
  <2>3. \A c \in DOMAIN cross_edge_by_callee' : cross_edge_by_callee'[c] \in Seq(Nat)
    BY <1>1, <2>1, <2>2 DEF EdgesTyped
  <2>4. EdgesTyped'
    BY <1>2, <2>1, <2>3 DEF EdgesTyped
  <2>5. ASSUME NEW callee \in Callees PROVE EntryIsRight(callee)'
    <3>1. EntryIsRight(callee) /\ Places(callee)' = Places(callee)
      BY <1>1, <1>2
    <3>2. CASE callee \in DOMAIN cross_edge_by_callee
      BY <1>1, <2>1, <3>1, <3>2 DEF EntryIsRight
    <3>3. CASE callee \notin DOMAIN cross_edge_by_callee
      BY <1>1, <2>1, <3>1, <3>3 DEF EntryIsRight
    <3> QED
      BY <3>2, <3>3
  <2> QED
    BY <1>1, <2>4, <2>5 DEF IndexInv
<1> QED
  BY <1>3, <1>4, <1>5

\* The later passes leave the edges alone; no pass takes a failure back.
LEMMA OthersKeep ==
  ASSUME IndexInv, UNCHANGED <<cross_lang_edges, cross_edge_by_callee>>,
         failed' = failed \/ failed' = failed \cup {"danger-surface"},
         stage' = "call-graph" => stage = "call-graph"
  PROVE  IndexInv'
<1>1. \A callee \in Callees : EntryIsRight(callee)'
  BY DEF IndexInv, EntryIsRight, Places
<1>2. EdgesTyped'
  BY DEF IndexInv, EdgesTyped
<1> QED
  BY <1>1, <1>2 DEF IndexInv

\* Every step keeps the index right.
LEMMA StepKeeps == IndexInv /\ [Next]_vars => IndexInv'
<1> SUFFICES ASSUME IndexInv, [Next]_vars PROVE IndexInv'
  OBVIOUS
<1>1. ASSUME NEW caller \in Functions, NEW callee \in Callees,
             ExtractEdge(caller, callee) \/ ExtractFails(caller, callee)
      PROVE  IndexInv'
  BY <1>1, ExtractEdgeKeeps, ExtractFailsKeeps
<1>2. CASE CallGraphEnds \/ NextFunction \/ LifetimeEnds \/ SurfaceEnds
  BY <1>2, OthersKeep
     DEF CallGraphEnds, NextFunction, LifetimeEnds, SurfaceEnds, edgeVars
<1>3. CASE Analyze
  <2>1. Instruction
    BY <1>3 DEF Analyze, Alloca, HeapAlloc, KnownAllocator, Derive, Store, FreeCall
  <2> QED
    BY <2>1, OthersKeep DEF Instruction, edgeVars
<1>4. ASSUME NEW v \in to_visit, VisitNode(v) \/ VisitFails(v)
      PROVE  IndexInv'
  BY <1>4, OthersKeep DEF VisitNode, VisitFails, edgeVars
<1>5. CASE Done \/ UNCHANGED vars
  BY <1>5, OthersKeep DEF Done, vars, edgeVars
<1> QED
  BY <1>1, <1>2, <1>3, <1>4, <1>5 DEF Next

\* PassContext's lookup by callee leads to the first edge that calls it, however
\* many functions and edges there are and wherever call-graph runs out of memory.
THEOREM IndexFollowsEdges == Spec => []LookupsFindFirstEdge
<1>1. Spec => []IndexInv
  BY InitInv, StepKeeps, PTL DEF Spec
<1> QED
  BY <1>1, InvImpliesLookups, PTL

-----------------------------------------------------------------------------
(* The memory graph: a node belongs to the function of each of its names.  *)

Nodes == [alloc_inst : Nat, aliases : SUBSET Nat, freed : BOOLEAN, sites : Seq(Nat)]
IsGraph(g) ==
  g \in [nodes : {g.nodes}, store : Seq(Nodes), canonical : {g.canonical},
         contents : {g.contents}, edges : {g.edges}]

\* Of a graph g over values whose functions are h.
HomesAgree(g, h) ==
  /\ IsGraph(g)
  /\ \A v \in DOMAIN g.nodes :
       /\ v \in DOMAIN h
       /\ g.nodes[v] \in DOMAIN g.store
       /\ g.store[g.nodes[v]].alloc_inst \in DOMAIN h
       /\ h[g.store[g.nodes[v]].alloc_inst] = h[v]

AllNamed(g) == \A v \in DOMAIN g.nodes : g.store[g.nodes[v]].aliases # {}

\* A node that is added under a name of its own function.
LEMMA AddNodeKeeps ==
  ASSUME NEW g, NEW h \in Seq(Nat), HomesAgree(g, h), NEW v \in DOMAIN h,
         NEW node \in Nodes, node.alloc_inst = v
  PROVE  /\ HomesAgree(AddNode(g, v, node), h)
         /\ DOMAIN AddNode(g, v, node).nodes = DOMAIN g.nodes \cup {v}
         /\ AddNode(g, v, node).store[AddNode(g, v, node).nodes[v]] = node
         /\ \A w \in DOMAIN g.nodes \ {v} :
              /\ AddNode(g, v, node).nodes[w] = g.nodes[w]
              /\ AddNode(g, v, node).store[g.nodes[w]] = g.store[g.nodes[w]]
<1> DEFINE new == AddNode(g, v, node)
           n == Len(g.store) + 1
<1>1. IsGraph(g)
  BY DEF HomesAgree
<1>2. /\ new.store = Append(g.store, node)
      /\ new.nodes = WithEntry(g.nodes, v, n)
      /\ new \in [nodes : {new.nodes}, store : {new.store}, canonical : {new.canonical},
                  contents : {new.contents}, edges : {new.edges}]
  BY <1>1 DEF AddNode, IsGraph
<1> HIDE DEF new
<1>3. g.store \in Seq(Nodes) /\ n \in Nat
  BY <1>1 DEF IsGraph
<1>4. /\ new.store \in Seq(Nodes)
      /\ DOMAIN new.store = DOMAIN g.store \cup {n}
      /\ new.store[n] = node
      /\ \A i \in DOMAIN g.store : new.store[i] = g.store[i]
  BY <1>2, <1>3
<1>5. /\ DOMAIN new.nodes = DOMAIN g.nodes \cup {v} /\ new.nodes[v] = n
      /\ \A w \in DOMAIN g.nodes \ {v} : new.nodes[w] = g.nodes[w]
  BY <1>2 DEF WithEntry
<1>7. IsGraph(new)
  BY <1>2, <1>4 DEF IsGraph
<1>8. ASSUME NEW w \in DOMAIN new.nodes
      PROVE  /\ w \in DOMAIN h
             /\ new.nodes[w] \in DOMAIN new.store
             /\ new.store[new.nodes[w]].alloc_inst \in DOMAIN h
             /\ h[new.store[new.nodes[w]].alloc_inst] = h[w]
  <2>1. CASE w = v
    BY <1>4, <1>5, <2>1
  <2>2. CASE w # v
    <3>1. w \in DOMAIN g.nodes /\ new.nodes[w] = g.nodes[w]
      BY <1>5, <2>2
    <3>2. /\ w \in DOMAIN h /\ g.nodes[w] \in DOMAIN g.store
          /\ g.store[g.nodes[w]].alloc_inst \in DOMAIN h
          /\ h[g.store[g.nodes[w]].alloc_inst] = h[w]
      BY <3>1 DEF HomesAgree
    <3> QED
      BY <1>4, <3>1, <3>2
  <2> QED
    BY <2>1, <2>2
<1>9. HomesAgree(new, h)
  BY <1>7, <1>8 DEF HomesAgree
<1>10. \A w \in DOMAIN g.nodes \ {v} :
         new.nodes[w] = g.nodes[w] /\ new.store[g.nodes[w]] = g.store[g.nodes[w]]
  BY <1>4, <1>5 DEF HomesAgree
<1> QED
  BY <1>4, <1>5, <1>9, <1>10 DEF new

\* A tracked allocation is found under its own name, in a node of its function.
LEMMA TrackAllocKeeps ==
  ASSUME NEW g, NEW h \in Seq(Nat), HomesAgree(g, h), AllNamed(g), NEW v \in DOMAIN h
  PROVE  HomesAgree(trackAlloc(g, v), h) /\ AllNamed(trackAlloc(g, v))
<1>1. AllocNode(v, {v}) \in Nodes /\ AllocNode(v, {v}).alloc_inst = v
      /\ AllocNode(v, {v}).aliases = {v}
  BY DEF AllocNode, Nodes
<1>2. PICK node \in Nodes : /\ node.alloc_inst = v /\ node.aliases = {v}
                            /\ node = AllocNode(v, {v})
  BY <1>1
<1> DEFINE new == trackAlloc(g, v)
<1>3. new = AddNode(g, v, node)
  BY <1>2 DEF trackAlloc
<1>4. /\ HomesAgree(AddNode(g, v, node), h)
      /\ DOMAIN AddNode(g, v, node).nodes = DOMAIN g.nodes \cup {v}
      /\ AddNode(g, v, node).store[AddNode(g, v, node).nodes[v]] = node
      /\ \A w \in DOMAIN g.nodes \ {v} :
           /\ AddNode(g, v, node).nodes[w] = g.nodes[w]
           /\ AddNode(g, v, node).store[g.nodes[w]] = g.store[g.nodes[w]]
  <2>1. /\ HomesAgree(g, h) /\ v \in DOMAIN h
        /\ node \in Nodes /\ node.alloc_inst = v
    BY <1>2
  <2>2. HomesAgree(AddNode(g, v, node), h)
    BY <2>1, AddNodeKeeps
  <2>3. DOMAIN AddNode(g, v, node).nodes = DOMAIN g.nodes \cup {v}
    BY <2>1, AddNodeKeeps
  <2>4. AddNode(g, v, node).store[AddNode(g, v, node).nodes[v]] = node
    BY <2>1, AddNodeKeeps
  <2>5. \A w \in DOMAIN g.nodes \ {v} :
           /\ AddNode(g, v, node).nodes[w] = g.nodes[w]
           /\ AddNode(g, v, node).store[g.nodes[w]] = g.store[g.nodes[w]]
    BY <2>1, AddNodeKeeps
  <2> QED
    BY <2>2, <2>3, <2>4, <2>5
<1> HIDE DEF new
<1>5. ASSUME NEW w \in DOMAIN new.nodes
      PROVE  new.store[new.nodes[w]].aliases # {}
  <2>1. CASE w = v
    BY <1>2, <1>3, <1>4, <2>1
  <2>2. CASE w # v
    BY <1>3, <1>4, <2>2 DEF AllNamed
  <2> QED
    BY <2>1, <2>2
<1> QED
  BY <1>3, <1>4, <1>5 DEF AllNamed, new

\* The node another name is found at, made where there was none.
LEMMA LazyNodeKeeps ==
  ASSUME NEW g, NEW h \in Seq(Nat), HomesAgree(g, h), AllNamed(g), NEW v \in DOMAIN h
  PROVE  LET lazy == IF Tracked(g, v) THEN g ELSE createLazyNode(g, v) IN
         /\ HomesAgree(lazy, h) /\ v \in DOMAIN lazy.nodes
         /\ \A w \in DOMAIN lazy.nodes \ {v} : lazy.store[lazy.nodes[w]].aliases # {}
<1>1. AllocNode(v, {}) \in Nodes /\ AllocNode(v, {}).alloc_inst = v
  BY DEF AllocNode, Nodes
<1>2. CASE Tracked(g, v)
  BY <1>2 DEF Tracked, AllNamed
<1>3. CASE ~Tracked(g, v)
  <2>1. createLazyNode(g, v) = AddNode(g, v, AllocNode(v, {}))
    BY DEF createLazyNode
  <2>2. /\ HomesAgree(createLazyNode(g, v), h)
        /\ DOMAIN createLazyNode(g, v).nodes = DOMAIN g.nodes \cup {v}
        /\ \A w \in DOMAIN g.nodes \ {v} :
             /\ createLazyNode(g, v).nodes[w] = g.nodes[w]
             /\ createLazyNode(g, v).store[g.nodes[w]] = g.store[g.nodes[w]]
    BY <1>1, <2>1, AddNodeKeeps
  <2> QED
    BY <1>3, <2>2 DEF AllNamed
<1> QED
  BY <1>2, <1>3

\* An alias within one function joins the node its target has, under its name.
LEMMA TrackAliasKeeps ==
  ASSUME NEW g, NEW h \in Seq(Nat), HomesAgree(g, h), AllNamed(g),
         NEW from \in DOMAIN h, NEW to \in DOMAIN h, h[from] = h[to]
  PROVE  HomesAgree(trackAlias(g, from, to), h) /\ AllNamed(trackAlias(g, from, to))
<1> DEFINE lazy == IF Tracked(g, to) THEN g ELSE createLazyNode(g, to)
           new == trackAlias(g, from, to)
           n == lazy.nodes[to]
<1>1. /\ HomesAgree(lazy, h) /\ to \in DOMAIN lazy.nodes
      /\ \A w \in DOMAIN lazy.nodes \ {to} : lazy.store[lazy.nodes[w]].aliases # {}
  BY LazyNodeKeeps
<1>2. new = [lazy EXCEPT !.store[n].aliases = @ \cup {from},
                         !.nodes = WithEntry(@, from, n),
                         !.canonical = WithEntry(@, from, to)]
  BY DEF trackAlias
<1> HIDE DEF lazy, new
<1>3. IsGraph(lazy) /\ n \in DOMAIN lazy.store
  BY <1>1 DEF HomesAgree
<1>4. lazy.store \in Seq(Nodes) /\ lazy.store[n] \in Nodes /\ from \in Nat
  BY <1>3 DEF IsGraph
<1> DEFINE joined == [lazy.store[n] EXCEPT !.aliases = @ \cup {from}]
<1>5. /\ joined \in Nodes /\ joined.aliases = lazy.store[n].aliases \cup {from}
      /\ joined.alloc_inst = lazy.store[n].alloc_inst
  BY <1>3, <1>4 DEF Nodes
<1>6. /\ new.store = [lazy.store EXCEPT ![n] = joined]
      /\ new.nodes = WithEntry(lazy.nodes, from, n)
      /\ new \in [nodes : {new.nodes}, store : {new.store}, canonical : {new.canonical},
                  contents : {new.contents}, edges : {new.edges}]
  BY <1>2, <1>3 DEF IsGraph
<1> HIDE DEF joined
<1>7. /\ new.store \in Seq(Nodes) /\ DOMAIN new.store = DOMAIN lazy.store
      /\ new.store[n] = joined
      /\ \A i \in DOMAIN lazy.store \ {n} : new.store[i] = lazy.store[i]
  BY <1>3, <1>4, <1>5, <1>6
<1>8. /\ DOMAIN new.nodes = DOMAIN lazy.nodes \cup {from} /\ new.nodes[from] = n
      /\ \A w \in DOMAIN lazy.nodes \ {from} : new.nodes[w] = lazy.nodes[w]
  BY <1>6 DEF WithEntry
<1>9. IsGraph(new)
  BY <1>6, <1>7 DEF IsGraph
<1>10. \A i \in DOMAIN lazy.store : new.store[i].alloc_inst = lazy.store[i].alloc_inst
  BY <1>5, <1>7
<1>11. lazy.store[n].alloc_inst \in DOMAIN h /\ h[lazy.store[n].alloc_inst] = h[to]
  BY <1>1 DEF HomesAgree
<1>12. ASSUME NEW w \in DOMAIN new.nodes
       PROVE  /\ w \in DOMAIN h
              /\ new.nodes[w] \in DOMAIN new.store
              /\ new.store[new.nodes[w]].alloc_inst \in DOMAIN h
              /\ h[new.store[new.nodes[w]].alloc_inst] = h[w]
              /\ new.store[new.nodes[w]].aliases # {}
  <2>1. CASE w = from
    BY <1>3, <1>5, <1>7, <1>8, <1>10, <1>11, <2>1
  <2>2. CASE w # from
    <3>1. w \in DOMAIN lazy.nodes /\ new.nodes[w] = lazy.nodes[w]
      BY <1>8, <2>2
    <3>2. /\ w \in DOMAIN h /\ lazy.nodes[w] \in DOMAIN lazy.store
          /\ lazy.store[lazy.nodes[w]].alloc_inst \in DOMAIN h
          /\ h[lazy.store[lazy.nodes[w]].alloc_inst] = h[w]
      BY <1>1, <3>1 DEF HomesAgree
    <3>3. new.store[lazy.nodes[w]].aliases # {}
      <4>1. CASE lazy.nodes[w] = n
        BY <1>5, <1>7, <4>1
      <4>2. CASE lazy.nodes[w] # n
        BY <1>1, <1>7, <3>1, <3>2, <4>2
      <4> QED
        BY <4>1, <4>2
    <3> QED
      BY <1>7, <1>10, <3>1, <3>2, <3>3
  <2> QED
    BY <2>1, <2>2
<1> QED
  BY <1>9, <1>12 DEF HomesAgree, AllNamed, new

\* A free changes what a node says of itself, not who is found at it.
LEMMA TrackFreeKeeps ==
  ASSUME NEW g, NEW h \in Seq(Nat), HomesAgree(g, h), AllNamed(g), NEW v
  PROVE  HomesAgree(trackFree(g, v, NoBlock), h) /\ AllNamed(trackFree(g, v, NoBlock))
<1>1. CASE ~Tracked(g, v)
  BY <1>1 DEF trackFree
<1>2. CASE Tracked(g, v)
  <2> DEFINE new == trackFree(g, v, NoBlock)
             n == g.nodes[v]
             ended == [g.store[n] EXCEPT !.sites = Append(@, NoBlock), !.freed = TRUE]
  <2>1. IsGraph(g) /\ n \in DOMAIN g.store /\ NoBlock \in Nat
    BY <1>2 DEF HomesAgree, Tracked, NoBlock
  <2>2. g.store \in Seq(Nodes) /\ g.store[n] \in Nodes
    BY <2>1 DEF IsGraph
  <2>3. new = [g EXCEPT !.store = [g.store EXCEPT ![n] = ended]]
    BY <1>2, <2>1, <2>2 DEF trackFree, FreedAt, IsGraph, Nodes
  <2>4. /\ ended \in Nodes /\ ended.aliases = g.store[n].aliases
        /\ ended.alloc_inst = g.store[n].alloc_inst
    <3>1. Append(g.store[n].sites, NoBlock) \in Seq(Nat)
      BY <2>1, <2>2 DEF Nodes
    <3> QED
      BY <2>2, <3>1 DEF Nodes
  <2> HIDE DEF ended, new
  <2>5. /\ new.store = [g.store EXCEPT ![n] = ended] /\ new.nodes = g.nodes
    BY <2>1, <2>3 DEF IsGraph
  <2>6. /\ new.store \in Seq(Nodes) /\ DOMAIN new.store = DOMAIN g.store
        /\ \A i \in DOMAIN g.store : /\ new.store[i].alloc_inst = g.store[i].alloc_inst
                                     /\ new.store[i].aliases = g.store[i].aliases
    BY <2>1, <2>2, <2>4, <2>5
  <2>7. IsGraph(new)
    BY <2>1, <2>3, <2>5, <2>6 DEF IsGraph
  <2>8. \A w \in DOMAIN g.nodes : g.nodes[w] \in DOMAIN g.store
    BY DEF HomesAgree
  <2>9. AllNamed(new)
    BY <2>5, <2>6, <2>8 DEF AllNamed
  <2>10. HomesAgree(new, h)
    BY <2>5, <2>6, <2>7, <2>8 DEF HomesAgree
  <2> QED
    BY <2>9, <2>10 DEF new
<1> QED
  BY <1>1, <1>2

-----------------------------------------------------------------------------
(* Relevance.                                                              *)

\* What ptr-lifetime knows of its function are values of that function, and the
\* graph it has built puts the names of a node into one function.
GraphInv ==
  /\ func \in Nat /\ home \in Seq(Nat)
  /\ \A v \in pointer_map : v \in DOMAIN home /\ home[v] = func
  /\ HomesAgree(mem_graph, home) /\ AllNamed(mem_graph)

\* The values that are relevant by themselves.
Direct(v) ==
  \/ InfoOf(v).unsafe
  \/ AtBoundary(v)
  \/ /\ FreedElsewhere(v)
     /\ InfoOf(v).transfer => FfiFunctions = {} \/ FunctionOf(v) \in FfiFunctions

\* What the code makes relevant in the end, also where its comments promise
\* something else: transfers count where the fast path does not skip their function,
\* since isOnDangerPath does not know of them, and the other names of a relevant
\* value do not count, since the walk over the aliases ends where it starts.
RelevanceIsDirect ==
  Marked =>
    /\ relevant = {v \in DOMAIN mem_graph.nodes : cross_lang_edges # <<>> /\ Direct(v)}
    /\ relevant_functions = {FunctionOf(v) : v \in relevant}

\* Until danger-surface runs nothing is relevant; while it runs exactly the
\* direct ones among the values it has visited are; then all of them.
SurfaceInv ==
  /\ stage \in {"call-graph", "ptr-lifetime"} => relevant = {} /\ relevant_functions = {}
  /\ stage = "danger-surface" =>
       /\ cross_lang_edges # <<>> /\ to_visit \subseteq DOMAIN mem_graph.nodes
       /\ relevant = {v \in DOMAIN mem_graph.nodes : v \notin to_visit /\ Direct(v)}
       /\ relevant_functions = {FunctionOf(v) : v \in relevant}
  /\ RelevanceIsDirect

\* The walk over the aliases of a value adds nothing: the aliases it goes to
\* count as visited.
LEMMA WalkEnds ==
  ASSUME NEW v \in DOMAIN mem_graph.nodes
  PROVE  isOnDangerPath(v) <=> AtBoundary(v) \/ InfoOf(v).unsafe \/ FreedElsewhere(v)
BY DEF isOnDangerPath, AliasIsOnDangerPath, HasDangerOfItsOwn, Tracked

\* danger-surface takes a value for relevant if and only if it is by itself.
LEMMA OnDangerIsDirect ==
  ASSUME GraphInv, NEW v \in DOMAIN mem_graph.nodes
  PROVE  OnDanger(v) <=> Direct(v)
<1>1. NodeOf(mem_graph, v).aliases # {} /\ FunctionOf(v) = home[v]
  BY DEF GraphInv, HomesAgree, AllNamed, NodeOf, FunctionOf
<1>2. AtBoundary(v) => home[v] \in FfiFunctions
  BY DEF AtBoundary, FfiFunctions
<1>3. OnDanger(v) <=>
        \/ InfoOf(v).unsafe
        \/ FreedElsewhere(v) /\ ~InfoOf(v).transfer
        \/ /\ FfiFunctions # {} => FunctionOf(v) \in FfiFunctions
           /\ AtBoundary(v) \/ InfoOf(v).unsafe \/ FreedElsewhere(v)
  BY <1>1, WalkEnds DEF OnDanger
<1> QED
  BY <1>1, <1>2, <1>3 DEF Direct

\* The empty graph is consistent.
LEMMA InitGraph == Init => GraphInv
<1> SUFFICES ASSUME Init PROVE GraphInv
  OBVIOUS
<1>1. mem_graph = [nodes |-> <<>>, store |-> <<>>, canonical |-> <<>>, contents |-> {},
                   edges |-> {}]
  BY DEF Init, NewGraph
<1>2. mem_graph.nodes = <<>> /\ mem_graph.store = <<>>
  BY <1>1
<1>3. IsGraph(mem_graph)
  BY <1>1 DEF IsGraph
<1>4. HomesAgree(mem_graph, home) /\ AllNamed(mem_graph)
  BY <1>2, <1>3 DEF HomesAgree, AllNamed
<1> QED
  BY <1>4 DEF Init, GraphInv

\* One more instruction leaves the functions of the values before it.
LEMMA OneMoreValue ==
  ASSUME GraphInv, Instruction
  PROVE  /\ home' \in Seq(Nat) /\ DOMAIN home' = DOMAIN home \cup {Inst}
         /\ Inst \notin DOMAIN home /\ home'[Inst] = func
         /\ \A v \in DOMAIN home : home'[v] = home[v]
         /\ HomesAgree(mem_graph, home') /\ AllNamed(mem_graph)
         /\ \A v \in pointer_map : v \in DOMAIN home' /\ home'[v] = func
         /\ func' = func
<1>1. home' = Append(home, func) /\ func' = func /\ home \in Seq(Nat) /\ func \in Nat
  BY DEF Instruction, functionVars, GraphInv
<1>2. /\ home' \in Seq(Nat) /\ DOMAIN home' = DOMAIN home \cup {Inst}
      /\ Inst \notin DOMAIN home /\ home'[Inst] = func
      /\ \A v \in DOMAIN home : home'[v] = home[v]
  BY <1>1 DEF Inst
<1>3. HomesAgree(mem_graph, home')
  BY <1>2 DEF GraphInv, HomesAgree
<1> QED
  BY <1>1, <1>2, <1>3 DEF GraphInv

\* An instruction that makes a pointer adds a node for it.
LEMMA NewPointerKeeps ==
  ASSUME GraphInv, Instruction, NEW foreign, NEW transfer, NewPointer(foreign, transfer)
  PROVE  GraphInv'
<1>1. mem_graph' = mem_graph \/ mem_graph' = trackAlloc(mem_graph, Inst)
  BY DEF NewPointer
<1>2. HomesAgree(mem_graph', home') /\ AllNamed(mem_graph')
  BY <1>1, OneMoreValue, TrackAllocKeeps
<1>3. pointer_map' = pointer_map \cup {Inst}
  BY DEF NewPointer
<1> QED
  BY <1>2, <1>3, OneMoreValue DEF GraphInv

\* Every instruction ptr-lifetime looks at keeps the graph consistent.
LEMMA AnalyzeKeepsGraph ==
  ASSUME GraphInv, Analyze
  PROVE  GraphInv'
<1>1. CASE Alloca \/ HeapAlloc \/ KnownAllocator
  BY <1>1, NewPointerKeeps DEF Alloca, HeapAlloc, KnownAllocator
<1>2. ASSUME NEW v \in pointer_map, Derive(v) PROVE GraphInv'
  <2>1. Instruction /\ mem_graph' = trackAlias(mem_graph, Inst, v)
        /\ pointer_map' = pointer_map \cup {Inst}
    BY <1>2 DEF Derive, Alias
  <2>2. HomesAgree(mem_graph', home') /\ AllNamed(mem_graph')
    BY <2>1, OneMoreValue, TrackAliasKeeps
  <2> QED
    BY <2>1, <2>2, OneMoreValue DEF GraphInv
<1>3. ASSUME NEW v \in pointer_map, FreeCall(v) PROVE GraphInv'
  <2> DEFINE once == trackFree(mem_graph, v, NoBlock)
  <2>1. /\ Instruction /\ pointer_map' = pointer_map
        /\ mem_graph' = once \/ mem_graph' = trackFree(once, once.canonical[v], NoBlock)
    BY <1>3 DEF FreeCall
  <2>2. HomesAgree(once, home') /\ AllNamed(once)
    BY <2>1, OneMoreValue, TrackFreeKeeps
  <2> HIDE DEF once
  <2>3. HomesAgree(mem_graph', home') /\ AllNamed(mem_graph')
    BY <2>1, <2>2, OneMoreValue, TrackFreeKeeps
  <2> QED
    BY <2>1, <2>3, OneMoreValue DEF GraphInv
<1>4. ASSUME NEW v \in pointer_map, NEW dest \in pointer_map, Store(v, dest) PROVE GraphInv'
  <2>1. /\ Instruction /\ pointer_map' = pointer_map
        /\ mem_graph' = mem_graph \/ mem_graph' = trackAlias(mem_graph, dest, v)
    BY <1>4 DEF Store, Alias
  <2>2. HomesAgree(mem_graph', home') /\ AllNamed(mem_graph')
    BY <2>1, OneMoreValue, TrackAliasKeeps
  <2> QED
    BY <2>1, <2>2, OneMoreValue DEF GraphInv
<1> QED
  BY <1>1, <1>2, <1>3, <1>4 DEF Analyze

\* The passes around ptr-lifetime leave the graph alone.
LEMMA StepKeepsGraph == GraphInv /\ [Next]_vars => GraphInv'
<1> SUFFICES ASSUME GraphInv, [Next]_vars PROVE GraphInv'
  OBVIOUS
<1>1. CASE NextFunction
  BY <1>1 DEF NextFunction, GraphInv
<1>2. CASE Analyze
  BY <1>2, AnalyzeKeepsGraph
<1>3. CASE LifetimeEnds
  BY <1>3 DEF LifetimeEnds, GraphInv
<1>4. ASSUME UNCHANGED <<functionVars, graphVars>> PROVE GraphInv'
  BY <1>4 DEF functionVars, graphVars, GraphInv
<1>5. CASE \E caller \in Functions, callee \in Callees :
             ExtractEdge(caller, callee) \/ ExtractFails(caller, callee)
  BY <1>4, <1>5 DEF ExtractEdge, ExtractFails
<1>6. CASE \E v \in to_visit : VisitNode(v) \/ VisitFails(v)
  BY <1>4, <1>6 DEF VisitNode, VisitFails
<1>7. CASE CallGraphEnds \/ SurfaceEnds \/ Done \/ UNCHANGED vars
  BY <1>4, <1>7 DEF CallGraphEnds, SurfaceEnds, Done, vars
<1> QED
  BY <1>1, <1>2, <1>3, <1>5, <1>6, <1>7 DEF Next

\* Nothing is relevant at first.
LEMMA InitSurface == Init => SurfaceInv
BY DEF Init, SurfaceInv, RelevanceIsDirect, Marked

\* A visit settles one value, and nothing a later visit looks at changes.
LEMMA VisitKeepsSurface ==
  ASSUME GraphInv, SurfaceInv, NEW v \in to_visit, VisitNode(v)
  PROVE  SurfaceInv'
<1>1. /\ stage = "danger-surface" /\ stage' = stage /\ to_visit' = to_visit \ {v}
      /\ UNCHANGED <<edgeVars, functionVars, graphVars>>
  BY DEF VisitNode
<1>2. /\ cross_lang_edges # <<>> /\ to_visit \subseteq DOMAIN mem_graph.nodes
      /\ relevant = {w \in DOMAIN mem_graph.nodes : w \notin to_visit /\ Direct(w)}
      /\ relevant_functions = {FunctionOf(w) : w \in relevant}
  BY <1>1 DEF SurfaceInv
<1>3. /\ cross_lang_edges' = cross_lang_edges /\ mem_graph' = mem_graph
      /\ \A w : Direct(w)' = Direct(w) /\ FunctionOf(w)' = FunctionOf(w)
  BY <1>1 DEF edgeVars, graphVars, Direct, InfoOf, AtBoundary, FreedElsewhere,
              FfiFunctions, FunctionOf, CrossingCallees
<1>4. v \in DOMAIN mem_graph.nodes /\ v \notin relevant
  BY <1>2
<1>5. CASE Direct(v)
  <2>1. OnDanger(v)
    BY <1>4, <1>5, OnDangerIsDirect
  <2>2. /\ relevant' = relevant \cup {v}
        /\ relevant_functions' = relevant_functions \cup {FunctionOf(v)}
    BY <1>4, <2>1 DEF VisitNode, traceAliasClosure
  <2>3. relevant' = {w \in DOMAIN mem_graph.nodes : w \notin to_visit' /\ Direct(w)}
    BY <1>1, <1>2, <1>4, <1>5, <2>2
  <2>4. relevant_functions' = {FunctionOf(w) : w \in relevant'}
    BY <1>2, <2>2
  <2> QED
    BY <1>1, <1>2, <1>3, <2>3, <2>4 DEF SurfaceInv, RelevanceIsDirect, Marked
<1>6. CASE ~Direct(v)
  <2>1. relevant' = relevant /\ relevant_functions' = relevant_functions
    BY <1>4, <1>6, OnDangerIsDirect DEF VisitNode
  <2>2. relevant' = {w \in DOMAIN mem_graph.nodes : w \notin to_visit' /\ Direct(w)}
    BY <1>1, <1>2, <1>6, <2>1
  <2>3. relevant_functions' = {FunctionOf(w) : w \in relevant'}
    BY <1>2, <2>1
  <2> QED
    BY <1>1, <1>2, <1>3, <2>2, <2>3 DEF SurfaceInv, RelevanceIsDirect, Marked
<1> QED
  BY <1>5, <1>6

\* When all values are visited the relevant ones are the direct ones.
LEMMA EndKeepsSurface ==
  ASSUME SurfaceInv, SurfaceEnds
  PROVE  SurfaceInv'
<1>1. /\ stage = "danger-surface" /\ to_visit = {} /\ stage' = "done"
      /\ UNCHANGED <<edgeVars, functionVars, graphVars, surfaceVars>>
  BY DEF SurfaceEnds
<1>2. /\ cross_lang_edges # <<>>
      /\ relevant = {v \in DOMAIN mem_graph.nodes : Direct(v)}
      /\ relevant_functions = {FunctionOf(v) : v \in relevant}
  BY <1>1 DEF SurfaceInv
<1>3. /\ relevant = {v \in DOMAIN mem_graph.nodes : cross_lang_edges # <<>> /\ Direct(v)}
      /\ relevant_functions = {FunctionOf(v) : v \in relevant}
  BY <1>2
<1>4. RelevanceIsDirect'
  BY <1>1, <1>3 DEF RelevanceIsDirect, Marked, Direct, edgeVars, graphVars, surfaceVars, InfoOf,
                    AtBoundary, FreedElsewhere, FfiFunctions, FunctionOf, CrossingCallees
<1> QED
  BY <1>1, <1>4 DEF SurfaceInv

\* Every step keeps the marks exact.
LEMMA StepKeepsSurface == GraphInv /\ SurfaceInv /\ [Next]_vars => SurfaceInv'
<1> SUFFICES ASSUME GraphInv, SurfaceInv, [Next]_vars PROVE SurfaceInv'
  OBVIOUS
<1>1. ASSUME stage \in {"call-graph", "ptr-lifetime"},
             stage' \in {"call-graph", "ptr-lifetime"}, UNCHANGED surfaceVars
      PROVE  SurfaceInv'
  BY <1>1 DEF SurfaceInv, surfaceVars, RelevanceIsDirect, Marked
<1>2. CASE \/ CallGraphEnds \/ NextFunction
           \/ \E caller \in Functions, callee \in Callees :
                ExtractEdge(caller, callee) \/ ExtractFails(caller, callee)
  BY <1>1, <1>2 DEF CallGraphEnds, NextFunction, ExtractEdge, ExtractFails, Crosses
<1>3. CASE Analyze
  <2>1. Instruction
    BY <1>3 DEF Analyze, Alloca, HeapAlloc, KnownAllocator, Derive, Store, FreeCall
  <2> QED
    BY <1>1, <2>1 DEF Instruction
<1>4. CASE LifetimeEnds
  BY <1>4 DEF LifetimeEnds, SurfaceInv, RelevanceIsDirect, Marked, edgeVars
<1>5. ASSUME NEW v \in to_visit, VisitNode(v) PROVE SurfaceInv'
  BY <1>5, VisitKeepsSurface
<1>6. ASSUME NEW v \in to_visit, VisitFails(v) PROVE SurfaceInv'
  BY <1>6 DEF VisitFails, SurfaceInv, RelevanceIsDirect, Marked
<1>7. CASE SurfaceEnds
  BY <1>7, EndKeepsSurface
<1>8. CASE Done \/ UNCHANGED vars
  <2>1. UNCHANGED <<stage, failed, cross_lang_edges, home, mem_graph, info, calls, to_visit,
                    relevant, relevant_functions>>
    BY <1>8 DEF Done, vars, edgeVars, graphVars, surfaceVars
  <2>2. \A v : /\ InfoOf(v)' = InfoOf(v) /\ AtBoundary(v)' = AtBoundary(v)
               /\ FreedElsewhere(v)' = FreedElsewhere(v) /\ FunctionOf(v)' = FunctionOf(v)
               /\ FfiFunctions' = FfiFunctions /\ Direct(v)' = Direct(v)
    BY <2>1 DEF Direct, InfoOf, AtBoundary, FreedElsewhere, FfiFunctions, FunctionOf,
                CrossingCallees
  <2>3. RelevanceIsDirect'
    BY <2>1, <2>2 DEF SurfaceInv, RelevanceIsDirect, Marked
  <2> QED
    BY <2>1, <2>2, <2>3 DEF SurfaceInv
<1> QED
  BY <1>2, <1>3, <1>4, <1>5, <1>6, <1>7, <1>8 DEF Next

\* The second judge adds at most the transfers the fast path has skipped.
LEMMA DirectImpliesAgreement == GraphInv /\ SurfaceInv => JudgesAgree
<1> SUFFICES ASSUME GraphInv, SurfaceInv, Marked,
                    NEW v \in DOMAIN mem_graph.nodes
             PROVE  /\ v \in relevant => isOnDangerPathFull(v)
                    /\ isOnDangerPathFull(v) /\ v \notin relevant =>
                         FreedElsewhere(v) /\ InfoOf(v).transfer /\ FunctionOf(v) \notin FfiFunctions
  BY DEF JudgesAgree
<1>1. v \in relevant <=>
        /\ cross_lang_edges # <<>>
        /\ \/ InfoOf(v).unsafe
           \/ AtBoundary(v)
           \/ /\ FreedElsewhere(v)
              /\ InfoOf(v).transfer => FfiFunctions = {} \/ FunctionOf(v) \in FfiFunctions
  BY DEF SurfaceInv, RelevanceIsDirect, Direct
<1> QED
  BY <1>1, WalkEnds DEF isOnDangerPathFull

\* What is marked exactly covers what has to be marked, and names of it.
LEMMA DirectImpliesMarked == SurfaceInv => DangerIsMarked
<1> SUFFICES ASSUME SurfaceInv, Marked PROVE DangerIsMarked
  BY DEF DangerIsMarked
<1>1. /\ relevant = {v \in DOMAIN mem_graph.nodes : cross_lang_edges # <<>> /\ Direct(v)}
      /\ relevant_functions = {FunctionOf(v) : v \in relevant}
  BY DEF SurfaceInv, RelevanceIsDirect, Marked
<1>2. \A v \in DOMAIN mem_graph.nodes :
        InfoOf(v).unsafe \/ AtBoundary(v) \/ (FreedElsewhere(v) /\ ~InfoOf(v).transfer) => Direct(v)
  BY DEF Direct
<1>3. \A v \in DOMAIN mem_graph.nodes : Direct(v) => HasDangerOfItsOwn(v)
  BY DEF Direct, HasDangerOfItsOwn, Tracked
<1> QED
  BY <1>1, <1>2, <1>3 DEF DangerIsMarked

\* Whatever the program and the order of the visits, danger-surface misses nothing
\* that is dangerous, and marks nothing that has no danger among its names.
THEOREM DangerMarked == Spec => []DangerIsMarked
<1>1. Spec => [](GraphInv /\ SurfaceInv)
  BY InitGraph, InitSurface, StepKeepsGraph, StepKeepsSurface, PTL DEF Spec
<1> QED
  BY <1>1, DirectImpliesMarked, PTL

\* What is marked and what the judge of single values says agree.
THEOREM JudgesDoAgree == Spec => []JudgesAgree
<1>1. Spec => [](GraphInv /\ SurfaceInv)
  BY InitGraph, InitSurface, StepKeepsGraph, StepKeepsSurface, PTL DEF Spec
<1> QED
  BY <1>1, DirectImpliesAgreement, PTL
=============================================================================
