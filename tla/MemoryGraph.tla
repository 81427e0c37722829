----------------------------- MODULE MemoryGraph -----------------------------
(***************************************************************************)
(* The memory graph (MemoryGraph in src/semantics/memory_graph.zig), the   *)
(* structure the passes share about who points to what: allocation nodes,  *)
(* a map from values to nodes in which all aliases of an allocation end at *)
(* one node, and the sites that free it.  A graph is a record, an          *)
(* operation maps a graph to a graph.  Values are LLVM values, here the    *)
(* numbers of the instructions that compute them; nodes are their places   *)
(* in node_store.  Zones, languages and source kinds of nodes are left     *)
(* out, of content_sources only whether a kind is known is kept, and of a  *)
(* free site only its basic block.                                         *)
(***************************************************************************)
EXTENDS Naturals, Sequences, FiniteSets

NoBlock == 0    \* bb_id of a free whose basic block is unknown

NewGraph(edges) ==
  [nodes |-> <<>>, store |-> <<>>, canonical |-> <<>>, contents |-> {}, edges |-> edges]

\* A map with one more entry, or another one for a key it has.
WithEntry(map, key, value) ==
  [k \in DOMAIN map \cup {key} |-> IF k = key THEN value ELSE map[k]]

AllocNode(inst, aliases) ==
  [alloc_inst |-> inst, aliases |-> aliases, freed |-> FALSE, sites |-> <<>>]

\* Mutant: the number of the node is taken before the node is appended.
MutAddNode(g, v, node) ==
  [g EXCEPT !.store = Append(@, node), !.nodes = WithEntry(@, v, Len(g.store))]

AddNode(g, v, node) ==
  [g EXCEPT !.store = Append(@, node), !.nodes = WithEntry(@, v, Len(g.store) + 1)]

trackAlloc(g, v) == AddNode(g, v, AllocNode(v, {v}))

\* A placeholder is not an alias of itself.
createLazyNode(g, v) == AddNode(g, v, AllocNode(v, {}))

Tracked(g, v) == v \in DOMAIN g.nodes
NodeOf(g, v) == g.store[g.nodes[v]]

\* Mutant: the reverse index is written, the map of nodes is not.
MutTrackAlias(g, from, to) ==
  LET h == IF Tracked(g, to) THEN g ELSE createLazyNode(g, to)
  IN  [h EXCEPT !.store[h.nodes[to]].aliases = @ \cup {from},
                !.nodes = IF from \in DOMAIN @ THEN @ ELSE WithEntry(@, from, h.nodes[to]),
                !.canonical = WithEntry(@, from, to)]

\* from = to: from leaves the node it had for the node of to, whose alias it
\* becomes; the node it had still lists it.
trackAlias(g, from, to) ==
  LET h == IF Tracked(g, to) THEN g ELSE createLazyNode(g, to)
  IN  [h EXCEPT !.store[h.nodes[to]].aliases = @ \cup {from},
                !.nodes = WithEntry(@, from, h.nodes[to]),
                !.canonical = WithEntry(@, from, to)]

recordContentSource(g, slot) == [g EXCEPT !.contents = @ \cup {slot}]

FreedAt(node, block) == [node EXCEPT !.freed = TRUE, !.sites = Append(@, block)]

trackFree(g, v, block) ==
  IF Tracked(g, v) THEN [g EXCEPT !.store[g.nodes[v]] = FreedAt(@, block)] ELSE g

isFreed(g, v) == Tracked(g, v) /\ NodeOf(g, v).freed

-----------------------------------------------------------------------------
(* Are two free sites on one path?                                         *)

\* Mutant: only direct successors are looked at.
MutIsBBReachable(g, from, to) == from = to \/ <<from, to>> \in g.edges

\* The search reaches what is in every set that keeps the successors of its blocks.
isBBReachable(g, from, to) ==
  LET blocks == {from} \cup {e[2] : e \in g.edges}
  IN  \A S \in SUBSET blocks :
        from \in S /\ (\A e \in g.edges : e[1] \in S => e[2] \in S) => to \in S

\* checkFreeSitesSameBB and checkFreeSitesReachability: both skip the sites
\* without a block.
SitesOnOnePath(g, sites) ==
  \E i, j \in DOMAIN sites :
    /\ i < j /\ sites[i] # NoBlock /\ sites[j] # NoBlock
    /\ \/ isBBReachable(g, sites[i], sites[j])
       \/ isBBReachable(g, sites[j], sites[i])

isDoubleFreedOnSamePath(g, v) ==
  /\ Tracked(g, v)
  /\ LET node == NodeOf(g, v)
     IN  /\ Len(node.sites) >= 2
         /\ IF \A i \in DOMAIN node.sites : node.sites[i] = NoBlock
              THEN node.freed
              ELSE SitesOnOnePath(g, node.sites)
=============================================================================
