------------------------ MODULE PointerLifetimeProofs -------------------------
(***************************************************************************)
(* What the pointer-lifetime pass believes and what the function does, for  *)
(* functions with any number of variables and instructions.                 *)
(*                                                                         *)
(* The argument: a value is computed once, so what it points to, its node   *)
(* and what it is a copy of never change; only the entry, the node and the  *)
(* object of a variable do, and those are replaced together.                *)
(***************************************************************************)
EXTENDS PointerLifetime, FiniteSetTheorems, SequenceTheorems, TLAPS

Info == [freed : BOOLEAN, twice : BOOLEAN, text : Nat, owns : BOOLEAN, bb : Nat]
Node == [alloc_inst : Nat, aliases : SUBSET Nat, freed : BOOLEAN, sites : Seq(Nat)]

BlockInv ==
  /\ block \in Entry .. End /\ count \in Nat /\ start \in Nat /\ start <= count
  /\ is_ffi_func \in BOOLEAN /\ branches \in BOOLEAN
  /\ ~ branches => block \in {Entry, End}
  /\ block # Entry => count >= Allocas
  /\ block # End => keys = {}

\* A value is computed by an instruction behind the allocas, in a block that
\* the pass has been in.
HomeInv ==
  /\ Values \subseteq (Allocas + 1) .. count
  /\ \A v \in Values : home[v] \in Entry .. Join /\ home[v] <= block
  /\ ~ branches => \A v \in Values : home[v] = Entry

MapInv ==
  /\ DOMAIN pointer_map = (Variables \cap 1 .. count) \cup Values
  /\ \A v \in DOMAIN pointer_map :
       /\ pointer_map[v] \in Info /\ pointer_map[v].text \in 1 .. count
       /\ pointer_map[v].twice => pointer_map[v].freed

\* Texts are what entries own, each is owned once.
Owners == {v \in DOMAIN pointer_map : pointer_map[v].owns}
TextInv ==
  /\ texts = {pointer_map[v].text : v \in Owners}
  /\ \A v, w \in Owners : pointer_map[v].text = pointer_map[w].text => v = w

PointsInv ==
  /\ DOMAIN points = Paths
  /\ \A p \in Paths : /\ DOMAIN points[p] \subseteq DOMAIN pointer_map
                      /\ \A x \in DOMAIN points[p] : points[p][x] \in Values \cup {Parameter}
  /\ \A v \in Values : \A p \in Through(home[v]) : v \in DOMAIN points[p]

FreesInv ==
  /\ DOMAIN frees = Paths
  /\ \A p \in Paths : /\ DOMAIN frees[p] \subseteq Values \cup {Parameter}
                      /\ \A o \in DOMAIN frees[p] : frees[p][o] \in Nat \ {0}
  /\ resized \subseteq Values

\* A recorded allocation points to what it allocated.
RecordsInv ==
  /\ DOMAIN records \subseteq Values
  /\ \A r \in DOMAIN records : records[r] \in BOOLEAN /\ \A p \in Through(home[r]) : points[p][r] = r

\* A value that is a copy of a recorded allocation points to what it allocated.
CanonInv ==
  /\ \A v \in DOMAIN mem_graph.canonical :
       v \in DOMAIN pointer_map /\ mem_graph.canonical[v] \in DOMAIN pointer_map
  /\ \A v \in Values \cap DOMAIN mem_graph.canonical :
       /\ v \notin DOMAIN records
       /\ mem_graph.canonical[v] \in DOMAIN records =>
            \A p \in Through(home[v]) : points[p][v] = mem_graph.canonical[v]

\* The sites of a value are in the order of the blocks, and two that follow each
\* other were compared: only those in the two branches may be thought exclusive.
SitesInv ==
  /\ DOMAIN free_sites \subseteq Values
  /\ reported \subseteq detected /\ detected \subseteq DOMAIN free_sites
  /\ \A v \in DOMAIN free_sites :
       /\ pointer_map[v].freed
       /\ free_sites[v] \in Seq(Entry .. Join) /\ free_sites[v] # <<>>
       /\ \A i \in DOMAIN free_sites[v] : free_sites[v][i] <= block
       /\ \A i, j \in DOMAIN free_sites[v] : i < j =>
            /\ free_sites[v][i] <= free_sites[v][j]
            /\ j = i + 1 /\ {free_sites[v][i], free_sites[v][j]} # {Left, Right} => v \in detected

Graph(g) ==
  /\ DOMAIN g = {"nodes", "store", "canonical", "contents", "edges"}
  /\ g.store \in Seq(Node)
  /\ \A v \in DOMAIN g.nodes : g.nodes[v] \in DOMAIN g.store

GraphInv ==
  /\ Graph(mem_graph) /\ mem_graph.edges = Edges
  /\ DOMAIN mem_graph.nodes \subseteq DOMAIN pointer_map
  /\ keys \subseteq DOMAIN mem_graph.nodes

\* In line, what holds an object is an alias of the node of the object.
HoldersInv ==
  InLine => \A x \in Holders : LET o == points[Left][x] IN
    o # Parameter =>
      /\ x \in DOMAIN mem_graph.nodes /\ o \in DOMAIN mem_graph.nodes
      /\ mem_graph.nodes[x] = mem_graph.nodes[o]
      /\ x \in NodeOf(mem_graph, o).aliases

\* A recorded allocation has a node of its own.
NodesInv ==
  is_ffi_func => \A r \in DOMAIN records :
    r \in DOMAIN mem_graph.nodes /\ NodeOf(mem_graph, r).alloc_inst = r

\* Where frees may be, and on which path a free of a node is.
FreeBlocks == IF branches THEN Entry .. Join ELSE {Entry}
OnPath(sites, p) == \E i \in DOMAIN sites : sites[i] # NoBlock /\ p \in Through(sites[i])
SitesFit(sites) ==
  sites \in Seq(Nat) /\ \A i \in DOMAIN sites : sites[i] = NoBlock \/ sites[i] \in FreeBlocks

\* Unless other values are freed, the sites of its node are where it is freed.
ExactSites(r) ==
  LET sites == NodeOf(mem_graph, r).sites
  IN  /\ SitesFit(sites)
      /\ \A p \in Paths : Given(p, r) > 0 <=> OnPath(sites, p)
      /\ SitesOnOnePath(mem_graph, sites) <=> \E p \in Paths : Given(p, r) > 1
      /\ NodeOf(mem_graph, r).freed <=> sites # <<>>
      /\ (\A i \in DOMAIN sites : sites[i] = NoBlock) => Len(sites) <= (IF block = End THEN 1 ELSE 0)
Direct == is_ffi_func /\ DOMAIN free_sites \cup resized \subseteq DOMAIN records
ExactInv == Direct => \A r \in DOMAIN records \ resized : ExactSites(r)

-----------------------------------------------------------------------------
(* The blocks, and the maps of the graph.                                   *)

LEMMA Blocks ==
  /\ Paths = {2, 3} /\ Left = 2 /\ Right = 3 /\ Entry = 1 /\ Join = 4 /\ End = 5
  /\ Parameter = 0 /\ NoBlock = 0
  /\ Through(1) = {2, 3} /\ Through(2) = {2} /\ Through(3) = {3} /\ Through(4) = {2, 3}
BY DEF Paths, Left, Right, Entry, Join, End, Parameter, NoBlock, Through

\* Whatever is available in a block is so on every path through it.
LEMMA PathsThrough ==
  ASSUME NEW b \in Entry .. Join
  PROVE  /\ Through(b) \subseteq Paths /\ Through(b) # {} /\ Through(Entry) = Paths
         /\ \A h \in {Entry, b} : Through(b) \subseteq Through(h)
<1>1. b \in {1, 2, 3, 4}
  BY Blocks
<1> QED
  BY <1>1, Blocks

LEMMA Entries ==
  ASSUME NEW map, NEW key, NEW value
  PROVE  /\ DOMAIN WithEntry(map, key, value) = DOMAIN map \cup {key}
         /\ WithEntry(map, key, value)[key] = value
         /\ \A k \in DOMAIN map \ {key} : WithEntry(map, key, value)[k] = map[k]
BY DEF WithEntry

\* A graph keeps the nodes it has, with the allocations they are of and their
\* aliases, for all values but those in changed.
Grows(g, h, changed) ==
  /\ Graph(h) /\ h.edges = g.edges
  /\ DOMAIN g.nodes \subseteq DOMAIN h.nodes /\ DOMAIN g.store \subseteq DOMAIN h.store
  /\ \A x \in DOMAIN g.nodes \ changed : h.nodes[x] = g.nodes[x]
  /\ \A i \in DOMAIN g.store : /\ h.store[i].alloc_inst = g.store[i].alloc_inst
                               /\ g.store[i].aliases \subseteq h.store[i].aliases

SameSites(g, h) ==
  \A i \in DOMAIN g.store : /\ h.store[i].sites = g.store[i].sites
                            /\ h.store[i].freed = g.store[i].freed

\* Appending a node.
LEMMA AddNodeFacts ==
  ASSUME NEW g, Graph(g), NEW v \in Nat, NEW node \in Node
  PROVE  LET h == AddNode(g, v, node) IN
         /\ Grows(g, h, {v}) /\ SameSites(g, h)
         /\ h.canonical = g.canonical /\ DOMAIN h.nodes = DOMAIN g.nodes \cup {v}
         /\ NodeOf(h, v) = node
<1> DEFINE h == AddNode(g, v, node)
           n == Len(g.store) + 1
<1>1. /\ h.nodes = WithEntry(g.nodes, v, n) /\ h.store = Append(g.store, node)
      /\ h.canonical = g.canonical /\ h.contents = g.contents /\ h.edges = g.edges
      /\ DOMAIN h = DOMAIN g
  BY DEF Graph, AddNode
<1>2. g.store \in Seq(Node) /\ Len(g.store) \in Nat
  BY DEF Graph
<1> HIDE DEF h
<1>3. /\ h.store \in Seq(Node) /\ Len(h.store) = n /\ h.store[n] = node
      /\ \A i \in 1 .. Len(g.store) : h.store[i] = g.store[i]
      /\ DOMAIN g.store = 1 .. Len(g.store) /\ DOMAIN h.store = 1 .. n
  <2> HIDE DEF n
  <2>1. /\ h.store \in Seq(Node) /\ Len(h.store) = Len(g.store) + 1
        /\ h.store[Len(g.store) + 1] = node
        /\ \A i \in 1 .. Len(g.store) : h.store[i] = g.store[i]
    BY <1>1, <1>2, AppendProperties
  <2> QED
    BY <1>2, <2>1, LenProperties DEF n
<1>4. n \in DOMAIN h.store /\ DOMAIN g.store \subseteq DOMAIN h.store
  BY <1>2, <1>3
<1> HIDE DEF n
<1>5. /\ DOMAIN h.nodes = DOMAIN g.nodes \cup {v} /\ h.nodes[v] = n
      /\ \A x \in DOMAIN g.nodes \ {v} : h.nodes[x] = g.nodes[x]
  BY <1>1 DEF WithEntry
<1>6. Graph(h)
  <2>1. \A x \in DOMAIN h.nodes : h.nodes[x] \in DOMAIN h.store
    BY <1>4, <1>5 DEF Graph
  <2> QED
    BY <1>1, <1>3, <2>1 DEF Graph
<1>7. Grows(g, h, {v}) /\ SameSites(g, h)
  BY <1>1, <1>3, <1>4, <1>5, <1>6 DEF Grows, SameSites
<1>8. NodeOf(h, v) = node
  BY <1>3, <1>5 DEF NodeOf
<1> QED
  BY <1>1, <1>5, <1>7, <1>8 DEF h

\* Storing a node in place of another.
LEMMA ReplacedNode ==
  ASSUME NEW store \in Seq(Node), NEW n \in DOMAIN store, NEW node \in Node
  PROVE  LET s == [store EXCEPT ![n] = node] IN
         /\ s \in Seq(Node) /\ DOMAIN s = DOMAIN store /\ s[n] = node
         /\ \A i \in DOMAIN store \ {n} : s[i] = store[i]
<1> HIDE DEF Node
<1>1. DOMAIN store = 1 .. Len(store) /\ Len(store) \in Nat
  BY LenProperties
<1>2. [store EXCEPT ![n] = node] \in Seq(Node)
  BY ExceptSeq
<1> QED
  BY <1>1, <1>2

\* The graph in which from is a new name of the node of to.
WithAlias(h, from, to) ==
  [h EXCEPT !.store[h.nodes[to]].aliases = @ \cup {from},
            !.nodes = WithEntry(@, from, h.nodes[to]),
            !.canonical = WithEntry(@, from, to)]

LEMMA AliasNodeFacts ==
  ASSUME NEW h, Graph(h), NEW from \in Nat, NEW to \in DOMAIN h.nodes
  PROVE  LET k == WithAlias(h, from, to) IN
         /\ Grows(h, k, {from}) /\ SameSites(h, k)
         /\ k.canonical = WithEntry(h.canonical, from, to)
         /\ DOMAIN k.nodes = DOMAIN h.nodes \cup {from}
         /\ k.nodes[from] = h.nodes[to] /\ k.nodes[to] = h.nodes[to]
         /\ from \in NodeOf(k, from).aliases
<1> DEFINE k == WithAlias(h, from, to)
           n == h.nodes[to]
           node == [h.store[n] EXCEPT !.aliases = @ \cup {from}]
<1>1. h.store \in Seq(Node) /\ n \in DOMAIN h.store /\ DOMAIN h.store = 1 .. Len(h.store)
  BY LenProperties DEF Graph
<1>2. h.store[n] \in Node
  BY <1>1, ElementOfSeq
<1>3. /\ node \in Node /\ node.aliases = h.store[n].aliases \cup {from}
      /\ node.alloc_inst = h.store[n].alloc_inst
      /\ node.sites = h.store[n].sites /\ node.freed = h.store[n].freed
  BY <1>2 DEF Node
<1>4. /\ k.nodes = WithEntry(h.nodes, from, n)
      /\ k.store = [h.store EXCEPT ![n] = node]
      /\ k.canonical = WithEntry(h.canonical, from, to) /\ k.edges = h.edges
      /\ DOMAIN k = DOMAIN h
  BY DEF Graph, WithAlias
<1> HIDE DEF k, node
<1>5. /\ k.store \in Seq(Node) /\ DOMAIN k.store = DOMAIN h.store /\ k.store[n] = node
      /\ \A i \in DOMAIN h.store \ {n} : k.store[i] = h.store[i]
  BY <1>1, <1>3, <1>4, ReplacedNode
<1>6. /\ DOMAIN k.nodes = DOMAIN h.nodes \cup {from} /\ k.nodes[from] = n /\ k.nodes[to] = n
      /\ \A x \in DOMAIN h.nodes \ {from} : k.nodes[x] = h.nodes[x]
  BY <1>4 DEF WithEntry
<1>7. \A i \in DOMAIN h.store : i = n \/ k.store[i] = h.store[i]
  BY <1>5
<1>8. Graph(k)
  <2>1. \A x \in DOMAIN k.nodes : k.nodes[x] \in DOMAIN k.store
    BY <1>1, <1>5, <1>6 DEF Graph
  <2> QED
    BY <1>4, <1>5, <2>1 DEF Graph
<1>9. Grows(h, k, {from}) /\ SameSites(h, k)
  BY <1>3, <1>4, <1>5, <1>6, <1>7, <1>8 DEF Grows, SameSites
<1>10. from \in NodeOf(k, from).aliases
  BY <1>3, <1>5, <1>6 DEF NodeOf
<1> QED
  BY <1>4, <1>6, <1>9, <1>10 DEF k

\* Growing twice is growing.
LEMMA GrowsOn ==
  ASSUME NEW g, NEW h, NEW k, NEW A, NEW B, Grows(g, h, A), Grows(h, k, B)
  PROVE  /\ Grows(g, k, A \cup B)
         /\ SameSites(g, h) /\ SameSites(h, k) => SameSites(g, k)
BY DEF Grows, SameSites

\* Aliases.  A value that had no node gets one.
LEMMA TrackAliasFacts ==
  ASSUME NEW g, Graph(g), NEW from \in Nat, NEW to \in Nat
  PROVE  LET k == trackAlias(g, from, to) IN
         /\ Grows(g, k, {from}) /\ SameSites(g, k)
         /\ k.canonical = WithEntry(g.canonical, from, to)
         /\ DOMAIN k.nodes = DOMAIN g.nodes \cup {from, to}
         /\ to \in DOMAIN g.nodes => k.nodes[from] = g.nodes[to]
         /\ from \in NodeOf(k, from).aliases
<1> DEFINE h == IF Tracked(g, to) THEN g ELSE createLazyNode(g, to)
           k == trackAlias(g, from, to)
<1>1. /\ Grows(g, h, {}) /\ SameSites(g, h) /\ h.canonical = g.canonical
      /\ DOMAIN h.nodes = DOMAIN g.nodes \cup {to}
      /\ to \in DOMAIN g.nodes => h = g
  <2>1. CASE Tracked(g, to)
    BY <2>1 DEF Grows, SameSites, Tracked
  <2>2. CASE ~ Tracked(g, to)
    <3>1. AllocNode(to, {}) \in Node
      BY DEF AllocNode, Node
    <3>2. /\ Grows(g, h, {to}) /\ SameSites(g, h)
          /\ h.canonical = g.canonical /\ DOMAIN h.nodes = DOMAIN g.nodes \cup {to}
      BY <2>2, <3>1, AddNodeFacts DEF createLazyNode
    <3>3. Grows(g, h, {})
      BY <2>2, <3>2 DEF Grows, Tracked
    <3> QED
      BY <2>2, <3>2, <3>3 DEF Tracked
  <2> QED
    BY <2>1, <2>2
<1>2. k = WithAlias(h, from, to)
  BY DEF trackAlias, WithAlias
<1>3. Graph(h) /\ to \in DOMAIN h.nodes
  BY <1>1 DEF Grows
<1> HIDE DEF h, k
<1>4. /\ Grows(h, k, {from}) /\ SameSites(h, k)
      /\ k.canonical = WithEntry(h.canonical, from, to)
      /\ DOMAIN k.nodes = DOMAIN h.nodes \cup {from}
      /\ k.nodes[from] = h.nodes[to] /\ k.nodes[to] = h.nodes[to]
      /\ from \in NodeOf(k, from).aliases
  BY <1>2, <1>3, AliasNodeFacts
<1>5. Grows(g, k, {from}) /\ SameSites(g, k)
  <2>1. Grows(g, k, {} \cup {from}) /\ SameSites(g, k)
    BY <1>1, <1>4, GrowsOn
  <2>2. {} \cup {from} = {from}
    OBVIOUS
  <2> QED
    BY <2>1, <2>2
<1>6. k.canonical = WithEntry(g.canonical, from, to)
  BY <1>1, <1>4
<1>7. DOMAIN k.nodes = DOMAIN g.nodes \cup {from, to}
  BY <1>1, <1>4
<1>8. to \in DOMAIN g.nodes => k.nodes[from] = g.nodes[to]
  BY <1>1, <1>4
<1> QED
  BY <1>4, <1>5, <1>6, <1>7, <1>8 DEF k

LEMMA FreedNode ==
  ASSUME NEW node \in Node, NEW b \in Nat
  PROVE  LET new == FreedAt(node, b) IN
         /\ new \in Node /\ new.sites = Append(node.sites, b) /\ new.freed
         /\ new.alloc_inst = node.alloc_inst /\ new.aliases = node.aliases
<1> DEFINE sites == Append(node.sites, b)
<1>1. sites \in Seq(Nat)
  BY AppendProperties DEF Node
<1>2. FreedAt(node, b) = [node EXCEPT !.freed = TRUE, !.sites = sites]
  BY DEF FreedAt
<1> HIDE DEF sites
<1>3. LET new == [node EXCEPT !.freed = TRUE, !.sites = sites] IN
      /\ new \in Node /\ new.sites = sites /\ new.freed
      /\ new.alloc_inst = node.alloc_inst /\ new.aliases = node.aliases
  BY <1>1 DEF Node
<1> QED
  BY <1>2, <1>3 DEF sites

\* A free adds a site to the node of the value.
LEMMA TrackFreeFacts ==
  ASSUME NEW g, Graph(g), NEW v, NEW b \in Nat
  PROVE  LET h == trackFree(g, v, b) IN
         /\ Grows(g, h, {}) /\ h.canonical = g.canonical /\ h.nodes = g.nodes
         /\ DOMAIN h.store = DOMAIN g.store
         /\ \A i \in DOMAIN g.store :
              IF Tracked(g, v) /\ i = g.nodes[v]
                THEN h.store[i].sites = Append(g.store[i].sites, b) /\ h.store[i].freed
                ELSE h.store[i].sites = g.store[i].sites /\ h.store[i].freed = g.store[i].freed
<1> DEFINE h == trackFree(g, v, b)
<1>1. CASE ~ Tracked(g, v)
  BY <1>1 DEF trackFree, Grows
<1>2. CASE Tracked(g, v)
  <2> DEFINE n == g.nodes[v]
             node == FreedAt(g.store[n], b)
  <2>1. g.store \in Seq(Node) /\ n \in DOMAIN g.store /\ DOMAIN g.store = 1 .. Len(g.store)
    BY <1>2, LenProperties DEF Graph, Tracked
  <2>2. g.store[n] \in Node
    BY <2>1, ElementOfSeq
  <2>3. /\ node \in Node /\ node.aliases = g.store[n].aliases
        /\ node.alloc_inst = g.store[n].alloc_inst
        /\ node.sites = Append(g.store[n].sites, b) /\ node.freed
    BY <2>2, FreedNode
  <2>4. /\ h.nodes = g.nodes /\ h.canonical = g.canonical /\ h.edges = g.edges
        /\ DOMAIN h = DOMAIN g
    BY <1>2 DEF trackFree, Graph
  <2>5. h.store = [g.store EXCEPT ![n] = node]
    BY <1>2 DEF trackFree, Graph
  <2> HIDE DEF h, node
  <2>6. /\ h.store \in Seq(Node) /\ DOMAIN h.store = DOMAIN g.store /\ h.store[n] = node
        /\ \A i \in DOMAIN g.store \ {n} : h.store[i] = g.store[i]
    BY <2>1, <2>3, <2>5, ReplacedNode
  <2>7. Graph(h)
    BY <2>4, <2>6 DEF Graph
  <2>8. \A i \in DOMAIN g.store : i = n \/ h.store[i] = g.store[i]
    BY <2>6
  <2>9. Grows(g, h, {})
    BY <2>3, <2>4, <2>6, <2>7, <2>8 DEF Grows
  <2> HIDE DEF n
  <2>10. \A i \in DOMAIN g.store :
           IF i = n
             THEN h.store[i].sites = Append(g.store[i].sites, b) /\ h.store[i].freed
             ELSE h.store[i].sites = g.store[i].sites /\ h.store[i].freed = g.store[i].freed
    BY <2>3, <2>6
  <2> QED
    BY <1>2, <2>4, <2>6, <2>9, <2>10 DEF h, n
<1> QED
  BY <1>1, <1>2

-----------------------------------------------------------------------------
(* Where the pass is, and the values computed so far.                       *)

LEMMA InstFacts ==
  ASSUME BlockInv, HomeInv, MapInv
  PROVE  /\ Inst \in Nat \ {0} /\ Inst = count + 1 /\ count \in Nat /\ Allocas \in Nat
         /\ Inst \notin Values /\ Inst \notin DOMAIN pointer_map
         /\ count >= Allocas => Inst \notin Variables /\ Variables \subseteq 1 .. count
         /\ Values \cap Variables = {} /\ Values \subseteq 1 .. count
         /\ DOMAIN pointer_map \subseteq 1 .. count /\ 0 \notin Values
         /\ \A x \in 1 .. count : x \in Nat \ {0} /\ x # Inst
<1>1. count \in Nat /\ Allocas \in Nat /\ Inst = count + 1
  BY LifetimeBounds DEF BlockInv, Inst
<1>2. Values \subseteq (Allocas + 1) .. count /\ Variables = 1 .. Allocas
  BY DEF HomeInv, Variables
<1>3. DOMAIN pointer_map = (Variables \cap 1 .. count) \cup Values
  BY DEF MapInv
<1> HIDE DEF Values
<1>4. Values \subseteq 1 .. count /\ Values \cap Variables = {} /\ 0 \notin Values
  BY <1>1, <1>2
<1>5. \A x \in 1 .. count : x \in Nat \ {0} /\ x # Inst
  BY <1>1
<1>6. count >= Allocas => Inst \notin Variables /\ Variables \subseteq 1 .. count
  BY <1>1, <1>2
<1>7. DOMAIN pointer_map \subseteq 1 .. count
  BY <1>3, <1>4
<1>8. Inst \in Nat \ {0} /\ Inst \notin 1 .. count
  BY <1>1
<1> HIDE DEF Inst
<1> QED
  BY <1>1, <1>4, <1>5, <1>6, <1>7, <1>8

\* The instructions that compute a value, those that do not, and the rest.
NewValue == Instruction /\ home' = WithEntry(home, Inst, block)
NoValue == Instruction /\ home' = home
Quiet == UNCHANGED <<is_ffi_func, branches, block, start, count, home>> /\ keys' \subseteq keys
Steps == Next \/ UNCHANGED vars

LEMMA ActionKinds ==
  /\ Malloc => NewValue
  /\ \A s \in Variables :
       /\ handleLoad(s) => NewValue
       /\ StoreParameter(s) => NoValue
       /\ \A v \in Values : handleStore(v, s) => NoValue
  /\ \A v \in Values :
       /\ Realloc(v) => NewValue
       /\ handleBitCastAndConversions(v) => NewValue
       /\ FreeCall(v) => NoValue
       /\ \A w \in Values : handlePhi(v, w) => NewValue
  /\ \A k \in keys : PropagateFreed(k) => Quiet
  /\ Ended \/ UNCHANGED vars => Quiet
<1>1. ASSUME Malloc
      PROVE  NewValue
  BY <1>1 DEF Malloc, HeapAlloc, Define, NewValue
<1>2. ASSUME NEW s \in Variables, handleLoad(s)
      PROVE  NewValue
  BY <1>2 DEF handleLoad, Define, NewValue
<1>3. ASSUME NEW s \in Variables, StoreParameter(s)
      PROVE  NoValue
  BY <1>3 DEF StoreParameter, NoValue
<1>4. ASSUME NEW s \in Variables, NEW v \in Values, handleStore(v, s)
      PROVE  NoValue
  BY <1>4 DEF handleStore, NoValue
<1>5. ASSUME NEW v \in Values, Realloc(v)
      PROVE  NewValue
  BY <1>5 DEF Realloc, HeapAlloc, Define, NewValue
<1>6. ASSUME NEW v \in Values, handleBitCastAndConversions(v)
      PROVE  NewValue
  BY <1>6 DEF handleBitCastAndConversions, Define, NewValue
<1>7. ASSUME NEW v \in Values, FreeCall(v)
      PROVE  NoValue
  BY <1>7 DEF FreeCall, NoValue
<1>8. ASSUME NEW v \in Values, NEW w \in Values, handlePhi(v, w)
      PROVE  NewValue
  BY <1>8 DEF handlePhi, Define, NewValue
<1>9. ASSUME NEW k \in keys, PropagateFreed(k)
      PROVE  Quiet
  BY <1>9 DEF PropagateFreed, history, Quiet
<1>10. ASSUME Ended \/ UNCHANGED vars
       PROVE  Quiet
  BY <1>10 DEF Ended, vars, Quiet
<1> QED
  BY <1>1, <1>2, <1>3, <1>4, <1>5, <1>6, <1>7, <1>8, <1>9, <1>10

LEMMA Kinds ==
  ASSUME Steps
  PROVE  handleAlloca \/ NewValue \/ NoValue \/ NextBlock \/ Quiet
BY ActionKinds, Zenon DEF Steps, Next

LEMMA BlockStep ==
  ASSUME BlockInv, Steps
  PROVE  BlockInv'
<1> USE Blocks, LifetimeBounds DEF BlockInv
<1>1. CASE handleAlloca
  BY <1>1 DEF handleAlloca
<1>2. CASE NewValue \/ NoValue
  BY <1>2 DEF NewValue, NoValue, Instruction
<1>3. CASE NextBlock
  <2>1. block' = IF branches /\ block # Join THEN block + 1 ELSE End
    BY <1>3 DEF NextBlock
  <2>2. block' \in Entry .. End /\ (~ branches => block' = End) /\ block' # Entry
    BY <1>3, <2>1 DEF NextBlock
  <2>3. block' # End => keys' = {}
    BY <1>3 DEF NextBlock
  <2> QED
    BY <1>3, <2>2, <2>3 DEF NextBlock
<1>4. CASE Quiet
  BY <1>4 DEF Quiet
<1> QED
  BY <1>1, <1>2, <1>3, <1>4, Kinds

\* The blocks come in order, and what a value was computed in stays.
LEMMA HomeStep ==
  ASSUME BlockInv, HomeInv, MapInv, Steps
  PROVE  /\ HomeInv' /\ block <= block' /\ count <= count'
         /\ Values \subseteq Values' /\ \A v \in Values : home'[v] = home[v]
         /\ Values' \subseteq Values \cup {Inst}
         /\ \A v \in Values' \ Values : home'[v] = block
<1>0. UNCHANGED branches
  BY Kinds DEF handleAlloca, NewValue, NoValue, Instruction, NextBlock, Quiet
<1>1. /\ Inst = count + 1 /\ count \in Nat /\ Inst \notin Values
      /\ Values \subseteq (Allocas + 1) .. count /\ Allocas \in Nat
      /\ \A v \in Values : home[v] \in 1 .. 4 /\ home[v] <= block
      /\ block \in 1 .. 5 /\ (block # 1 => count >= Allocas)
      /\ ~ branches => block \in {1, 5} /\ \A v \in Values : home[v] = 1
  BY Blocks, InstFacts, LifetimeBounds DEF HomeInv, BlockInv
<1>2. ASSUME UNCHANGED home, count' \in Nat, count <= count', block <= block', block' \in Nat
      PROVE  /\ HomeInv' /\ block <= block' /\ count <= count'
             /\ Values \subseteq Values' /\ \A v \in Values : home'[v] = home[v]
             /\ Values' \subseteq Values \cup {Inst}
             /\ \A v \in Values' \ Values : home'[v] = block
  <2>1. Values' = Values
    BY <1>2 DEF Values
  <2> HIDE DEF Values
  <2>2. Values' \subseteq (Allocas + 1) .. count'
    <3>1. (Allocas + 1) .. count \subseteq (Allocas + 1) .. count'
      BY <1>1, <1>2
    <3> QED
      BY <1>1, <2>1, <3>1
  <2>3. /\ \A v \in Values' : home'[v] \in 1 .. 4 /\ home'[v] <= block'
        /\ ~ branches' => \A v \in Values' : home'[v] = 1
    BY <1>0, <1>1, <1>2, <2>1
  <2>4. HomeInv'
    BY <2>2, <2>3, Blocks DEF HomeInv
  <2> QED
    BY <1>2, <2>1, <2>4
<1>3. CASE handleAlloca \/ NoValue \/ Quiet
  <2>1. ASSUME handleAlloca
        PROVE  UNCHANGED home /\ block' = block /\ count' = count + 1
    BY <2>1 DEF handleAlloca, history
  <2>2. ASSUME NoValue
        PROVE  UNCHANGED home /\ block' = block /\ count' = count + 1
    BY <2>2 DEF NoValue, Instruction
  <2>3. ASSUME Quiet
        PROVE  UNCHANGED home /\ block' = block /\ count' = count
    BY <2>3 DEF Quiet
  <2>4. UNCHANGED home /\ block' = block /\ (count' = count \/ count' = count + 1)
    BY <1>3, <2>1, <2>2, <2>3
  <2>5. count' \in Nat /\ count <= count' /\ block <= block' /\ block' \in Nat
    BY <1>1, <2>4
  <2> QED
    BY <1>2, <2>4, <2>5
<1>4. CASE NewValue
  <2>1. /\ block \in 1 .. 4 /\ block' = block /\ count' = count + 1 /\ count >= Allocas
        /\ home' = WithEntry(home, Inst, block)
    BY <1>1, <1>4, Blocks DEF NewValue, Instruction
  <2>2. /\ Values' = Values \cup {Inst} /\ home'[Inst] = block
        /\ \A v \in Values : home'[v] = home[v]
    <3>1. /\ DOMAIN WithEntry(home, Inst, block) = DOMAIN home \cup {Inst}
          /\ WithEntry(home, Inst, block)[Inst] = block
          /\ \A v \in DOMAIN home \ {Inst} : WithEntry(home, Inst, block)[v] = home[v]
      BY DEF WithEntry
    <3>2. home' = WithEntry(home, Inst, block)
      BY <2>1
    <3> QED
      BY <1>1, <3>1, <3>2 DEF Values
  <2> HIDE DEF Values
  <2>3. Values' \subseteq (Allocas + 1) .. count'
    <3>1. Inst \in (Allocas + 1) .. count'
      BY <1>1, <2>1
    <3>2. (Allocas + 1) .. count \subseteq (Allocas + 1) .. count'
      BY <1>1, <2>1
    <3> QED
      BY <1>1, <2>2, <3>1, <3>2
  <2>4. /\ \A v \in Values' : home'[v] \in 1 .. 4 /\ home'[v] <= block'
        /\ ~ branches' => \A v \in Values' : home'[v] = 1
    BY <1>0, <1>1, <2>1, <2>2
  <2>5. HomeInv'
    BY <2>3, <2>4, Blocks DEF HomeInv
  <2>6. block <= block' /\ count <= count'
    BY <1>1, <2>1
  <2> QED
    BY <2>2, <2>5, <2>6
<1>5. CASE NextBlock
  <2>1. block' = (IF branches /\ block # 4 THEN block + 1 ELSE 5) /\ home' = home /\ count' = count
    BY <1>5, Blocks DEF NextBlock, history
  <2> QED
    BY <1>1, <1>2, <2>1
<1> QED
  BY <1>3, <1>4, <1>5, Kinds

-----------------------------------------------------------------------------
(* The pointer map: which entries a step replaces and which it marks.       *)

\* Entries that keep their texts and are at most marked as freed.
MarksOf(m, n, S) ==
  \A y \in S : /\ n[y] \in Info /\ (n[y].twice => n[y].freed)
               /\ n[y].text = m[y].text /\ n[y].owns = m[y].owns
               /\ m[y].freed => n[y].freed
Marks(m, n) == DOMAIN n = DOMAIN m /\ MarksOf(m, n, DOMAIN m)

\* The entry of x is replaced by one that owns at most a new text.
Rewrites(m, n, x) ==
  /\ DOMAIN n = DOMAIN m \cup {x} /\ MarksOf(m, n, DOMAIN m \ {x})
  /\ n[x] \in Info /\ (n[x].twice => n[x].freed)
  /\ n[x].text \in {Inst} \cup {m[y].text : y \in DOMAIN m}
  /\ n[x].owns => n[x].text = Inst

LEMMA PutEntry ==
  ASSUME NEW map, NEW m, Marks(map, m), NEW x, NEW info \in Info, info.twice => info.freed,
         info.text \in {Inst} \cup {map[y].text : y \in DOMAIN map},
         info.owns => info.text = Inst
  PROVE  Rewrites(map, WithEntry(m, x, info), x)
<1> DEFINE n == WithEntry(m, x, info)
<1>1. /\ DOMAIN n = DOMAIN map \cup {x} /\ n[x] = info
      /\ \A y \in DOMAIN map \ {x} : n[y] = m[y]
  BY DEF WithEntry, Marks
<1> HIDE DEF n, Info
<1>2. MarksOf(map, n, DOMAIN map \ {x})
  BY <1>1 DEF Marks, MarksOf
<1> QED
  BY <1>1, <1>2 DEF Rewrites, n

\* A step replaces one entry, with the text that the entry owned, or it only
\* marks entries.
Replaces(x) ==
  /\ Rewrites(pointer_map, pointer_map', x) /\ count' = count + 1
  /\ texts' = (texts \ OwnedText(x)) \cup (IF pointer_map'[x].owns THEN {Inst} ELSE {})
OnlyMarks == Marks(pointer_map, pointer_map') /\ UNCHANGED texts

LEMMA SelfMarks ==
  ASSUME MapInv
  PROVE  Marks(pointer_map, pointer_map)
BY DEF MapInv, Marks, MarksOf

LEMMA PutPtrInfo ==
  ASSUME MapInv, NEW x, NEW info \in Info, info.twice => info.freed,
         info.text \in {Inst} \cup {pointer_map[y].text : y \in DOMAIN pointer_map},
         info.owns => info.text = Inst, putPtrInfo(x, info), count' = count + 1
  PROVE  Replaces(x) /\ DOMAIN pointer_map' = DOMAIN pointer_map \cup {x}
<1>1. Marks(pointer_map, pointer_map)
  BY SelfMarks
<1>2. Rewrites(pointer_map, WithEntry(pointer_map, x, info), x)
  BY <1>1, PutEntry
<1>3. pointer_map' = WithEntry(pointer_map, x, info)
  BY DEF putPtrInfo
<1>4. pointer_map'[x] = info
  BY <1>3 DEF WithEntry
<1>5. texts' = (texts \ OwnedText(x)) \cup (IF pointer_map'[x].owns THEN {Inst} ELSE {})
  BY <1>4 DEF putPtrInfo
<1>6. Rewrites(pointer_map, pointer_map', x)
  BY <1>2, <1>3
<1> QED
  BY <1>5, <1>6 DEF Replaces, Rewrites

LEMMA Infos ==
  ASSUME BlockInv, HomeInv, MapInv
  PROVE  /\ NewInfo \in Info /\ NewInfo.owns /\ ~ NewInfo.twice /\ NewInfo.text = Inst
         /\ ~ NewInfo.freed
         /\ \A v \in DOMAIN pointer_map :
              /\ CopiedInfo(v) \in Info /\ CopiedInfo(v).freed = pointer_map[v].freed
              /\ CopiedInfo(v).twice = pointer_map[v].twice
              /\ CopiedInfo(v).owns => CopiedInfo(v).text = Inst
              /\ CopiedInfo(v).text \in {Inst, pointer_map[v].text}
<1>1. Inst \in Nat /\ block \in Nat
  BY InstFacts, Blocks DEF BlockInv
<1>2. NewInfo \in Info /\ NewInfo.owns /\ ~ NewInfo.twice /\ NewInfo.text = Inst /\ ~ NewInfo.freed
  BY <1>1 DEF NewInfo, Info
<1>3. ASSUME NEW v \in DOMAIN pointer_map
      PROVE  /\ CopiedInfo(v) \in Info /\ CopiedInfo(v).freed = pointer_map[v].freed
             /\ CopiedInfo(v).twice = pointer_map[v].twice
             /\ CopiedInfo(v).owns => CopiedInfo(v).text = Inst
             /\ CopiedInfo(v).text \in {Inst, pointer_map[v].text}
  <2>1. pointer_map[v] \in Info
    BY DEF MapInv
  <2> QED
    BY <1>1, <2>1 DEF CopiedInfo, Info
<1> QED
  BY <1>2, <1>3

LEMMA MarkFacts ==
  ASSUME NEW m, \A y \in DOMAIN m : m[y] \in Info /\ (m[y].twice => m[y].freed), NEW S
  PROVE  /\ Marks(m, MarkInfos(m, S))
         /\ \A y \in S \cap DOMAIN m : MarkInfos(m, S)[y].freed
<1> DEFINE n == MarkInfos(m, S)
<1>1. DOMAIN n = DOMAIN m
  BY DEF MarkInfos
<1>2. ASSUME NEW y \in DOMAIN m
      PROVE  /\ n[y] \in Info /\ (n[y].twice => n[y].freed)
             /\ n[y].text = m[y].text /\ n[y].owns = m[y].owns /\ (m[y].freed => n[y].freed)
             /\ y \in S => n[y].freed
  <2>1. n[y] = IF y \in S /\ ~ m[y].twice THEN [m[y] EXCEPT !.freed = TRUE] ELSE m[y]
    BY DEF MarkInfos
  <2>2. m[y] \in Info /\ (m[y].twice => m[y].freed)
    OBVIOUS
  <2> QED
    BY <2>1, <2>2 DEF Info
<1> HIDE DEF n
<1> QED
  BY <1>1, <1>2 DEF Marks, MarksOf, n

\* A free marks the entry, and those of the aliases; a second free also gives
\* the entry a new description.
LEMMA FreeCallEntries ==
  ASSUME BlockInv, HomeInv, MapInv, NEW v \in Values, FreeCall(v)
  PROVE  /\ OnlyMarks \/ Replaces(v)
         /\ pointer_map'[v].freed
         /\ pointer_map[v].freed => FreedInfo(pointer_map[v]).twice
         /\ is_ffi_func => \A y \in AliasesOf(mem_graph, v) \cap DOMAIN pointer_map : pointer_map'[y].freed
<1> DEFINE m == [pointer_map EXCEPT ![v] = FreedInfo(@)]
           again == pointer_map[v].freed /\ ~ pointer_map[v].twice
<1>0. /\ Values \subseteq DOMAIN pointer_map
      /\ \A y \in DOMAIN pointer_map :
           pointer_map[y] \in Info /\ (pointer_map[y].twice => pointer_map[y].freed)
  BY DEF MapInv
<1>1. /\ count' = count + 1
      /\ pointer_map' = m \/ pointer_map' = MarkInfos(m, AliasesOf(mem_graph, v))
      /\ texts' = IF again THEN (texts \ OwnedText(v)) \cup {Inst} ELSE texts
  BY DEF FreeCall, Instruction
<1>2. /\ DOMAIN m = DOMAIN pointer_map /\ m[v] = FreedInfo(pointer_map[v])
      /\ \A y \in DOMAIN pointer_map : y = v \/ m[y] = pointer_map[y]
  BY <1>0
<1>3. /\ m[v] \in Info /\ m[v].freed
      /\ again => m[v].owns /\ m[v].text = Inst
      /\ ~ again => m[v].owns = pointer_map[v].owns /\ m[v].text = pointer_map[v].text
  <2>1. pointer_map[v] \in Info /\ Inst \in Nat
    BY <1>0, InstFacts
  <2> HIDE DEF m
  <2> QED
    BY <1>2, <2>1 DEF FreedInfo, Info
<1> HIDE DEF m
<1>4. \A y \in DOMAIN m : m[y] \in Info /\ (m[y].twice => m[y].freed)
  BY <1>0, <1>2, <1>3
<1>5. Marks(m, m)
  BY <1>4 DEF Marks, MarksOf
<1>6. Marks(m, pointer_map')
  BY <1>1, <1>4, <1>5, MarkFacts
<1>7. /\ DOMAIN pointer_map' = DOMAIN pointer_map
      /\ MarksOf(pointer_map, pointer_map', DOMAIN pointer_map \ {v})
      /\ pointer_map'[v] \in Info /\ pointer_map'[v].freed
      /\ pointer_map'[v].text = m[v].text /\ pointer_map'[v].owns = m[v].owns
  BY <1>0, <1>2, <1>3, <1>6 DEF Marks, MarksOf
<1>8. ASSUME again
      PROVE  Replaces(v)
  <2>1. Rewrites(pointer_map, pointer_map', v)
    BY <1>0, <1>3, <1>7, <1>8 DEF Rewrites
  <2> QED
    BY <1>1, <1>3, <1>7, <1>8, <2>1 DEF Replaces
<1>9. ASSUME ~ again
      PROVE  OnlyMarks
  <2>1. \A y \in DOMAIN pointer_map : y = v \/ y \in DOMAIN pointer_map \ {v}
    OBVIOUS
  <2>2. MarksOf(pointer_map, pointer_map', DOMAIN pointer_map)
    BY <1>3, <1>7, <1>9, <2>1 DEF MarksOf
  <2> QED
    BY <1>1, <1>7, <1>9, <2>2 DEF OnlyMarks, Marks
<1>10. pointer_map[v].freed => FreedInfo(pointer_map[v]).twice
  <2>1. pointer_map[v] \in Info
    BY <1>0
  <2> QED
    BY <2>1 DEF FreedInfo, Info
<1>11. ASSUME is_ffi_func
       PROVE  \A y \in AliasesOf(mem_graph, v) \cap DOMAIN pointer_map : pointer_map'[y].freed
  <2>1. pointer_map' = MarkInfos(m, AliasesOf(mem_graph, v))
    BY <1>11 DEF FreeCall, m
  <2> QED
    BY <1>2, <1>4, <2>1, MarkFacts
<1> QED
  BY <1>7, <1>8, <1>9, <1>10, <1>11

\* A new value, or a variable that is stored to, gets a new entry.
LEMMA MapActions ==
  ASSUME BlockInv, HomeInv, MapInv
  PROVE  /\ handleAlloca => Replaces(Inst)
         /\ Malloc => Replaces(Inst)
         /\ \A s \in Variables : /\ handleLoad(s) => Replaces(Inst)
                                 /\ StoreParameter(s) => OnlyMarks
                                 /\ \A v \in Values : handleStore(v, s) => Replaces(s)
         /\ \A v \in Values : /\ Realloc(v) => Replaces(Inst)
                              /\ handleBitCastAndConversions(v) => Replaces(Inst)
                              /\ \A w \in Values : handlePhi(v, w) => Replaces(Inst)
         /\ NextBlock \/ (\E k \in keys : PropagateFreed(k)) \/ Ended \/ UNCHANGED vars => OnlyMarks
<1>1. /\ Values \subseteq DOMAIN pointer_map
      /\ \A y \in DOMAIN pointer_map :
           pointer_map[y] \in Info /\ (pointer_map[y].twice => pointer_map[y].freed)
  BY DEF MapInv
<1>2. ASSUME putPtrInfo(Inst, NewInfo), count' = count + 1
      PROVE  Replaces(Inst)
  BY <1>2, Infos, PutPtrInfo
<1>3. ASSUME NEW v \in DOMAIN pointer_map, putPtrInfo(Inst, CopiedInfo(v)), count' = count + 1
      PROVE  Replaces(Inst)
  <2>1. /\ CopiedInfo(v) \in Info /\ (CopiedInfo(v).twice => CopiedInfo(v).freed)
        /\ CopiedInfo(v).owns => CopiedInfo(v).text = Inst
        /\ CopiedInfo(v).text \in {Inst} \cup {pointer_map[y].text : y \in DOMAIN pointer_map}
    BY <1>1, Infos
  <2> QED
    BY <1>3, <2>1, PutPtrInfo
<1>4. ASSUME handleAlloca
      PROVE  Replaces(Inst)
  BY <1>2, <1>4 DEF handleAlloca
<1>5. ASSUME NEW m, NEW g, NEW r, HeapAlloc(m, g, r), Marks(pointer_map, m), count' = count + 1
      PROVE  Replaces(Inst)
  <2>1. Rewrites(pointer_map, WithEntry(m, Inst, NewInfo), Inst)
    BY <1>5, Infos, PutEntry
  <2>2. pointer_map' = WithEntry(m, Inst, NewInfo) /\ texts' = texts \cup {Inst}
    BY <1>5 DEF HeapAlloc
  <2>3. pointer_map'[Inst].owns
    BY <2>2, Infos DEF WithEntry
  <2>4. OwnedText(Inst) = {}
    BY InstFacts DEF OwnedText
  <2>5. Rewrites(pointer_map, pointer_map', Inst)
    BY <2>1, <2>2
  <2> QED
    BY <1>5, <2>2, <2>3, <2>4, <2>5 DEF Replaces
<1>6. ASSUME Malloc
      PROVE  Replaces(Inst)
  BY <1>5, <1>6, SelfMarks DEF Malloc, Instruction
<1>7. ASSUME NEW v \in Values, Realloc(v)
      PROVE  Replaces(Inst)
  <2>1. Marks(pointer_map, [pointer_map EXCEPT ![v].freed = TRUE])
    <3> DEFINE n == [pointer_map EXCEPT ![v].freed = TRUE]
    <3>1. /\ DOMAIN n = DOMAIN pointer_map /\ n[v] = [pointer_map[v] EXCEPT !.freed = TRUE]
          /\ \A y \in DOMAIN pointer_map \ {v} : n[y] = pointer_map[y]
      BY <1>1
    <3>2. /\ n[v] \in Info /\ n[v].freed
          /\ n[v].text = pointer_map[v].text /\ n[v].owns = pointer_map[v].owns
      <4>1. pointer_map[v] \in Info
        BY <1>1
      <4> HIDE DEF n
      <4> QED
        BY <3>1, <4>1 DEF Info
    <3> HIDE DEF n
    <3>3. \A y \in DOMAIN pointer_map : y = v \/ n[y] = pointer_map[y]
      BY <3>1
    <3> QED
      BY <1>1, <3>1, <3>2, <3>3 DEF Marks, MarksOf, n
  <2>2. Marks(pointer_map, pointer_map) /\ count' = count + 1
    BY <1>7, SelfMarks DEF Realloc, Instruction
  <2>3. \/ HeapAlloc(pointer_map, mem_graph, records)
        \/ HeapAlloc([pointer_map EXCEPT ![v].freed = TRUE],
                     trackFree(mem_graph, v, NoBlock), markFreed(records, v))
    BY <1>7 DEF Realloc
  <2> QED
    BY <1>5, <2>1, <2>2, <2>3
<1>8. ASSUME NEW s \in Variables, handleLoad(s)
      PROVE  Replaces(Inst)
  <2>1. count' = count + 1 /\ putPtrInfo(Inst, CopiedInfo(s)) /\ s \in DOMAIN pointer_map
    BY <1>8, InstFacts DEF handleLoad, propagateOrigin, Instruction, MapInv
  <2> QED
    BY <1>3, <2>1
<1>9. ASSUME NEW s \in Variables, StoreParameter(s)
      PROVE  OnlyMarks
  BY <1>9, SelfMarks DEF StoreParameter, OnlyMarks
<1>10. ASSUME NEW s \in Variables, NEW v \in Values, handleStore(v, s)
       PROVE  Replaces(s)
  <2> DEFINE info == [pointer_map[v] EXCEPT !.text = Inst, !.owns = TRUE]
  <2>1. putPtrInfo(s, info) /\ count' = count + 1
    BY <1>10 DEF handleStore, Instruction
  <2>2. info \in Info /\ (info.twice => info.freed) /\ info.text = Inst
    <3>1. pointer_map[v] \in Info /\ (pointer_map[v].twice => pointer_map[v].freed)
      BY <1>1
    <3> QED
      BY <3>1, InstFacts DEF Info
  <2> HIDE DEF info
  <2> QED
    BY <2>1, <2>2, PutPtrInfo
<1>11. ASSUME NEW v \in Values, handleBitCastAndConversions(v)
       PROVE  Replaces(Inst)
  <2>1. count' = count + 1 /\ putPtrInfo(Inst, CopiedInfo(v)) /\ v \in DOMAIN pointer_map
    BY <1>1, <1>11 DEF handleBitCastAndConversions, propagateOrigin, Instruction
  <2> QED
    BY <1>3, <2>1
<1>13. ASSUME NEW v \in Values, NEW w \in Values, handlePhi(v, w)
       PROVE  Replaces(Inst)
  BY <1>2, <1>13 DEF handlePhi, Instruction
<1>14. ASSUME NextBlock \/ (\E k \in keys : PropagateFreed(k)) \/ Ended \/ UNCHANGED vars
       PROVE  OnlyMarks
  BY <1>14, SelfMarks DEF NextBlock, PropagateFreed, Ended, vars, OnlyMarks
<1> QED
  BY <1>4, <1>6, <1>7, <1>8, <1>9, <1>10, <1>11, <1>13, <1>14

LEMMA MapKinds ==
  ASSUME BlockInv, HomeInv, MapInv, Steps
  PROVE  \/ OnlyMarks /\ (NoValue \/ NextBlock \/ Quiet)
         \/ Replaces(Inst) /\ (NewValue \/ handleAlloca)
         \/ \E x \in Variables : Replaces(x) /\ NoValue
         \/ \E x \in Values : Replaces(x) /\ pointer_map'[x].freed /\ NoValue
BY MapActions, FreeCallEntries, ActionKinds, Zenon DEF Steps, Next

LEMMA KeptFreed ==
  ASSUME NEW x, Replaces(x) \/ OnlyMarks
  PROVE  \A y \in DOMAIN pointer_map \ {x} : pointer_map[y].freed => pointer_map'[y].freed
BY DEF Replaces, Rewrites, OnlyMarks, Marks, MarksOf

\* The variables and values there are after a step.
LEMMA Names ==
  ASSUME BlockInv, HomeInv, MapInv
  PROVE  LET names == Variables \cap 1 .. count IN
         /\ NewValue => count' = count + 1 /\ Values' = Values \cup {Inst}
                          /\ (Variables \cap 1 .. count)' = names
         /\ NoValue => count' = count + 1 /\ Values' = Values
                          /\ (Variables \cap 1 .. count)' = names
         /\ handleAlloca => count' = count + 1 /\ Values' = Values
                          /\ (Variables \cap 1 .. count)' = names \cup {Inst}
         /\ NextBlock \/ Quiet => count' = count /\ Values' = Values
                          /\ (Variables \cap 1 .. count)' = names
<1>1. count \in Nat /\ Allocas \in Nat /\ Inst = count + 1 /\ Variables = 1 .. Allocas
  BY InstFacts DEF Variables
<1>2. ASSUME NewValue
      PROVE  count' = count + 1 /\ Values' = Values \cup {Inst} /\ count >= Allocas
  <2>1. count' = count + 1 /\ count >= Allocas /\ home' = WithEntry(home, Inst, block)
    BY <1>2 DEF NewValue, Instruction
  <2>2. DOMAIN WithEntry(home, Inst, block) = DOMAIN home \cup {Inst}
    BY DEF WithEntry
  <2> QED
    BY <2>1, <2>2 DEF Values
<1>3. ASSUME NoValue
      PROVE  count' = count + 1 /\ Values' = Values /\ count >= Allocas
  BY <1>3 DEF NoValue, Instruction, Values
<1>4. ASSUME handleAlloca
      PROVE  count' = count + 1 /\ Values' = Values /\ count < Allocas
  BY <1>4 DEF handleAlloca, history, Values
<1>5. ASSUME NextBlock \/ Quiet
      PROVE  count' = count /\ Values' = Values
  BY <1>5 DEF NextBlock, Quiet, history, Values
<1>6. ASSUME count' = count + 1, count >= Allocas
      PROVE  (Variables \cap 1 .. count)' = Variables \cap 1 .. count
  BY <1>1, <1>6
<1>7. ASSUME count' = count + 1, count < Allocas
      PROVE  (Variables \cap 1 .. count)' = (Variables \cap 1 .. count) \cup {Inst}
  BY <1>1, <1>7
<1>8. ASSUME count' = count
      PROVE  (Variables \cap 1 .. count)' = Variables \cap 1 .. count
  BY <1>8 DEF Variables
<1> QED
  BY <1>2, <1>3, <1>4, <1>5, <1>6, <1>7, <1>8

\* Entries with texts among T.
Fine(n, T) ==
  \A y \in DOMAIN n : n[y] \in Info /\ n[y].text \in T /\ (n[y].twice => n[y].freed)

LEMMA MapStep ==
  ASSUME BlockInv, HomeInv, MapInv, Steps
  PROVE  /\ MapInv'
         /\ \A v \in Values : pointer_map[v].freed => pointer_map'[v].freed
<1> DEFINE old == 1 .. count
           new == 1 .. count'
<1>1. /\ DOMAIN pointer_map = (Variables \cap 1 .. count) \cup Values
      /\ Fine(pointer_map, old)
  BY DEF MapInv, Fine
<1>2. ASSUME DOMAIN pointer_map' = (Variables \cap 1 .. count)' \cup Values',
             Fine(pointer_map', new)
      PROVE  MapInv'
  BY <1>2 DEF MapInv, Fine, Info
<1>3. Inst = count + 1 /\ count \in Nat /\ Inst \notin Values /\ Values \cap Variables = {}
  BY InstFacts
<1>9. ASSUME count' = count \/ count' = count + 1
      PROVE  old \subseteq new /\ (count' = count + 1 => Inst \in new)
  BY <1>3, <1>9
<1> HIDE DEF Values, Info, old, new
<1>4. CASE OnlyMarks /\ (NoValue \/ NextBlock \/ Quiet)
  <2>1. /\ (Variables \cap 1 .. count)' = Variables \cap 1 .. count /\ Values' = Values
        /\ count' = count \/ count' = count + 1
    BY <1>4, Names
  <2>2. DOMAIN pointer_map' = DOMAIN pointer_map /\ Fine(pointer_map', old)
        /\ \A y \in DOMAIN pointer_map : pointer_map[y].freed => pointer_map'[y].freed
    BY <1>1, <1>4 DEF OnlyMarks, Marks, MarksOf, Fine
  <2>3. Fine(pointer_map', new)
    <3>1. old \subseteq new
      BY <1>9, <2>1
    <3> QED
      BY <2>2, <3>1 DEF Fine
  <2> QED
    BY <1>1, <1>2, <2>1, <2>2, <2>3
<1>5. ASSUME NEW x, Replaces(x)
      PROVE  /\ DOMAIN pointer_map' = DOMAIN pointer_map \cup {x}
             /\ Fine(pointer_map', new)
             /\ \A y \in DOMAIN pointer_map \ {x} : pointer_map[y].freed => pointer_map'[y].freed
  <2>1. /\ DOMAIN pointer_map' = DOMAIN pointer_map \cup {x} /\ count' = count + 1
        /\ MarksOf(pointer_map, pointer_map', DOMAIN pointer_map \ {x})
        /\ pointer_map'[x] \in Info /\ (pointer_map'[x].twice => pointer_map'[x].freed)
        /\ pointer_map'[x].text \in {Inst} \cup {pointer_map[y].text : y \in DOMAIN pointer_map}
    BY <1>5 DEF Replaces, Rewrites
  <2>2. pointer_map'[x].text \in new
    <3>1. old \subseteq new /\ Inst \in new
      BY <1>9, <2>1
    <3>2. pointer_map'[x].text = Inst \/ \E y \in DOMAIN pointer_map : pointer_map'[x].text = pointer_map[y].text
      BY <2>1
    <3> QED
      BY <1>1, <3>1, <3>2 DEF Fine
  <2>3. \A y \in DOMAIN pointer_map \ {x} : pointer_map'[y].text \in new
    <3>1. old \subseteq new
      BY <1>9, <2>1
    <3>2. \A y \in DOMAIN pointer_map \ {x} : pointer_map'[y].text = pointer_map[y].text
      BY <2>1 DEF MarksOf
    <3> QED
      BY <1>1, <3>1, <3>2 DEF Fine
  <2> QED
    BY <1>1, <2>1, <2>2, <2>3 DEF MarksOf, Fine
<1>6. CASE Replaces(Inst) /\ (NewValue \/ handleAlloca)
  BY <1>1, <1>2, <1>3, <1>5, <1>6, Names
<1>7. ASSUME NEW x \in Variables, Replaces(x), NoValue
      PROVE  /\ MapInv'
             /\ \A v \in Values : pointer_map[v].freed => pointer_map'[v].freed
  <2>1. x \in DOMAIN pointer_map /\ x \notin Values
    BY <1>1, <1>3, <1>7, InstFacts DEF NoValue, Instruction
  <2> QED
    BY <1>1, <1>2, <1>5, <1>7, <2>1, Names
<1>8. ASSUME NEW x \in Values, Replaces(x), pointer_map'[x].freed, NoValue
      PROVE  /\ MapInv'
             /\ \A v \in Values : pointer_map[v].freed => pointer_map'[v].freed
  BY <1>1, <1>2, <1>5, <1>8, Names
<1> QED
  BY <1>4, <1>6, <1>7, <1>8, MapKinds

\* A new text is owned by the entry that is replaced, whose old one is released.
LEMMA TextStep ==
  ASSUME BlockInv, HomeInv, MapInv, TextInv, Steps
  PROVE  TextInv'
<1>1. /\ texts = {pointer_map[v].text : v \in Owners}
      /\ \A v, w \in Owners : pointer_map[v].text = pointer_map[w].text => v = w
      /\ Owners \subseteq DOMAIN pointer_map
      /\ \A v \in DOMAIN pointer_map : v \in Owners <=> pointer_map[v].owns
  BY DEF TextInv, Owners
<1>2. \A v \in DOMAIN pointer_map : pointer_map[v].text # Inst
  BY InstFacts DEF MapInv
<1>3. /\ Owners' \subseteq DOMAIN pointer_map'
      /\ \A v \in DOMAIN pointer_map' : v \in Owners' <=> pointer_map'[v].owns
  BY DEF Owners
<1>4. ASSUME texts' = {pointer_map'[v].text : v \in Owners'},
             \A v, w \in Owners' : pointer_map'[v].text = pointer_map'[w].text => v = w
      PROVE  TextInv'
  BY <1>4 DEF TextInv
<1>5. CASE OnlyMarks
  <2>1. /\ DOMAIN pointer_map' = DOMAIN pointer_map /\ texts' = texts
        /\ \A v \in DOMAIN pointer_map : /\ pointer_map'[v].text = pointer_map[v].text
                                         /\ pointer_map'[v].owns = pointer_map[v].owns
    BY <1>5 DEF OnlyMarks, Marks, MarksOf
  <2> HIDE DEF Owners
  <2>2. Owners' = Owners
    BY <1>1, <1>3, <2>1
  <2> QED
    BY <1>1, <1>4, <2>1, <2>2
<1>6. ASSUME NEW x, Replaces(x)
      PROVE  TextInv'
  <2>1. /\ DOMAIN pointer_map' = DOMAIN pointer_map \cup {x}
        /\ \A v \in DOMAIN pointer_map \ {x} : /\ pointer_map'[v].text = pointer_map[v].text
                                               /\ pointer_map'[v].owns = pointer_map[v].owns
        /\ pointer_map'[x].owns => pointer_map'[x].text = Inst
        /\ texts' = (texts \ OwnedText(x)) \cup (IF pointer_map'[x].owns THEN {Inst} ELSE {})
    BY <1>6 DEF Replaces, Rewrites, MarksOf
  <2>2. OwnedText(x) = {pointer_map[v].text : v \in Owners \cap {x}}
    BY <1>1 DEF OwnedText
  <2> HIDE DEF Owners
  <2>3. Owners' \ {x} = Owners \ {x} /\ (x \in Owners' <=> pointer_map'[x].owns)
    BY <1>1, <1>3, <2>1
  <2>4. \A v \in Owners \ {x} : pointer_map'[v].text = pointer_map[v].text /\ pointer_map[v].text # Inst
    BY <1>1, <1>2, <2>1
  <2>5. texts' = {pointer_map'[v].text : v \in Owners'}
    <3>1. texts \ OwnedText(x) = {pointer_map[v].text : v \in Owners \ {x}}
      BY <1>1, <2>2
    <3>2. {pointer_map[v].text : v \in Owners \ {x}} = {pointer_map'[v].text : v \in Owners' \ {x}}
      BY <2>3, <2>4
    <3>3. CASE pointer_map'[x].owns
      BY <2>1, <2>3, <3>1, <3>2, <3>3
    <3>4. CASE ~ pointer_map'[x].owns
      BY <2>1, <2>3, <3>1, <3>2, <3>4
    <3> QED
      BY <3>3, <3>4
  <2>6. \A v, w \in Owners' : pointer_map'[v].text = pointer_map'[w].text => v = w
    <3>1. \A v \in Owners' : v = x \/ v \in Owners \ {x}
      BY <2>3
    <3>2. x \in Owners' => pointer_map'[x].text = Inst
      BY <2>1, <2>3
    <3> QED
      BY <1>1, <2>4, <3>1, <3>2
  <2> QED
    BY <1>4, <2>5, <2>6
<1> QED
  BY <1>5, <1>6, MapKinds

-----------------------------------------------------------------------------
(* What values and variables point to, and what is given back.              *)

\* What is available here was computed on every path to here.
LEMMA AvailableFacts ==
  ASSUME BlockInv, HomeInv, PointsInv, block # End, NEW v \in Values, Available(v)
  PROVE  /\ Through(block) \subseteq Through(home[v])
         /\ \A p \in Through(block) : /\ p \in Paths /\ v \in DOMAIN points[p]
                                      /\ points[p][v] \in Values \cup {Parameter}
<1>1. block \in Entry .. Join /\ home[v] \in {Entry, block}
  BY Blocks DEF BlockInv, Available
<1>2. Through(block) \subseteq Paths /\ Through(block) \subseteq Through(home[v])
  BY <1>1, PathsThrough
<1>3. ASSUME NEW p \in Through(block)
      PROVE  p \in Paths /\ v \in DOMAIN points[p] /\ points[p][v] \in Values \cup {Parameter}
  BY <1>2, <1>3 DEF PointsInv
<1> QED
  BY <1>2, <1>3

LEMMA PointToFacts ==
  ASSUME DOMAIN points = Paths, NEW x, NEW object, PointTo(x, object)
  PROVE  /\ DOMAIN points' = Paths
         /\ \A p \in Through(block) \cap Paths :
              DOMAIN points'[p] = DOMAIN points[p] \cup {x} /\ points'[p][x] = object[p]
         /\ \A p \in Paths \ Through(block) : points'[p] = points[p]
         /\ \A p \in Paths : \A y \in DOMAIN points[p] \ {x} : points'[p][y] = points[p][y]
<1>1. /\ DOMAIN points' = Paths
      /\ \A p \in Paths \cap Through(block) : points'[p] = WithEntry(points[p], x, object[p])
      /\ \A p \in Paths \ Through(block) : points'[p] = points[p]
  BY DEF PointTo
<1>2. ASSUME NEW p \in Paths
      PROVE  /\ p \in Through(block) =>
                  DOMAIN points'[p] = DOMAIN points[p] \cup {x} /\ points'[p][x] = object[p]
             /\ \A y \in DOMAIN points[p] \ {x} : points'[p][y] = points[p][y]
  <2>1. CASE p \in Through(block)
    BY <1>1, <2>1 DEF WithEntry
  <2>2. CASE p \notin Through(block)
    BY <1>1, <2>2
  <2> QED
    BY <2>1, <2>2
<1> QED
  BY <1>1, <1>2

\* A new value points to its own object or to what another name points to, and
\* a variable to what is stored in it; values keep what they point to.
Moves(x, S) ==
  \E object : PointTo(x, object) /\ \A p \in Through(block) : object[p] \in S

LEMMA PointsKinds ==
  ASSUME BlockInv, HomeInv, MapInv, PointsInv, Steps
  PROVE  \/ UNCHANGED points /\ (handleAlloca \/ NoValue \/ NextBlock \/ Quiet)
         \/ Moves(Inst, Values \cup {Parameter, Inst}) /\ NewValue
         \/ \E s \in Variables : Moves(s, Values \cup {Parameter}) /\ NoValue
<1>1. block # End => Through(block) \subseteq Paths
  BY PathsThrough, Blocks DEF BlockInv
<1>2. ASSUME NEW m, NEW g, NEW r, HeapAlloc(m, g, r), Instruction
      PROVE  Moves(Inst, Values \cup {Parameter, Inst})
  <2> DEFINE object == [p \in Paths |-> Inst]
  <2>1. PointTo(Inst, object) /\ block # End
    BY <1>2 DEF HeapAlloc, Define, Instruction
  <2>2. \A p \in Through(block) : object[p] \in Values \cup {Parameter, Inst}
    BY <1>1, <2>1
  <2> QED
    BY <2>1, <2>2 DEF Moves
<1>3. ASSUME Malloc
      PROVE  Moves(Inst, Values \cup {Parameter, Inst})
  BY <1>2, <1>3 DEF Malloc
<1>4. ASSUME NEW v \in Values, Realloc(v)
      PROVE  Moves(Inst, Values \cup {Parameter, Inst})
  BY <1>2, <1>4 DEF Realloc
<1>5. ASSUME NEW s \in Variables, handleLoad(s)
      PROVE  Moves(Inst, Values \cup {Parameter, Inst})
  <2> DEFINE object == [p \in Through(block) |-> points[p][s]]
  <2>1. PointTo(Inst, object) /\ block # End /\ Holding(s, block)
    BY <1>5 DEF handleLoad, Define, Instruction
  <2>2. \A p \in Through(block) : object[p] \in Values \cup {Parameter, Inst}
    BY <1>1, <2>1 DEF Holding, PointsInv
  <2> QED
    BY <2>1, <2>2 DEF Moves
<1>6. ASSUME NEW s \in Variables, StoreParameter(s)
      PROVE  Moves(s, Values \cup {Parameter})
  <2> DEFINE object == [p \in Paths |-> Parameter]
  <2>1. PointTo(s, object) /\ block # End
    BY <1>6 DEF StoreParameter, Instruction
  <2>2. \A p \in Through(block) : object[p] \in Values \cup {Parameter}
    BY <1>1, <2>1
  <2> QED
    BY <2>1, <2>2 DEF Moves
<1>7. ASSUME NEW s \in Variables, NEW v \in Values, handleStore(v, s)
      PROVE  Moves(s, Values \cup {Parameter})
  <2> DEFINE object == [p \in Through(block) |-> points[p][v]]
  <2>1. PointTo(s, object) /\ block # End /\ Available(v)
    BY <1>7 DEF handleStore, Instruction
  <2>2. \A p \in Through(block) : object[p] \in Values \cup {Parameter}
    BY <2>1, AvailableFacts
  <2> QED
    BY <2>1, <2>2 DEF Moves
<1>8. ASSUME NEW v \in Values, handleBitCastAndConversions(v)
      PROVE  Moves(Inst, Values \cup {Parameter, Inst})
  <2> DEFINE object == [p \in Through(block) |-> points[p][v]]
  <2>1. PointTo(Inst, object) /\ block # End /\ Available(v)
    BY <1>8 DEF handleBitCastAndConversions, Define, Instruction
  <2>2. \A p \in Through(block) : object[p] \in Values \cup {Parameter, Inst}
    BY <2>1, AvailableFacts
  <2> QED
    BY <2>1, <2>2 DEF Moves
<1>9. ASSUME NEW v \in Values, NEW w \in Values, handlePhi(v, w)
      PROVE  Moves(Inst, Values \cup {Parameter, Inst})
  <2> DEFINE object == [p \in Paths |-> points[p][IF p = Left THEN v ELSE w]]
  <2>1. /\ PointTo(Inst, object) /\ block = Join
        /\ home[v] \in {Entry, Left} /\ home[w] \in {Entry, Right}
    BY <1>9 DEF handlePhi, Define
  <2>2. Left \in Through(home[v]) /\ Right \in Through(home[w])
    BY <2>1, Blocks
  <2>3. /\ Left \in Paths /\ Right \in Paths /\ Left # Right
        /\ points[Left][v] \in Values \cup {Parameter}
        /\ points[Right][w] \in Values \cup {Parameter}
    BY <2>2, Blocks DEF PointsInv
  <2>4. object[Left] = points[Left][v] /\ object[Right] = points[Right][w]
    BY <2>3
  <2> HIDE DEF object
  <2>5. \A p \in Through(block) : object[p] \in Values \cup {Parameter, Inst}
    BY <2>1, <2>3, <2>4, Blocks
  <2> QED
    BY <2>1, <2>5 DEF Moves
<1>10. ASSUME handleAlloca \/ (\E v \in Values : FreeCall(v)) \/ NextBlock
                \/ (\E k \in keys : PropagateFreed(k)) \/ Ended \/ UNCHANGED vars
       PROVE  UNCHANGED points
  BY <1>10 DEF handleAlloca, FreeCall, NextBlock, PropagateFreed, Ended, vars, history
<1> QED
  BY <1>3, <1>4, <1>5, <1>6, <1>7, <1>8, <1>9, <1>10, ActionKinds, Zenon DEF Steps, Next

LEMMA PointsStep ==
  ASSUME BlockInv, HomeInv, MapInv, PointsInv, Steps
  PROVE  /\ PointsInv'
         /\ \A v \in Values : \A p \in Paths :
              v \in DOMAIN points[p] => v \in DOMAIN points'[p] /\ points'[p][v] = points[p][v]
<1>1. /\ DOMAIN points = Paths
      /\ \A p \in Paths : /\ DOMAIN points[p] \subseteq DOMAIN pointer_map
                          /\ \A x \in DOMAIN points[p] : points[p][x] \in Values \cup {Parameter}
      /\ \A v \in Values : \A p \in Through(home[v]) : v \in DOMAIN points[p]
  BY DEF PointsInv
<1>2. /\ Values \subseteq Values' /\ \A v \in Values : home'[v] = home[v]
      /\ DOMAIN pointer_map = (Variables \cap 1 .. count) \cup Values
      /\ DOMAIN pointer_map' = (Variables \cap 1 .. count)' \cup Values'
  BY HomeStep, MapStep DEF MapInv
<1>3. Inst \notin Values /\ Inst \notin DOMAIN pointer_map /\ Values \cap Variables = {}
  BY InstFacts
<1>4. DOMAIN pointer_map \subseteq DOMAIN pointer_map'
  BY <1>2, Names, Kinds
<1>5. CASE UNCHANGED points /\ (handleAlloca \/ NoValue \/ NextBlock \/ Quiet)
  <2>1. Values' = Values
    BY <1>5, Names
  <2> HIDE DEF Values
  <2>2. PointsInv'
    BY <1>1, <1>2, <1>4, <1>5, <2>1 DEF PointsInv
  <2> QED
    BY <1>5, <2>2
<1>6. ASSUME NEW x, Moves(x, Values' \cup {Parameter}), x \notin Values, x \in DOMAIN pointer_map',
             \A v \in Values' \ Values : v = x /\ home'[v] = block
      PROVE  /\ PointsInv'
             /\ \A v \in Values : \A p \in Paths :
                  v \in DOMAIN points[p] => v \in DOMAIN points'[p] /\ points'[p][v] = points[p][v]
  <2> PICK object : PointTo(x, object) /\ \A p \in Through(block) : object[p] \in Values' \cup {Parameter}
    BY <1>6 DEF Moves
  <2>1. /\ DOMAIN points' = Paths
        /\ \A p \in Through(block) \cap Paths :
             DOMAIN points'[p] = DOMAIN points[p] \cup {x} /\ points'[p][x] = object[p]
        /\ \A p \in Paths \ Through(block) : points'[p] = points[p]
        /\ \A p \in Paths : \A y \in DOMAIN points[p] \ {x} : points'[p][y] = points[p][y]
    BY <1>1, PointToFacts
  <2> HIDE DEF Values
  <2>2. ASSUME NEW p \in Paths
        PROVE  /\ DOMAIN points[p] \subseteq DOMAIN points'[p]
               /\ DOMAIN points'[p] \subseteq DOMAIN points[p] \cup {x}
               /\ \A y \in DOMAIN points'[p] : points'[p][y] \in Values' \cup {Parameter}
    <3>1. CASE p \in Through(block)
      BY <1>1, <1>2, <2>1, <3>1
    <3>2. CASE p \notin Through(block)
      BY <1>1, <1>2, <2>1, <3>2
    <3> QED
      BY <3>1, <3>2
  <2>3. \A v \in Values' : \A p \in Through(home'[v]) : v \in DOMAIN points'[p]
    <3>1. ASSUME NEW v \in Values, NEW p \in Through(home'[v])
          PROVE  v \in DOMAIN points'[p]
      <4>1. p \in Paths
        BY DEF Through
      <4> QED
        BY <1>1, <1>2, <2>2, <4>1
    <3>2. ASSUME NEW v \in Values' \ Values, NEW p \in Through(home'[v])
          PROVE  v \in DOMAIN points'[p]
      <4>1. p \in Paths /\ p \in Through(block) /\ v = x
        BY <1>6 DEF Through
      <4> QED
        BY <2>1, <4>1
    <3> QED
      BY <3>1, <3>2
  <2>4. \A p \in Paths : DOMAIN points'[p] \subseteq DOMAIN pointer_map'
    BY <1>1, <1>4, <1>6, <2>2
  <2>5. PointsInv'
    BY <2>1, <2>2, <2>3, <2>4 DEF PointsInv
  <2>6. \A v \in Values : \A p \in Paths :
          v \in DOMAIN points[p] => v \in DOMAIN points'[p] /\ points'[p][v] = points[p][v]
    BY <1>6, <2>1, <2>2
  <2> QED
    BY <2>5, <2>6
<1>7. CASE Moves(Inst, Values \cup {Parameter, Inst}) /\ NewValue
  <2>1. /\ Values' = Values \cup {Inst} /\ Inst \in DOMAIN pointer_map'
        /\ \A v \in Values' \ Values : v = Inst /\ home'[v] = block
    BY <1>2, <1>7, HomeStep, Names
  <2>2. Values \cup {Parameter, Inst} = Values' \cup {Parameter}
    BY <2>1
  <2> QED
    BY <1>3, <1>6, <1>7, <2>1, <2>2
<1>8. ASSUME NEW s \in Variables, Moves(s, Values \cup {Parameter}), NoValue
      PROVE  /\ PointsInv'
             /\ \A v \in Values : \A p \in Paths :
                  v \in DOMAIN points[p] => v \in DOMAIN points'[p] /\ points'[p][v] = points[p][v]
  <2>1. Values' = Values /\ s \in DOMAIN pointer_map /\ s \notin Values
    BY <1>2, <1>3, <1>8, Names, InstFacts DEF NoValue, Instruction
  <2> QED
    BY <1>4, <1>6, <1>8, <2>1
<1> QED
  BY <1>5, <1>7, <1>8, PointsKinds

-----------------------------------------------------------------------------
(* The memory graph.                                                        *)

\* x becomes a name of the node of v.
Copies(x, v) ==
  /\ Grows(mem_graph, mem_graph', {x}) /\ SameSites(mem_graph, mem_graph')
  /\ mem_graph'.canonical = WithEntry(mem_graph.canonical, x, v)
  /\ DOMAIN mem_graph'.nodes = DOMAIN mem_graph.nodes \cup {x, v}
  /\ v \in DOMAIN mem_graph.nodes => mem_graph'.nodes[x] = mem_graph.nodes[v]
  /\ x \in NodeOf(mem_graph', x).aliases
  /\ UNCHANGED records

KeepsNames(S) ==
  /\ Grows(mem_graph, mem_graph', {}) /\ mem_graph'.canonical = mem_graph.canonical
  /\ DOMAIN mem_graph'.nodes = DOMAIN mem_graph.nodes \cup S

LEMMA GrowsSelf ==
  ASSUME NEW g, Graph(g)
  PROVE  Grows(g, g, {}) /\ SameSites(g, g)
BY DEF Grows, SameSites

LEMMA TrackAllocFacts ==
  ASSUME NEW g, Graph(g), NEW v \in Nat, v \notin DOMAIN g.nodes
  PROVE  LET h == trackAlloc(g, v) IN
         /\ Grows(g, h, {}) /\ SameSites(g, h)
         /\ h.canonical = g.canonical /\ DOMAIN h.nodes = DOMAIN g.nodes \cup {v}
         /\ NodeOf(h, v) = AllocNode(v, {v})
<1> DEFINE h == trackAlloc(g, v)
<1>1. AllocNode(v, {v}) \in Node
  BY DEF AllocNode, Node
<1>2. /\ Grows(g, h, {v}) /\ SameSites(g, h)
      /\ h.canonical = g.canonical /\ DOMAIN h.nodes = DOMAIN g.nodes \cup {v}
      /\ NodeOf(h, v) = AllocNode(v, {v})
  BY <1>1, AddNodeFacts DEF trackAlloc
<1> HIDE DEF h
<1>3. Grows(g, h, {})
  BY <1>2 DEF Grows
<1> QED
  BY <1>2, <1>3 DEF h

\* The propagation adds a site without a block to the nodes it marks.
WithMarked(g, marked) ==
  [g EXCEPT !.store = [i \in DOMAIN @ |-> IF i \in marked THEN FreedAt(@[i], NoBlock) ELSE @[i]]]

LEMMA MarkedNodes ==
  ASSUME NEW g, Graph(g), NEW marked, NEW h, h = WithMarked(g, marked)
  PROVE  /\ Grows(g, h, {}) /\ h.canonical = g.canonical /\ h.nodes = g.nodes
         /\ DOMAIN h.store = DOMAIN g.store
         /\ \A i \in DOMAIN g.store :
              IF i \in marked
                THEN h.store[i].sites = Append(g.store[i].sites, NoBlock) /\ h.store[i].freed
                ELSE h.store[i].sites = g.store[i].sites /\ h.store[i].freed = g.store[i].freed
<1>1. /\ h.nodes = g.nodes /\ h.canonical = g.canonical /\ h.edges = g.edges
      /\ DOMAIN h = DOMAIN g
      /\ h.store = [i \in DOMAIN g.store |->
                      IF i \in marked THEN FreedAt(g.store[i], NoBlock) ELSE g.store[i]]
  BY DEF Graph, WithMarked
<1>2. g.store \in Seq(Node) /\ DOMAIN g.store = 1 .. Len(g.store) /\ Len(g.store) \in Nat
  BY LenProperties DEF Graph
<1>3. ASSUME NEW node \in Node
      PROVE  LET new == FreedAt(node, NoBlock) IN
             /\ new \in Node /\ new.sites = Append(node.sites, NoBlock) /\ new.freed
             /\ new.alloc_inst = node.alloc_inst /\ new.aliases = node.aliases
  BY FreedNode, Blocks
<1> HIDE DEF Node
<1>4. \A i \in DOMAIN g.store : g.store[i] \in Node
  BY <1>2, ElementOfSeq
<1>5. /\ DOMAIN h.store = DOMAIN g.store
      /\ \A i \in DOMAIN g.store :
           h.store[i] = IF i \in marked THEN FreedAt(g.store[i], NoBlock) ELSE g.store[i]
  BY <1>1
<1>6. h.store \in Seq(Node)
  <2>1. \A i \in 1 .. Len(g.store) : h.store[i] \in Node
    BY <1>2, <1>3, <1>4, <1>5
  <2>2. h.store = [i \in 1 .. Len(g.store) |-> h.store[i]]
    BY <1>1, <1>2, <1>5
  <2>3. h.store \in [1 .. Len(g.store) -> Node]
    BY <2>1, <2>2
  <2> QED
    BY <1>2, <2>3, SeqDef
<1>7. Graph(h)
  BY <1>1, <1>5, <1>6 DEF Graph
<1>8. Grows(g, h, {})
  BY <1>1, <1>3, <1>4, <1>5, <1>7 DEF Grows
<1> QED
  BY <1>1, <1>3, <1>4, <1>5, <1>8

\* Frees and the marks of the propagation keep nodes and names.
SameNames(g, h) ==
  /\ Grows(g, h, {}) /\ h.canonical = g.canonical /\ h.nodes = g.nodes

LEMMA SameNamesOn ==
  ASSUME NEW g, NEW h, NEW k, SameNames(g, h), SameNames(h, k)
  PROVE  SameNames(g, k)
<1>1. Grows(g, k, {} \cup {})
  BY GrowsOn DEF SameNames
<1> QED
  BY <1>1 DEF SameNames

LEMMA FreeKeepsNames ==
  ASSUME NEW g, Graph(g), NEW v, NEW b \in Nat
  PROVE  SameNames(g, trackFree(g, v, b)) /\ Graph(trackFree(g, v, b))
BY TrackFreeFacts DEF SameNames, Grows

LEMMA FreeInGraphNames ==
  ASSUME NEW g, Graph(g), NEW v, block \in Nat
  PROVE  SameNames(g, FreeInGraph(g, v)) /\ Graph(FreeInGraph(g, v))
<1> DEFINE h == trackFree(g, v, block)
<1>1. SameNames(g, h) /\ Graph(h)
  BY FreeKeepsNames
<1>2. FreeInGraph(g, v) = h \/ FreeInGraph(g, v) = trackFree(h, g.canonical[v], block)
  BY DEF FreeInGraph
<1> HIDE DEF h
<1>3. SameNames(h, trackFree(h, g.canonical[v], block)) /\ Graph(trackFree(h, g.canonical[v], block))
  BY <1>1, FreeKeepsNames
<1> QED
  BY <1>1, <1>2, <1>3, SameNamesOn

LEMMA PropagateOriginFacts ==
  ASSUME GraphInv, NEW g, Grows(mem_graph, g, {}), SameSites(mem_graph, g),
         g.canonical = mem_graph.canonical,
         DOMAIN g.nodes \subseteq DOMAIN mem_graph.nodes \cup {Inst},
         Inst \in Nat, NEW v \in Nat, v # Inst, propagateOrigin(g, v), UNCHANGED records
  PROVE  Copies(Inst, v)
<1>1. /\ Grows(g, mem_graph', {Inst}) /\ SameSites(g, mem_graph')
      /\ mem_graph'.canonical = WithEntry(g.canonical, Inst, v)
      /\ DOMAIN mem_graph'.nodes = DOMAIN g.nodes \cup {Inst, v}
      /\ v \in DOMAIN g.nodes => mem_graph'.nodes[Inst] = g.nodes[v]
      /\ Inst \in NodeOf(mem_graph', Inst).aliases
  <2>1. mem_graph' = trackAlias(g, Inst, v) /\ Graph(g)
    BY DEF propagateOrigin, Grows
  <2>2. LET k == trackAlias(g, Inst, v) IN
        /\ Grows(g, k, {Inst}) /\ SameSites(g, k)
        /\ k.canonical = WithEntry(g.canonical, Inst, v)
        /\ DOMAIN k.nodes = DOMAIN g.nodes \cup {Inst, v}
        /\ v \in DOMAIN g.nodes => k.nodes[Inst] = g.nodes[v]
        /\ Inst \in NodeOf(k, Inst).aliases
    BY <2>1, TrackAliasFacts
  <2> QED
    BY <2>1, <2>2
<1>2. Grows(mem_graph, mem_graph', {} \cup {Inst}) /\ SameSites(mem_graph, mem_graph')
  BY <1>1, GrowsOn
<1>3. {} \cup {Inst} = {Inst}
  OBVIOUS
<1>4. /\ DOMAIN mem_graph.nodes \subseteq DOMAIN g.nodes
      /\ v \in DOMAIN mem_graph.nodes => g.nodes[v] = mem_graph.nodes[v]
  BY DEF Grows
<1> QED
  BY <1>1, <1>2, <1>3, <1>4 DEF Copies

LEMMA GraphActions ==
  ASSUME BlockInv, HomeInv, MapInv, GraphInv
  PROVE  /\ handleAlloca \/ Malloc => KeepsNames({}) \/ KeepsNames({Inst})
         /\ \A s \in Variables :
              /\ handleLoad(s) => Copies(Inst, s)
              /\ \A v \in Values :
                   handleStore(v, s) => IF is_ffi_func THEN Copies(s, v) ELSE KeepsNames({})
         /\ \A v \in Values :
              /\ Realloc(v) => KeepsNames({}) \/ KeepsNames({Inst})
              /\ handleBitCastAndConversions(v) => Copies(Inst, v)
              /\ FreeCall(v) => KeepsNames({})
         /\ \A k \in keys : PropagateFreed(k) => KeepsNames({})
         /\ \/ \E s \in Variables : StoreParameter(s)
            \/ \E v, w \in Values : handlePhi(v, w)
            \/ NextBlock \/ Ended \/ UNCHANGED vars
            => KeepsNames({})
<1>1. /\ Graph(mem_graph) /\ DOMAIN mem_graph.nodes \subseteq DOMAIN pointer_map
      /\ Values \subseteq DOMAIN pointer_map
  BY DEF GraphInv, MapInv
<1>2. /\ Inst \in Nat /\ block \in Nat /\ Inst \notin DOMAIN pointer_map
      /\ \A v \in DOMAIN pointer_map : v \in Nat /\ v # Inst
      /\ count >= Allocas => Variables \subseteq 1 .. count
      /\ \A x \in 1 .. count : x \in Nat \ {0} /\ x # Inst
  BY InstFacts, Blocks DEF BlockInv
<1>3. ASSUME UNCHANGED mem_graph
      PROVE  KeepsNames({})
  BY <1>1, <1>3, GrowsSelf DEF KeepsNames
<1>4. ASSUME NEW g, SameNames(mem_graph, g), mem_graph' = trackAlloc(g, Inst) \/ mem_graph' = g
      PROVE  \/ KeepsNames({Inst})
             \/ mem_graph' = g /\ KeepsNames({})
  <2>1. Graph(g) /\ Grows(mem_graph, g, {}) /\ g.nodes = mem_graph.nodes /\ g.canonical = mem_graph.canonical
    BY <1>4 DEF SameNames, Grows
  <2>2. CASE mem_graph' = g
    BY <2>1, <2>2 DEF KeepsNames
  <2>3. CASE mem_graph' = trackAlloc(g, Inst)
    <3>1. /\ Grows(g, mem_graph', {}) /\ mem_graph'.canonical = g.canonical
          /\ DOMAIN mem_graph'.nodes = DOMAIN g.nodes \cup {Inst}
      BY <1>1, <1>2, <2>1, <2>3, TrackAllocFacts
    <3>2. Grows(mem_graph, mem_graph', {} \cup {})
      BY <2>1, <3>1, GrowsOn
    <3>3. {} \cup {} = {}
      OBVIOUS
    <3> QED
      BY <2>1, <3>1, <3>2, <3>3 DEF KeepsNames
  <2> QED
    BY <1>4, <2>2, <2>3
<1>5. SameNames(mem_graph, mem_graph)
  BY <1>1, GrowsSelf DEF SameNames
<1>6. ASSUME handleAlloca
      PROVE  KeepsNames({}) \/ KeepsNames({Inst})
  <2>1. mem_graph' = trackAlloc(mem_graph, Inst) \/ mem_graph' = mem_graph
    BY <1>6 DEF handleAlloca
  <2> QED
    BY <1>4, <1>5, <2>1
<1>7. ASSUME NEW m, NEW g, NEW r, HeapAlloc(m, g, r), SameNames(mem_graph, g)
      PROVE  KeepsNames({}) \/ KeepsNames({Inst})
  <2>1. mem_graph' = trackAlloc(g, Inst) \/ mem_graph' = g
    BY <1>7 DEF HeapAlloc
  <2> QED
    BY <1>4, <1>7, <2>1
<1>8. ASSUME Malloc
      PROVE  KeepsNames({}) \/ KeepsNames({Inst})
  <2>1. HeapAlloc(pointer_map, mem_graph, records)
    BY <1>8 DEF Malloc
  <2> QED
    BY <1>5, <1>7, <2>1
<1>9. ASSUME NEW v \in Values, Realloc(v)
      PROVE  KeepsNames({}) \/ KeepsNames({Inst})
  <2> DEFINE g == trackFree(mem_graph, v, NoBlock)
  <2>1. \/ HeapAlloc(pointer_map, mem_graph, records)
        \/ HeapAlloc([pointer_map EXCEPT ![v].freed = TRUE], g, markFreed(records, v))
    BY <1>9 DEF Realloc
  <2>2. SameNames(mem_graph, g)
    BY <1>1, FreeKeepsNames, Blocks
  <2> HIDE DEF g
  <2> QED
    BY <1>5, <1>7, <2>1, <2>2
<1>10. ASSUME NEW s \in Variables, handleLoad(s)
       PROVE  Copies(Inst, s)
  <2> DEFINE g == IF is_ffi_func /\ s \in mem_graph.contents
                    THEN trackAlloc(mem_graph, Inst) ELSE mem_graph
  <2>1. propagateOrigin(g, s) /\ UNCHANGED records /\ s \in Nat /\ s # Inst
    BY <1>2, <1>10 DEF handleLoad, Instruction
  <2>2. /\ Grows(mem_graph, g, {}) /\ SameSites(mem_graph, g) /\ g.canonical = mem_graph.canonical
        /\ DOMAIN g.nodes \subseteq DOMAIN mem_graph.nodes \cup {Inst}
    BY <1>1, <1>2, TrackAllocFacts, GrowsSelf
  <2> HIDE DEF g
  <2> QED
    BY <1>2, <2>1, <2>2, PropagateOriginFacts
<1>11. ASSUME NEW v \in Values, handleBitCastAndConversions(v)
       PROVE  Copies(Inst, v)
  <2>1. propagateOrigin(mem_graph, v) /\ UNCHANGED records /\ v \in Nat /\ v # Inst
    BY <1>1, <1>2, <1>11 DEF handleBitCastAndConversions
  <2> QED
    BY <1>1, <1>2, <2>1, GrowsSelf, PropagateOriginFacts
<1>12. ASSUME NEW s \in Variables, NEW v \in Values, handleStore(v, s)
       PROVE  IF is_ffi_func THEN Copies(s, v) ELSE KeepsNames({})
  <2>1. CASE ~ is_ffi_func
    BY <1>3, <1>12, <2>1 DEF handleStore
  <2>2. CASE is_ffi_func
    <3> DEFINE g == recordContentSource(mem_graph, s)
    <3>1. mem_graph' = trackAlias(g, s, v) /\ UNCHANGED records /\ s \in Nat /\ v \in Nat
      BY <1>1, <1>2, <1>12, <2>2 DEF handleStore, Instruction
    <3>2. /\ g.nodes = mem_graph.nodes /\ g.store = mem_graph.store /\ g.edges = mem_graph.edges
          /\ g.canonical = mem_graph.canonical /\ DOMAIN g = DOMAIN mem_graph
      BY <1>1 DEF recordContentSource, Graph
    <3> HIDE DEF g
    <3>3. Graph(g) /\ Grows(mem_graph, g, {}) /\ SameSites(mem_graph, g)
      BY <1>1, <3>2 DEF Graph, Grows, SameSites
    <3>4. /\ Grows(g, mem_graph', {s}) /\ SameSites(g, mem_graph')
          /\ mem_graph'.canonical = WithEntry(g.canonical, s, v)
          /\ DOMAIN mem_graph'.nodes = DOMAIN g.nodes \cup {s, v}
          /\ v \in DOMAIN g.nodes => mem_graph'.nodes[s] = g.nodes[v]
          /\ s \in NodeOf(mem_graph', s).aliases
      <4>1. LET k == trackAlias(g, s, v) IN
            /\ Grows(g, k, {s}) /\ SameSites(g, k)
            /\ k.canonical = WithEntry(g.canonical, s, v)
            /\ DOMAIN k.nodes = DOMAIN g.nodes \cup {s, v}
            /\ v \in DOMAIN g.nodes => k.nodes[s] = g.nodes[v]
            /\ s \in NodeOf(k, s).aliases
        BY <3>1, <3>3, TrackAliasFacts
      <4> QED
        BY <3>1, <4>1
    <3>5. Grows(mem_graph, mem_graph', {} \cup {s}) /\ SameSites(mem_graph, mem_graph')
      BY <3>3, <3>4, GrowsOn
    <3>6. {} \cup {s} = {s}
      OBVIOUS
    <3> QED
      <4>1. Copies(s, v)
        BY <3>1, <3>2, <3>4, <3>5, <3>6 DEF Copies
      <4> QED
        BY <2>2, <4>1
  <2> QED
    BY <2>1, <2>2
<1>13. ASSUME NEW v \in Values, FreeCall(v)
       PROVE  KeepsNames({})
  <2> DEFINE g == FreeInGraph(mem_graph, v)
  <2>1. mem_graph' = trackFree(g, v, NoBlock) \/ mem_graph' = g
    BY <1>13 DEF FreeCall
  <2>2. SameNames(mem_graph, g) /\ Graph(g)
    BY <1>1, <1>2, FreeInGraphNames
  <2> HIDE DEF g
  <2>3. SameNames(g, trackFree(g, v, NoBlock))
    BY <2>2, FreeKeepsNames, Blocks
  <2>4. SameNames(mem_graph, mem_graph')
    BY <2>1, <2>2, <2>3, SameNamesOn
  <2> QED
    BY <2>4 DEF SameNames, KeepsNames
<1>14. ASSUME NEW k \in keys, PropagateFreed(k)
       PROVE  KeepsNames({})
  <2> DEFINE marked == {i \in {mem_graph.nodes[a] : a \in Aliasers(k)} : ~mem_graph.store[i].freed}
  <2>1. mem_graph' = WithMarked(mem_graph, marked) \/ UNCHANGED mem_graph
    BY <1>14 DEF PropagateFreed, WithMarked
  <2> HIDE DEF marked
  <2>2. CASE UNCHANGED mem_graph
    BY <1>3, <2>2
  <2>3. CASE mem_graph' = WithMarked(mem_graph, marked)
    <3>1. SameNames(mem_graph, mem_graph')
      BY <1>1, <2>3, MarkedNodes DEF SameNames
    <3> QED
      BY <3>1 DEF SameNames, KeepsNames
  <2> QED
    BY <2>1, <2>2, <2>3
<1>15. ASSUME \/ \E s \in Variables : StoreParameter(s)
              \/ \E v, w \in Values : handlePhi(v, w)
              \/ NextBlock \/ Ended \/ UNCHANGED vars
       PROVE  KeepsNames({})
  BY <1>3, <1>15 DEF StoreParameter, handlePhi, NextBlock, Ended, vars
<1> QED
  BY <1>6, <1>8, <1>9, <1>10, <1>11, <1>12, <1>13, <1>14, <1>15

LEMMA GraphKinds ==
  ASSUME BlockInv, HomeInv, MapInv, GraphInv, Steps
  PROVE  \/ KeepsNames({})
         \/ KeepsNames({Inst}) /\ (Malloc \/ \E v \in Values : Realloc(v))
         \/ KeepsNames({Inst}) /\ handleAlloca
         \/ \E s \in Variables : handleLoad(s) /\ Copies(Inst, s)
         \/ \E v \in Values : handleBitCastAndConversions(v) /\ Copies(Inst, v)
         \/ \E s \in Variables : \E v \in Values :
              is_ffi_func /\ handleStore(v, s) /\ Copies(s, v)
BY GraphActions, Zenon DEF Steps, Next

LEMMA GraphStep ==
  ASSUME BlockInv, HomeInv, MapInv, GraphInv, Steps
  PROVE  GraphInv'
<1>1. /\ Graph(mem_graph) /\ mem_graph.edges = Edges
      /\ DOMAIN mem_graph.nodes \subseteq DOMAIN pointer_map
      /\ keys \subseteq DOMAIN mem_graph.nodes
  BY DEF GraphInv
<1>2. Edges' = Edges
  <2>1. UNCHANGED branches
    BY Kinds DEF handleAlloca, NewValue, NoValue, Instruction, NextBlock, Quiet
  <2> QED
    BY <2>1 DEF Edges, Entry, Left, Right, Join
<1>3. /\ DOMAIN pointer_map \subseteq DOMAIN pointer_map'
      /\ handleAlloca \/ NewValue => Inst \in DOMAIN pointer_map'
  <2>1. /\ DOMAIN pointer_map = (Variables \cap 1 .. count) \cup Values
        /\ DOMAIN pointer_map' = (Variables \cap 1 .. count)' \cup Values'
    BY MapStep DEF MapInv
  <2> QED
    BY <2>1, Names, Kinds
<1>4. keys' \subseteq DOMAIN mem_graph.nodes
  <2>1. CASE handleAlloca \/ NewValue \/ NoValue \/ Quiet
    BY <1>1, <2>1 DEF handleAlloca, NewValue, NoValue, Instruction, Quiet
  <2>2. CASE NextBlock
    BY <2>2 DEF NextBlock
  <2> QED
    BY <2>1, <2>2, Kinds
<1>5. ASSUME NEW S, Grows(mem_graph, mem_graph', S), DOMAIN mem_graph'.nodes \subseteq DOMAIN pointer_map'
      PROVE  GraphInv'
  BY <1>1, <1>2, <1>4, <1>5 DEF GraphInv, Grows
<1>6. CASE KeepsNames({})
  BY <1>1, <1>3, <1>5, <1>6 DEF KeepsNames
<1>7. CASE KeepsNames({Inst}) /\ (Malloc \/ handleAlloca \/ \E v \in Values : Realloc(v))
  <2>1. Inst \in DOMAIN pointer_map'
    BY <1>3, <1>7, ActionKinds
  <2> QED
    BY <1>1, <1>3, <1>5, <1>7, <2>1 DEF KeepsNames
<1>8. ASSUME NEW x, NEW v, Copies(x, v), x \in DOMAIN pointer_map', v \in DOMAIN pointer_map
      PROVE  GraphInv'
  BY <1>1, <1>3, <1>5, <1>8 DEF Copies
<1>9. Values \subseteq DOMAIN pointer_map /\ (Instruction => Variables \subseteq DOMAIN pointer_map)
  BY InstFacts DEF MapInv, Instruction
<1>10. ASSUME NEW s \in Variables, handleLoad(s), Copies(Inst, s)
       PROVE  GraphInv'
  <2>1. NewValue /\ Instruction
    BY <1>10, ActionKinds DEF NewValue
  <2> QED
    BY <1>3, <1>8, <1>9, <1>10, <2>1
<1>11. ASSUME NEW v \in Values, handleBitCastAndConversions(v), Copies(Inst, v)
       PROVE  GraphInv'
  BY <1>3, <1>8, <1>9, <1>11, ActionKinds
<1>12. ASSUME NEW s \in Variables, NEW v \in Values, handleStore(v, s), Copies(s, v)
       PROVE  GraphInv'
  <2>1. Instruction
    BY <1>12 DEF handleStore
  <2> QED
    BY <1>3, <1>8, <1>9, <1>12, <2>1
<1> QED
  BY <1>6, <1>7, <1>10, <1>11, <1>12, GraphKinds

-----------------------------------------------------------------------------
(* Objects that are given back, and the allocations recorded as freed.      *)

LEMMA GivenFacts ==
  ASSUME FreesInv
  PROVE  \A p \in Paths : \A o : Given(p, o) \in Nat /\ (Given(p, o) > 0 <=> o \in DOMAIN frees[p])
BY DEF FreesInv, Given

\* What is given back is counted on the paths through the block.
Gives(v) ==
  /\ block # End /\ v \in Values /\ Available(v) /\ GiveBack(v)

LEMMA GivesFacts ==
  ASSUME BlockInv, HomeInv, PointsInv, FreesInv, NEW v, Gives(v)
  PROVE  /\ DOMAIN frees' = Paths
         /\ \A p \in Paths :
              /\ DOMAIN frees'[p] \subseteq Values \cup {Parameter}
              /\ \A o \in DOMAIN frees'[p] : frees'[p][o] \in Nat \ {0}
              /\ \A o : Given(p, o)' =
                   IF p \in Through(block) /\ o = points[p][v] THEN Given(p, o) + 1 ELSE Given(p, o)
<1>1. /\ DOMAIN frees = Paths
      /\ \A p \in Paths : /\ DOMAIN frees[p] \subseteq Values \cup {Parameter}
                          /\ \A o \in DOMAIN frees[p] : frees[p][o] \in Nat \ {0}
  BY DEF FreesInv
<1>2. \A p \in Through(block) : p \in Paths /\ points[p][v] \in Values \cup {Parameter}
  BY AvailableFacts DEF Gives
<1>3. DOMAIN frees' = Paths
  BY DEF Gives, GiveBack
<1>4. ASSUME NEW p \in Paths
      PROVE  /\ DOMAIN frees'[p] \subseteq Values \cup {Parameter}
             /\ \A o \in DOMAIN frees'[p] : frees'[p][o] \in Nat \ {0}
             /\ \A o : Given(p, o)' =
                  IF p \in Through(block) /\ o = points[p][v] THEN Given(p, o) + 1 ELSE Given(p, o)
  <2>1. CASE p \notin Through(block)
    <3>1. frees'[p] = frees[p]
      BY <2>1 DEF Gives, GiveBack
    <3> QED
      BY <1>1, <2>1, <3>1 DEF Given
  <2>2. CASE p \in Through(block)
    <3> DEFINE o == points[p][v]
               n == IF o \in DOMAIN frees[p] THEN frees[p][o] ELSE 0
    <3>1. frees'[p] = WithEntry(frees[p], o, 1 + n)
      BY <2>2 DEF Gives, GiveBack
    <3>2. n \in Nat
      BY <1>1
    <3>3. o \in Values \cup {Parameter}
      BY <1>2, <2>2
    <3>4. n = Given(p, o)
      BY DEF Given
    <3> HIDE DEF n, o
    <3>5. /\ DOMAIN frees'[p] = DOMAIN frees[p] \cup {o} /\ frees'[p][o] = 1 + n
          /\ \A q \in DOMAIN frees[p] \ {o} : frees'[p][q] = frees[p][q]
      BY <3>1 DEF WithEntry
    <3>6. DOMAIN frees'[p] \subseteq Values \cup {Parameter}
      BY <1>1, <3>3, <3>5
    <3>7. \A q \in DOMAIN frees'[p] : frees'[p][q] \in Nat \ {0}
      BY <1>1, <3>2, <3>5
    <3>8. ASSUME NEW q
          PROVE  Given(p, q)' = IF q = o THEN Given(p, q) + 1 ELSE Given(p, q)
      <4>1. Given(p, q)' = IF q \in DOMAIN frees'[p] THEN frees'[p][q] ELSE 0
        BY DEF Given
      <4>2. Given(p, q) = IF q \in DOMAIN frees[p] THEN frees[p][q] ELSE 0
        BY DEF Given
      <4>3. CASE q = o
        BY <3>2, <3>4, <3>5, <4>1, <4>3
      <4>4. CASE q # o
        BY <3>5, <4>1, <4>2, <4>4
      <4> QED
        BY <4>3, <4>4
    <3> QED
      BY <2>2, <3>6, <3>7, <3>8 DEF o
  <2> QED
    BY <2>1, <2>2
<1> QED
  BY <1>3, <1>4

LEMMA FreesKinds ==
  ASSUME Steps
  PROVE  \/ UNCHANGED <<frees, resized>>
         \/ \E v \in Values : /\ Gives(v)
                              /\ \/ Realloc(v) /\ resized' = resized \cup {v}
                                 \/ FreeCall(v) /\ resized' = resized
<1>1. ASSUME NEW v \in Values, Realloc(v)
      PROVE  Gives(v) /\ resized' = resized \cup {v}
  BY <1>1 DEF Realloc, Instruction, Gives
<1>2. ASSUME NEW v \in Values, FreeCall(v)
      PROVE  Gives(v) /\ resized' = resized
  BY <1>2 DEF FreeCall, Instruction, Gives
<1>3. ASSUME \/ handleAlloca \/ Malloc \/ NextBlock \/ Ended \/ UNCHANGED vars
             \/ \E s \in Variables : handleLoad(s) \/ StoreParameter(s)
                                       \/ \E v \in Values : handleStore(v, s)
             \/ \E v \in Values : handleBitCastAndConversions(v)
             \/ \E v, w \in Values : handlePhi(v, w)
             \/ \E k \in keys : PropagateFreed(k)
      PROVE  UNCHANGED <<frees, resized>>
  BY <1>3 DEF handleAlloca, Malloc, NextBlock, Ended, vars, history, handleLoad, StoreParameter,
              handleStore, handleBitCastAndConversions, handlePhi, PropagateFreed
<1> QED
  BY <1>1, <1>2, <1>3, Zenon DEF Steps, Next

LEMMA FreesStep ==
  ASSUME BlockInv, HomeInv, MapInv, PointsInv, FreesInv, Steps
  PROVE  /\ FreesInv' /\ resized \subseteq resized'
         /\ \A p \in Paths : \A o : Given(p, o)' \in Nat /\ Given(p, o)' >= Given(p, o)
<1>1. Values \subseteq Values' /\ resized \subseteq Values
  BY HomeStep DEF FreesInv
<1>2. \A p \in Paths : \A o : Given(p, o) \in Nat
  BY GivenFacts
<1> HIDE DEF Values
<1>3. CASE UNCHANGED <<frees, resized>>
  <2>1. FreesInv'
    BY <1>1, <1>3 DEF FreesInv
  <2>2. \A p \in Paths : \A o : Given(p, o)' = Given(p, o)
    BY <1>3 DEF Given
  <2> QED
    BY <1>2, <1>3, <2>1, <2>2
<1>4. ASSUME NEW v \in Values, Gives(v), resized' \in {resized, resized \cup {v}}
      PROVE  /\ FreesInv' /\ resized \subseteq resized'
             /\ \A p \in Paths : \A o : Given(p, o)' \in Nat /\ Given(p, o)' >= Given(p, o)
  <2>1. /\ DOMAIN frees' = Paths
        /\ \A p \in Paths :
             /\ DOMAIN frees'[p] \subseteq Values \cup {Parameter}
             /\ \A o \in DOMAIN frees'[p] : frees'[p][o] \in Nat \ {0}
             /\ \A o : Given(p, o)' \in {Given(p, o), Given(p, o) + 1}
    BY <1>4, GivesFacts
  <2>2. FreesInv'
    BY <1>1, <1>4, <2>1 DEF FreesInv
  <2>3. \A p \in Paths : \A o : Given(p, o)' \in Nat /\ Given(p, o)' >= Given(p, o)
    BY <1>2, <2>1
  <2> QED
    BY <1>4, <2>2, <2>3
<1> QED
  BY <1>3, <1>4, FreesKinds

\* New records, and records that may be marked as freed.
Marked(v) == {v} \cup {mem_graph.canonical[x] : x \in {v} \cap DOMAIN mem_graph.canonical}
RecordChange(new, marked) ==
  /\ DOMAIN records' = DOMAIN records \cup new
  /\ \A r \in DOMAIN records : records'[r] \in BOOLEAN /\ (records'[r] => records[r] \/ r \in marked)
  /\ \A r \in new : ~ records'[r] /\ records'[r] \in BOOLEAN

LEMMA RecordsKinds ==
  ASSUME BlockInv, HomeInv, MapInv, RecordsInv, Steps
  PROVE  \/ RecordChange({}, {})
         \/ RecordChange({}, DOMAIN records) /\ block = End
         \/ \E v \in Values : FreeCall(v) /\ RecordChange({}, Marked(v))
         \/ Malloc /\ RecordChange({Inst}, {})
         \/ \E v \in Values : Realloc(v) /\ RecordChange({Inst}, {v})
<1>1. /\ \A r \in DOMAIN records : records[r] \in BOOLEAN
      /\ Inst \notin DOMAIN records
  BY InstFacts DEF RecordsInv
<1>2. ASSUME UNCHANGED records
      PROVE  RecordChange({}, {})
  BY <1>1, <1>2 DEF RecordChange
<1>3. ASSUME NEW m, NEW g, NEW r, HeapAlloc(m, g, r), NEW marked,
             DOMAIN r = DOMAIN records,
             \A x \in DOMAIN records : r[x] \in BOOLEAN /\ (r[x] => records[x] \/ x \in marked)
      PROVE  RecordChange({Inst}, marked)
  <2>1. records' = WithEntry(r, Inst, FALSE)
    BY <1>3 DEF HeapAlloc
  <2>2. /\ DOMAIN records' = DOMAIN records \cup {Inst} /\ records'[Inst] = FALSE
        /\ \A x \in DOMAIN records : records'[x] = r[x]
    BY <1>1, <1>3, <2>1 DEF WithEntry
  <2> QED
    BY <1>3, <2>2 DEF RecordChange
<1>4. ASSUME NEW r, DOMAIN r = DOMAIN records, \A x \in DOMAIN records : r[x] \in BOOLEAN, NEW v
      PROVE  /\ DOMAIN markFreed(r, v) = DOMAIN records
             /\ \A x \in DOMAIN records : /\ markFreed(r, v)[x] \in BOOLEAN
                                          /\ markFreed(r, v)[x] => r[x] \/ x = v
  <2>1. CASE v \notin DOMAIN r
    BY <1>4, <2>1 DEF markFreed
  <2>2. CASE v \in DOMAIN r
    <3>1. markFreed(r, v) = [r EXCEPT ![v] = TRUE]
      BY <2>2 DEF markFreed
    <3>2. \A x \in DOMAIN r : markFreed(r, v)[x] = IF x = v THEN TRUE ELSE r[x]
      BY <3>1
    <3>3. DOMAIN markFreed(r, v) = DOMAIN records
      BY <1>4, <3>1
    <3> QED
      BY <1>4, <3>2, <3>3
  <2> QED
    BY <2>1, <2>2
<1>5. ASSUME Malloc
      PROVE  RecordChange({Inst}, {})
  BY <1>1, <1>3, <1>5 DEF Malloc
<1>6. ASSUME NEW v \in Values, Realloc(v)
      PROVE  RecordChange({Inst}, {v})
  <2>1. \/ HeapAlloc(pointer_map, mem_graph, records)
        \/ HeapAlloc([pointer_map EXCEPT ![v].freed = TRUE],
                     trackFree(mem_graph, v, NoBlock), markFreed(records, v))
    BY <1>6 DEF Realloc
  <2>2. /\ DOMAIN markFreed(records, v) = DOMAIN records
        /\ \A x \in DOMAIN records : /\ markFreed(records, v)[x] \in BOOLEAN
                                     /\ markFreed(records, v)[x] => records[x] \/ x = v
    BY <1>1, <1>4
  <2> QED
    BY <1>1, <1>3, <2>1, <2>2
<1>7. ASSUME NEW v \in Values, FreeCall(v)
      PROVE  RecordChange({}, Marked(v))
  <2>1. records' = FreeRecords(records, mem_graph, v)
    BY <1>7 DEF FreeCall
  <2>2. /\ DOMAIN markFreed(records, v) = DOMAIN records
        /\ \A x \in DOMAIN records : /\ markFreed(records, v)[x] \in BOOLEAN
                                     /\ markFreed(records, v)[x] => records[x] \/ x = v
    BY <1>1, <1>4
  <2>3. CASE is_ffi_func /\ v \in DOMAIN mem_graph.canonical
    <3> DEFINE c == mem_graph.canonical[v]
               r == markFreed(records, v)
    <3>1. records' = markFreed(r, c)
      BY <2>1, <2>3 DEF FreeRecords
    <3> HIDE DEF r
    <3>2. /\ DOMAIN records' = DOMAIN records
          /\ \A x \in DOMAIN records : records'[x] \in BOOLEAN /\ (records'[x] => r[x] \/ x = c)
      BY <1>4, <2>2, <3>1 DEF r
    <3>3. c \in Marked(v) /\ v \in Marked(v)
      BY <2>3 DEF Marked
    <3> HIDE DEF c
    <3> QED
      BY <2>2, <3>2, <3>3 DEF RecordChange, r
  <2>4. CASE ~ (is_ffi_func /\ v \in DOMAIN mem_graph.canonical)
    <3>1. records' = markFreed(records, v) /\ v \in Marked(v)
      BY <2>1, <2>4 DEF FreeRecords, Marked
    <3> QED
      BY <2>2, <3>1 DEF RecordChange
  <2> QED
    BY <2>3, <2>4
<1>8. ASSUME NEW k \in keys, PropagateFreed(k)
      PROVE  block = End /\ RecordChange({}, DOMAIN records)
  <2>1. block = End
    BY DEF BlockInv
  <2> DEFINE freed == {mem_graph.store[i].alloc_inst : i \in
                        {j \in {mem_graph.nodes[a] : a \in Aliasers(k)} : ~mem_graph.store[j].freed}}
  <2>2. records' = [r \in DOMAIN records |-> records[r] \/ r \in freed] \/ UNCHANGED records
    BY <1>8 DEF PropagateFreed
  <2> HIDE DEF freed
  <2> QED
    BY <1>1, <2>1, <2>2 DEF RecordChange
<1>9. ASSUME \/ handleAlloca \/ NextBlock \/ Ended \/ UNCHANGED vars
             \/ \E s \in Variables : handleLoad(s) \/ StoreParameter(s)
                                       \/ \E v \in Values : handleStore(v, s)
             \/ \E v \in Values : handleBitCastAndConversions(v)
             \/ \E v, w \in Values : handlePhi(v, w)
      PROVE  UNCHANGED records
  BY <1>9 DEF handleAlloca, NextBlock, Ended, vars, handleLoad, StoreParameter,
              handleStore, handleBitCastAndConversions, handlePhi
<1> QED
  BY <1>2, <1>5, <1>6, <1>7, <1>8, <1>9, Zenon DEF Steps, Next

\* The object of a new record is the one it allocates.
LEMMA NewRecord ==
  ASSUME BlockInv, PointsInv, Malloc \/ \E v \in Values : Realloc(v)
  PROVE  \A p \in Through(block) : p \in Paths /\ points'[p][Inst] = Inst
<1>1. /\ PointTo(Inst, [p \in Paths |-> Inst]) /\ block # End
  BY DEF Malloc, Realloc, HeapAlloc, Define, Instruction
<1>2. Through(block) \subseteq Paths /\ DOMAIN points = Paths
  BY <1>1, PathsThrough, Blocks DEF BlockInv, PointsInv
<1> QED
  BY <1>1, <1>2, PointToFacts

LEMMA RecordsStep ==
  ASSUME BlockInv, HomeInv, MapInv, PointsInv, RecordsInv, Steps
  PROVE  RecordsInv'
<1>1. /\ Values \subseteq Values' /\ \A v \in Values : home'[v] = home[v]
      /\ \A v \in Values' \ Values : home'[v] = block
  BY HomeStep
<1>2. /\ DOMAIN records \subseteq Values
      /\ \A r \in DOMAIN records : \A p \in Through(home[r]) : points[p][r] = r
  BY DEF RecordsInv
<1>3. ASSUME NEW r \in DOMAIN records
      PROVE  \A p \in Through(home'[r]) : points'[p][r] = r
  <2>1. \A p \in Through(home[r]) : p \in Paths /\ r \in DOMAIN points[p]
    BY <1>2 DEF PointsInv, Through
  <2> QED
    BY <1>1, <1>2, <2>1, PointsStep
<1>4. ASSUME NEW S, RecordChange({}, S)
      PROVE  RecordsInv'
  BY <1>1, <1>2, <1>3, <1>4 DEF RecordChange, RecordsInv
<1>5. ASSUME NEW S, RecordChange({Inst}, S), Malloc \/ \E v \in Values : Realloc(v)
      PROVE  RecordsInv'
  <2>1. NewValue
    BY <1>5, ActionKinds
  <2>2. Inst \in Values' /\ home'[Inst] = block
    BY <1>1, <2>1, Names, InstFacts
  <2>3. \A p \in Through(home'[Inst]) : points'[p][Inst] = Inst
    BY <1>5, <2>2, NewRecord
  <2>4. \A r \in DOMAIN records' : r \in DOMAIN records \/ r = Inst
    BY <1>5 DEF RecordChange
  <2> HIDE DEF Inst
  <2> QED
    BY <1>1, <1>2, <1>3, <1>5, <2>2, <2>3, <2>4 DEF RecordChange, RecordsInv
<1> QED
  BY <1>4, <1>5, RecordsKinds

\* A copy points to what its original points to.
LEMMA CanonStep ==
  ASSUME BlockInv, HomeInv, MapInv, PointsInv, RecordsInv, GraphInv, CanonInv, Steps
  PROVE  CanonInv'
<1>1. /\ \A v \in DOMAIN mem_graph.canonical :
           v \in DOMAIN pointer_map /\ mem_graph.canonical[v] \in DOMAIN pointer_map
      /\ \A v \in Values \cap DOMAIN mem_graph.canonical :
           /\ v \notin DOMAIN records
           /\ mem_graph.canonical[v] \in DOMAIN records =>
                \A p \in Through(home[v]) : points[p][v] = mem_graph.canonical[v]
  BY DEF CanonInv
<1>2. /\ Values \subseteq Values' /\ \A v \in Values : home'[v] = home[v]
      /\ Values' \subseteq Values \cup {Inst}
      /\ \A v \in Values' \ Values : home'[v] = block
  BY HomeStep
<1>3. /\ Inst \notin Values /\ Inst \notin DOMAIN pointer_map /\ Values \cap Variables = {}
      /\ DOMAIN records \subseteq Values /\ Values \subseteq DOMAIN pointer_map
  BY InstFacts DEF RecordsInv, MapInv
<1>4. /\ DOMAIN pointer_map \subseteq DOMAIN pointer_map'
      /\ NewValue => Inst \in DOMAIN pointer_map' /\ Inst \in Values'
  <2>1. /\ DOMAIN pointer_map = (Variables \cap 1 .. count) \cup Values
        /\ DOMAIN pointer_map' = (Variables \cap 1 .. count)' \cup Values'
    BY MapStep DEF MapInv
  <2> QED
    BY <2>1, Names, Kinds
<1>5. /\ DOMAIN records \subseteq DOMAIN records' /\ DOMAIN records' \subseteq DOMAIN records \cup {Inst}
  BY RecordsKinds DEF RecordChange
<1>6. ASSUME NEW v \in Values, NEW p \in Through(home[v])
      PROVE  points'[p][v] = points[p][v]
  <2>1. p \in Paths /\ v \in DOMAIN points[p]
    BY DEF PointsInv, Through
  <2> QED
    BY <2>1, PointsStep
<1>7. CASE UNCHANGED mem_graph.canonical
  <2>1. \A v \in Values' \cap DOMAIN mem_graph.canonical : v \in Values
    BY <1>1, <1>2, <1>3
  <2>2. \A v \in Values' \cap DOMAIN mem_graph.canonical :
          /\ v \notin DOMAIN records'
          /\ mem_graph.canonical[v] \in DOMAIN records' => mem_graph.canonical[v] \in DOMAIN records
    BY <1>1, <1>3, <1>5, <2>1
  <2> QED
    BY <1>1, <1>2, <1>4, <1>6, <1>7, <2>1, <2>2 DEF CanonInv
<1>8. ASSUME NEW x, NEW v \in DOMAIN pointer_map, Copies(x, v), x \in DOMAIN pointer_map',
             x \notin Values,
             x \in Values' => /\ x = Inst
                              /\ v \in DOMAIN records => \A p \in Through(block) : points'[p][x] = v
      PROVE  CanonInv'
  <2> DEFINE canonical == mem_graph'.canonical
  <2>1. /\ DOMAIN canonical = DOMAIN mem_graph.canonical \cup {x} /\ canonical[x] = v
        /\ \A y \in DOMAIN mem_graph.canonical \ {x} : canonical[y] = mem_graph.canonical[y]
        /\ records' = records
    BY <1>8 DEF Copies, WithEntry
  <2> HIDE DEF canonical
  <2>2. \A y \in DOMAIN canonical : y \in DOMAIN pointer_map' /\ canonical[y] \in DOMAIN pointer_map'
    BY <1>1, <1>4, <1>8, <2>1
  <2>3. \A y \in Values \cap DOMAIN canonical :
          /\ y \notin DOMAIN records'
          /\ canonical[y] \in DOMAIN records' =>
               \A p \in Through(home'[y]) : points'[p][y] = canonical[y]
    BY <1>1, <1>2, <1>6, <1>8, <2>1
  <2>4. \A y \in (Values' \ Values) \cap DOMAIN canonical :
          /\ y \notin DOMAIN records'
          /\ canonical[y] \in DOMAIN records' =>
               \A p \in Through(home'[y]) : points'[p][y] = canonical[y]
    BY <1>1, <1>2, <1>3, <1>8, <2>1
  <2> QED
    BY <2>2, <2>3, <2>4 DEF CanonInv, canonical
<1>9. ASSUME NEW s \in Variables, handleLoad(s), Copies(Inst, s)
      PROVE  CanonInv'
  <2>1. NewValue /\ s \in DOMAIN pointer_map /\ s \notin DOMAIN records
    BY <1>3, <1>9, ActionKinds, InstFacts DEF NewValue, Instruction, MapInv
  <2> QED
    BY <1>3, <1>4, <1>8, <1>9, <2>1
<1>10. ASSUME NEW v \in Values, handleBitCastAndConversions(v), Copies(Inst, v)
       PROVE  CanonInv'
  <2> DEFINE object == [p \in Through(block) |-> points[p][v]]
  <2>1. NewValue
    BY <1>10, ActionKinds
  <2>2. block # End /\ Available(v) /\ PointTo(Inst, object)
    BY <1>10 DEF handleBitCastAndConversions, Instruction, Define
  <2>3. Through(block) \subseteq Through(home[v]) /\ Through(block) \subseteq Paths
    BY <2>2, AvailableFacts
  <2>4. v \in DOMAIN records => \A p \in Through(block) : points[p][v] = v
    BY <2>3 DEF RecordsInv
  <2>5. \A p \in Through(block) : points'[p][Inst] = points[p][v]
    <3>1. DOMAIN points = Paths
      BY DEF PointsInv
    <3>2. \A p \in Through(block) \cap Paths : points'[p][Inst] = object[p]
      BY <2>2, <3>1, PointToFacts
    <3> QED
      BY <2>3, <3>2
  <2> HIDE DEF object
  <2> QED
    BY <1>3, <1>4, <1>8, <1>10, <2>1, <2>4, <2>5
<1>11. ASSUME NEW s \in Variables, NEW v \in Values, handleStore(v, s), Copies(s, v)
       PROVE  CanonInv'
  <2>1. s \in DOMAIN pointer_map /\ NoValue
    BY <1>11, ActionKinds, InstFacts DEF handleStore, Instruction, MapInv
  <2>2. s \notin Values /\ s \notin Values'
    BY <1>3, <2>1, Names
  <2> QED
    BY <1>3, <1>4, <1>8, <1>11, <2>1, <2>2
<1> QED
  BY <1>7, <1>9, <1>10, <1>11, GraphKinds DEF KeepsNames

\* What a free marks is what it gives back.
LEMMA MarkedIsGiven ==
  ASSUME BlockInv, HomeInv, PointsInv, FreesInv, RecordsInv, CanonInv,
         NEW v, Gives(v), NEW r \in DOMAIN records, r \in Marked(v)
  PROVE  \A p \in Through(block) : p \in Paths /\ points[p][v] = r /\ Given(p, r)' > 0
<1>1. /\ Through(block) \subseteq Through(home[v])
      /\ \A p \in Through(block) : p \in Paths
  BY AvailableFacts DEF Gives
<1>2. ASSUME NEW p \in Through(block)
      PROVE  points[p][v] = r
  BY <1>1 DEF RecordsInv, CanonInv, Marked, Gives
<1>3. \A p \in Through(block) : Given(p, r)' = Given(p, r) + 1 /\ Given(p, r) \in Nat
  BY <1>1, <1>2, GivesFacts, GivenFacts
<1> QED
  BY <1>1, <1>2, <1>3

LEMMA RecordFreedStep ==
  ASSUME BlockInv, HomeInv, MapInv, PointsInv, FreesInv, RecordsInv, CanonInv,
         RecordFreedIsFreed, Steps
  PROVE  RecordFreedIsFreed'
<1>1. SUFFICES ASSUME block' # End
               PROVE  \A r \in DOMAIN records' : records'[r] => \E p \in Paths : Given(p, r)' > 0
  BY DEF RecordFreedIsFreed
<1>2. block # End
  <2>1. block <= block' /\ block \in 1 .. 5 /\ block' \in 1 .. 5
    BY HomeStep, BlockStep, Blocks DEF BlockInv
  <2> QED
    BY <1>1, <2>1, Blocks
<1>3. ASSUME NEW r \in DOMAIN records, records[r]
      PROVE  \E p \in Paths : Given(p, r)' > 0
  <2>1. PICK p \in Paths : Given(p, r) > 0
    BY <1>2, <1>3 DEF RecordFreedIsFreed
  <2>2. Given(p, r)' >= Given(p, r) /\ Given(p, r)' \in Nat /\ Given(p, r) \in Nat
    BY FreesStep, GivenFacts
  <2>3. Given(p, r)' > 0
    BY <2>1, <2>2
  <2> QED
    BY <2>3
<1>4. ASSUME NEW v, Gives(v), NEW r \in DOMAIN records, r \in Marked(v)
      PROVE  \E p \in Paths : Given(p, r)' > 0
  <2>1. \A p \in Through(block) : p \in Paths /\ Given(p, r)' > 0
    BY <1>4, MarkedIsGiven
  <2>2. Through(block) # {}
    BY <1>2, PathsThrough, Blocks DEF BlockInv
  <2> QED
    BY <2>1, <2>2
<1>5. ASSUME NEW S, RecordChange({}, S) \/ RecordChange({Inst}, S),
             \A r \in S \cap DOMAIN records : \E p \in Paths : Given(p, r)' > 0
      PROVE  \A r \in DOMAIN records' : records'[r] => \E p \in Paths : Given(p, r)' > 0
  <2>1. \A r \in DOMAIN records' : records'[r] => r \in DOMAIN records /\ (records[r] \/ r \in S)
    BY <1>5 DEF RecordChange
  <2> QED
    BY <1>3, <1>5, <2>1
<1>6. CASE RecordChange({}, {}) \/ RecordChange({Inst}, {})
  BY <1>5, <1>6
<1>7. ASSUME NEW v \in Values, FreeCall(v), RecordChange({}, Marked(v))
      PROVE  \A r \in DOMAIN records' : records'[r] => \E p \in Paths : Given(p, r)' > 0
  <2>1. Gives(v)
    BY <1>7 DEF FreeCall, Instruction, Gives
  <2> QED
    BY <1>4, <1>5, <1>7, <2>1
<1>8. ASSUME NEW v \in Values, Realloc(v), RecordChange({Inst}, {v})
      PROVE  \A r \in DOMAIN records' : records'[r] => \E p \in Paths : Given(p, r)' > 0
  <2>1. Gives(v)
    BY <1>8 DEF Realloc, Instruction, Gives
  <2>2. \A r \in {v} : r \in Marked(v)
    BY DEF Marked
  <2> QED
    BY <1>4, <1>5, <1>8, <2>1, <2>2
<1> QED
  BY <1>2, <1>6, <1>7, <1>8, RecordsKinds

-----------------------------------------------------------------------------
(* The sites at which a value is freed, and the values found freed twice.   *)

\* A value that has a site already is found freed twice if the last two were compared.
LEMMA FreeCallSites ==
  ASSUME BlockInv, HomeInv, MapInv, SitesInv, NEW v \in Values, FreeCall(v)
  PROVE  LET sites == Append(SitesOf(v), block) IN
         /\ block \in Entry .. Join /\ sites \in Seq(Entry .. Join)
         /\ free_sites' = WithEntry(free_sites, v, sites)
         /\ detected \subseteq detected' /\ detected' \subseteq detected \cup {v}
         /\ reported \subseteq detected => reported' \subseteq detected'
         /\ Len(sites) > 1 /\ {sites[Len(sites) - 1], block} # {Left, Right} => v \in detected'
<1> DEFINE sites == Append(SitesOf(v), block)
           n == Len(sites)
           map == [pointer_map EXCEPT ![v] = FreedInfo(@)]
           graph == FreeInGraph(mem_graph, v)
<1>1. block \in Entry .. Join
  BY Blocks DEF FreeCall, Instruction, BlockInv
<1>2. SitesOf(v) \in Seq(Entry .. Join) /\ (SitesOf(v) # <<>> => v \in DOMAIN free_sites)
  <2>1. CASE v \in DOMAIN free_sites
    BY <2>1 DEF SitesInv, SitesOf
  <2>2. CASE v \notin DOMAIN free_sites
    <3>1. SitesOf(v) = <<>>
      BY <2>2 DEF SitesOf
    <3> QED
      BY <3>1, EmptySeq
  <2> QED
    BY <2>1, <2>2
<1>3. sites \in Seq(Entry .. Join) /\ n = Len(SitesOf(v)) + 1
  BY <1>1, <1>2, AppendProperties
<1>4. free_sites' = WithEntry(free_sites, v, sites)
  BY DEF FreeCall
<1>5. PICK exclusive \in IF n > 1 THEN MutuallyExclusive(sites[n - 1], block) ELSE {FALSE} :
        /\ detected' = IF SeesTwice(sites, exclusive) /\ (isFreed(graph, v) \/ map[v].twice)
                         THEN detected \cup {v} ELSE detected
        /\ reported' = reported \/ reported' = reported \cup (detected' \cap {v})
  BY DEF FreeCall
<1>6. ASSUME n > 1, {sites[n - 1], block} # {Left, Right}
      PROVE  v \in detected'
  <2>1. ~ exclusive
    BY <1>5, <1>6 DEF MutuallyExclusive
  <2>2. v \in DOMAIN free_sites
    <3>1. SitesOf(v) # <<>>
      <4>1. Len(SitesOf(v)) # 0
        BY <1>2, <1>3, <1>6, LenProperties
      <4> QED
        BY <4>1
    <3> QED
      BY <1>2, <3>1
  <2>3. map[v] = FreedInfo(pointer_map[v]) /\ pointer_map[v].freed
    BY <2>2 DEF SitesInv, MapInv
  <2>4. map[v].twice
    BY <2>3, FreeCallEntries
  <2> HIDE DEF map, sites, graph
  <2> QED
    BY <1>5, <1>6, <2>1, <2>4 DEF SeesTwice, isRCPatternFree
<1> DEFINE again == SeesTwice(sites, exclusive) /\ (isFreed(graph, v) \/ map[v].twice)
<1>7. /\ detected' = IF again THEN detected \cup {v} ELSE detected
      /\ reported' = reported \/ reported' = reported \cup (detected' \cap {v})
  BY <1>5
<1> HIDE DEF again, map, graph
<1>8. /\ detected \subseteq detected' /\ detected' \subseteq detected \cup {v}
      /\ reported \subseteq detected => reported' \subseteq detected'
  BY <1>7
<1> QED
  BY <1>1, <1>3, <1>4, <1>6, <1>8

LEMMA SitesKinds ==
  ASSUME Steps
  PROVE  UNCHANGED doubles \/ \E v \in Values : FreeCall(v)
BY Zenon DEF Steps, Next, handleAlloca, Malloc, Realloc, HeapAlloc, NextBlock, Ended, vars, doubles,
   handleLoad, StoreParameter, handleStore, handleBitCastAndConversions, handlePhi, PropagateFreed

LEMMA SitesStep ==
  ASSUME BlockInv, HomeInv, MapInv, SitesInv, Steps
  PROVE  SitesInv'
<1>1. /\ DOMAIN free_sites \subseteq Values
      /\ reported \subseteq detected /\ detected \subseteq DOMAIN free_sites
      /\ \A w \in DOMAIN free_sites :
           /\ pointer_map[w].freed
           /\ free_sites[w] \in Seq(Entry .. Join) /\ free_sites[w] # <<>>
           /\ \A i \in DOMAIN free_sites[w] : free_sites[w][i] <= block
           /\ \A i, j \in DOMAIN free_sites[w] : i < j =>
                /\ free_sites[w][i] <= free_sites[w][j]
                /\ j = i + 1 /\ {free_sites[w][i], free_sites[w][j]} # {Left, Right} => w \in detected
  BY DEF SitesInv
<1>2. /\ Values \subseteq Values' /\ block <= block' /\ block \in 1 .. 5 /\ block' \in 1 .. 5
      /\ \A v \in Values : pointer_map[v].freed => pointer_map'[v].freed
  BY HomeStep, BlockStep, MapStep, Blocks DEF BlockInv
<1> DEFINE Fits(s, w) ==
             /\ s \in Seq(Entry .. Join) /\ s # <<>>
             /\ \A i \in DOMAIN s : s[i] <= block'
             /\ \A i, j \in DOMAIN s : i < j =>
                  /\ s[i] <= s[j]
                  /\ j = i + 1 /\ {s[i], s[j]} # {Left, Right} => w \in detected'
<1>3. ASSUME NEW w \in DOMAIN free_sites, detected \subseteq detected'
      PROVE  pointer_map'[w].freed /\ Fits(free_sites[w], w)
  <2> DEFINE s == free_sites[w]
  <2>1. s \in Seq(1 .. 4) /\ DOMAIN s = 1 .. Len(s)
    BY <1>1, Blocks, LenProperties
  <2>2. \A i \in DOMAIN s : s[i] \in 1 .. 4
    BY <2>1, ElementOfSeq
  <2>3. \A i \in DOMAIN s : s[i] <= block'
    <3>1. \A i \in DOMAIN s : s[i] <= block
      BY <1>1
    <3> HIDE DEF s
    <3> QED
      BY <1>2, <2>2, <3>1
  <2> QED
    BY <1>1, <1>2, <1>3, <2>3
<1>4. ASSUME UNCHANGED doubles
      PROVE  SitesInv'
  <2>1. \A w \in DOMAIN free_sites : pointer_map'[w].freed /\ Fits(free_sites[w], w)
    BY <1>3, <1>4 DEF doubles
  <2> HIDE DEF Values
  <2> QED
    BY <1>1, <1>2, <1>4, <2>1 DEF doubles, SitesInv, Entry, Join, Left, Right
<1>5. ASSUME NEW v \in Values, FreeCall(v)
      PROVE  SitesInv'
  <2> DEFINE old == SitesOf(v)
             s == Append(old, block)
             n == Len(s)
  <2>1. /\ block \in 1 .. 4 /\ s \in Seq(Entry .. Join)
        /\ free_sites' = WithEntry(free_sites, v, s)
        /\ detected \subseteq detected' /\ detected' \subseteq detected \cup {v}
        /\ reported' \subseteq detected'
        /\ n > 1 /\ {s[n - 1], block} # {Left, Right} => v \in detected'
    BY <1>1, <1>5, FreeCallSites, Blocks
  <2>2. /\ DOMAIN free_sites' = DOMAIN free_sites \cup {v} /\ free_sites'[v] = s
        /\ \A w \in DOMAIN free_sites \ {v} : free_sites'[w] = free_sites[w]
    BY <2>1 DEF WithEntry
  <2>3. /\ old \in Seq(1 .. 4) /\ n = Len(old) + 1 /\ Len(old) \in Nat /\ s[n] = block
        /\ DOMAIN old = 1 .. Len(old) /\ DOMAIN s = 1 .. n
        /\ \A i \in 1 .. Len(old) : s[i] = old[i] /\ old[i] \in 1 .. 4
    <3>1. old \in Seq(1 .. 4)
      BY <1>1, Blocks DEF SitesOf
    <3>2. /\ DOMAIN old = 1 .. Len(old) /\ Len(old) \in Nat
          /\ \A i \in 1 .. Len(old) : old[i] \in 1 .. 4
      BY <3>1, LenProperties, ElementOfSeq
    <3>3. s \in Seq(1 .. 4) /\ n = Len(old) + 1 /\ s[n] = block /\ \A i \in 1 .. Len(old) : s[i] = old[i]
      BY <2>1, <3>1, AppendProperties
    <3>4. DOMAIN s = 1 .. n
      BY <3>3, LenProperties
    <3> QED
      BY <3>1, <3>2, <3>3, <3>4
  <2>4. /\ \A i \in 1 .. Len(old) : old[i] <= block
        /\ \A i, j \in 1 .. Len(old) : i < j =>
             /\ old[i] <= old[j]
             /\ j = i + 1 /\ {old[i], old[j]} # {Left, Right} => v \in detected
    <3>1. CASE v \in DOMAIN free_sites
      BY <1>1, <2>3, <3>1 DEF SitesOf
    <3>2. CASE v \notin DOMAIN free_sites
      <4>1. Len(old) = 0
        BY <3>2 DEF SitesOf
      <4> HIDE DEF old
      <4> QED
        BY <4>1
    <3> QED
      BY <3>1, <3>2
  <2>5. pointer_map'[v].freed
    BY <1>5, FreeCallEntries
  <2>6. block' = block
    BY <1>5 DEF FreeCall, Instruction
  <2> HIDE DEF old, s, n
  <2>7. Fits(s, v)
    <3>1. s # <<>>
      BY <2>3
    <3>2. \A i \in DOMAIN s : s[i] <= block'
      BY <2>1, <2>3, <2>4, <2>6
    <3>3. ASSUME NEW i \in DOMAIN s, NEW j \in DOMAIN s, i < j
          PROVE  /\ s[i] <= s[j]
                 /\ j = i + 1 /\ {s[i], s[j]} # {Left, Right} => v \in detected'
      <4>1. i \in 1 .. Len(old) /\ (j \in 1 .. Len(old) \/ j = n)
        BY <2>3, <3>3
      <4>2. CASE j \in 1 .. Len(old)
        <5>1. s[i] = old[i] /\ s[j] = old[j]
          BY <2>3, <4>1, <4>2
        <5> QED
          BY <2>1, <2>4, <3>3, <4>1, <4>2, <5>1
      <4>3. CASE j = n
        <5>1. s[j] = block /\ s[i] = old[i] /\ old[i] <= block
          BY <2>3, <2>4, <4>1, <4>3
        <5>2. ASSUME j = i + 1
              PROVE  i = n - 1 /\ n > 1
          BY <2>3, <4>1, <4>3, <5>2
        <5> QED
          BY <2>1, <5>1, <5>2
      <4> QED
        BY <4>1, <4>2, <4>3
    <3> QED
      BY <2>1, <3>1, <3>2, <3>3
  <2>8. \A w \in DOMAIN free_sites' : pointer_map'[w].freed /\ Fits(free_sites'[w], w)
    <3>1. \A w \in DOMAIN free_sites : pointer_map'[w].freed /\ Fits(free_sites[w], w)
      BY <1>3, <2>1
    <3> HIDE DEF Fits
    <3> QED
      BY <2>2, <2>5, <2>7, <3>1
  <2> HIDE DEF Values
  <2>9. /\ DOMAIN free_sites' \subseteq Values' /\ detected' \subseteq DOMAIN free_sites'
       /\ reported' \subseteq detected'
    BY <1>1, <1>2, <1>5, <2>1, <2>2
  <2> QED
    BY <2>8, <2>9 DEF SitesInv, Entry, Join, Left, Right
<1> QED
  BY <1>4, <1>5, SitesKinds

\* Of two sites on one path, the later one and its predecessor were compared, or
\* they are in the two branches, and the predecessor follows one before them.
LEMMA SitesDetected ==
  ASSUME SitesInv
  PROVE  DoubleFreesAreDetected
<1> SUFFICES ASSUME NEW v \in DOMAIN free_sites, NEW p \in Paths,
                    Cardinality({i \in DOMAIN free_sites[v] : p \in Through(free_sites[v][i])}) > 1
             PROVE  v \in detected
  BY DEF DoubleFreesAreDetected, FreedTwice
<1> DEFINE s == free_sites[v]
           S == {i \in DOMAIN s : p \in Through(s[i])}
<1>1. /\ s \in Seq(1 .. 4)
      /\ \A i, j \in DOMAIN s : i < j =>
           /\ s[i] <= s[j]
           /\ j = i + 1 /\ {s[i], s[j]} # {2, 3} => v \in detected
  BY Blocks DEF SitesInv
<1> HIDE DEF s
<1>2. DOMAIN s = 1 .. Len(s) /\ Len(s) \in Nat /\ \A i \in DOMAIN s : s[i] \in 1 .. 4
  BY <1>1, LenProperties, ElementOfSeq
<1>3. PICK i \in S, j \in S : i < j
  <2>1. IsFiniteSet(S)
    <3>1. 1 \in Int /\ Len(s) \in Int
      BY <1>2
    <3>2. IsFiniteSet(1 .. Len(s))
      BY <3>1, FS_Interval
    <3> QED
      BY <1>2, <3>2, FS_Subset
  <2>2. \E i, j \in S : i # j
    <3>1. SUFFICES ASSUME \A i, j \in S : i = j
                   PROVE  FALSE
      OBVIOUS
    <3>2. CASE S = {}
      <4>1. Cardinality(S) = 0
        BY <3>2, FS_EmptySet
      <4> QED
        BY <4>1 DEF s
    <3>3. CASE S # {}
      <4>1. PICK i : i \in S
        BY <3>3
      <4>2. S = {i}
        BY <3>1, <4>1
      <4>3. Cardinality(S) = 1
        BY <4>2, FS_Singleton
      <4> QED
        BY <4>3 DEF s
    <3> QED
      BY <3>2, <3>3
  <2>3. \A i, j \in S : i # j => i < j \/ j < i
    BY <1>2
  <2> QED
    BY <2>2, <2>3
<1>4. /\ i \in 1 .. Len(s) /\ j \in 1 .. Len(s) /\ i < j
      /\ p \in Through(s[i]) /\ p \in Through(s[j]) /\ s[i] \in 1 .. 4 /\ s[j] \in 1 .. 4
  BY <1>2, <1>3
<1> HIDE DEF S
<1>5. /\ j - 1 \in 1 .. Len(s) /\ s[j - 1] \in 1 .. 4
      /\ s[j - 1] <= s[j] /\ s[i] <= s[j - 1]
      /\ {s[j - 1], s[j]} # {2, 3} => v \in detected
  <2>1. j - 1 \in 1 .. Len(s) /\ j - 1 < j /\ j = (j - 1) + 1 /\ (i < j - 1 \/ i = j - 1)
    BY <1>2, <1>4
  <2>2. s[j - 1] \in 1 .. 4
    BY <1>2, <2>1
  <2>3. /\ s[j - 1] <= s[j]
        /\ {s[j - 1], s[j]} # {2, 3} => v \in detected
    BY <1>1, <1>2, <1>4, <2>1
  <2>4. s[i] <= s[j - 1]
    BY <1>1, <1>2, <1>4, <2>1, <2>2
  <2> QED
    BY <2>1, <2>2, <2>3, <2>4
<1>6. CASE {s[j - 1], s[j]} = {2, 3}
  <2>1. s[j - 1] = 2 /\ s[j] = 3
    <3>1. s[j - 1] \in {2, 3} /\ s[j] \in {2, 3} /\ s[j - 1] # s[j]
      <4>1. /\ s[j - 1] \in {s[j - 1], s[j]} /\ s[j] \in {s[j - 1], s[j]}
            /\ 2 \in {s[j - 1], s[j]} /\ 3 \in {s[j - 1], s[j]}
        BY <1>6
      <4> QED
        BY <1>6, <4>1
    <3> QED
      BY <1>5, <3>1
  <2>2. p = 3 /\ s[i] # 2 /\ s[i] # 3
    BY <1>4, <1>5, <2>1, Blocks
  <2>3. s[i] = 1 /\ i # j - 1
    BY <1>4, <1>5, <2>1, <2>2
  <2>4. j - 2 \in 1 .. Len(s) /\ j - 2 < j - 1 /\ j - 1 = (j - 2) + 1
    BY <1>4, <2>3
  <2>5. /\ s[j - 2] <= s[j - 1]
        /\ {s[j - 2], s[j - 1]} # {2, 3} => v \in detected
    BY <1>1, <1>2, <1>5, <2>4
  <2>6. {s[j - 2], s[j - 1]} # {2, 3}
    <3>1. s[j - 2] \in 1 .. 4
      BY <1>2, <2>4
    <3> QED
      BY <2>1, <2>5, <3>1
  <2> QED
    BY <2>5, <2>6
<1> QED
  BY <1>5, <1>6

-----------------------------------------------------------------------------
(* Functions without branches: what holds an object shares its node.        *)

\* x is a name of the node of o.
SharesNode(x, o, g) ==
  /\ x \in DOMAIN g.nodes /\ o \in DOMAIN g.nodes
  /\ g.nodes[x] = g.nodes[o] /\ x \in NodeOf(g, o).aliases

LEMMA SharedOn ==
  ASSUME NEW g, Graph(g), NEW h, NEW S, Grows(g, h, S), NEW x, NEW o, x \notin S, o \notin S,
         SharesNode(x, o, g)
  PROVE  SharesNode(x, o, h)
<1>1. /\ x \in DOMAIN h.nodes /\ o \in DOMAIN h.nodes
      /\ h.nodes[x] = g.nodes[x] /\ h.nodes[o] = g.nodes[o]
      /\ g.nodes[o] \in DOMAIN g.store
  BY DEF Grows, SharesNode, Graph
<1>2. g.store[g.nodes[o]].aliases \subseteq h.store[g.nodes[o]].aliases
  BY <1>1 DEF Grows
<1> QED
  BY <1>1, <1>2 DEF SharesNode, NodeOf

LEMMA InLineFacts ==
  ASSUME InLine, BlockInv, PointsInv
  PROVE  /\ block \in {Entry, End} /\ (block # End => Through(block) = Paths)
         /\ Left \in Paths /\ Holders \subseteq DOMAIN pointer_map
         /\ \A x \in Holders : points[Left][x] \in Values \cup {Parameter}
<1>1. block \in {Entry, End} /\ Left \in Paths
  BY Blocks DEF InLine, BlockInv
<1>2. block # End => Through(block) = Paths
  BY <1>1, Blocks
<1> QED
  BY <1>1, <1>2 DEF PointsInv, Holders

\* In line, an object moves on its only path.
LEMMA InLineMoves ==
  ASSUME InLine, BlockInv, PointsInv, block # End, NEW x, NEW object, PointTo(x, object)
  PROVE  /\ Holders' = Holders \cup {x} /\ points'[Left][x] = object[Left]
         /\ \A y \in Holders \ {x} : points'[Left][y] = points[Left][y]
<1>1. Left \in Through(block) \cap Paths /\ DOMAIN points = Paths
  BY InLineFacts DEF PointsInv
<1> QED
  BY <1>1, PointToFacts DEF Holders

\* The value that is defined holds what another name holds.
LEMMA InLineCopy ==
  ASSUME InLine, BlockInv, HomeInv, MapInv, PointsInv
  PROVE  /\ \A s \in Variables : handleLoad(s) =>
              s \in Holders /\ PointTo(Inst, [p \in Through(block) |-> points[p][s]])
         /\ \A v \in Values : Available(v) /\ block # End =>
              v \in Holders /\ Left \in Through(block)
<1>1. ASSUME NEW s \in Variables, handleLoad(s)
      PROVE  s \in Holders /\ PointTo(Inst, [p \in Through(block) |-> points[p][s]])
  <2>1. block # End /\ Holding(s, block) /\ PointTo(Inst, [p \in Through(block) |-> points[p][s]])
    BY <1>1 DEF handleLoad, Instruction, Define
  <2>2. Left \in Through(block)
    BY <2>1, InLineFacts
  <2> QED
    BY <2>1, <2>2 DEF Holding, Holders
<1>2. ASSUME NEW v \in Values, Available(v), block # End
      PROVE  v \in Holders /\ Left \in Through(block)
  <2>1. Left \in Through(block)
    BY <1>2, InLineFacts
  <2> QED
    BY <1>2, <2>1, AvailableFacts DEF Holders
<1> QED
  BY <1>1, <1>2

LEMMA HoldersStep ==
  ASSUME BlockInv, HomeInv, MapInv, PointsInv, GraphInv, HoldersInv, Steps
  PROVE  HoldersInv'
<1>1. UNCHANGED <<is_ffi_func, branches>>
  BY Kinds DEF handleAlloca, NewValue, NoValue, Instruction, NextBlock, Quiet
<1>2. SUFFICES ASSUME InLine
               PROVE  \A x \in Holders' : points'[Left][x] # Parameter =>
                        SharesNode(x, points'[Left][x], mem_graph')
  BY <1>1 DEF HoldersInv, InLine, SharesNode
<1>3. \A x \in Holders : points[Left][x] # Parameter => SharesNode(x, points[Left][x], mem_graph)
  BY <1>2 DEF HoldersInv, SharesNode
<1>4. /\ Graph(mem_graph) /\ DOMAIN mem_graph.nodes \subseteq DOMAIN pointer_map
      /\ Holders \subseteq DOMAIN pointer_map
      /\ \A x \in Holders : points[Left][x] \in Values \cup {Parameter}
  BY <1>2, InLineFacts DEF GraphInv
<1>5. /\ Inst \in Nat /\ Inst \notin Values /\ Inst \notin DOMAIN pointer_map
      /\ Values \cap Variables = {}
  BY InstFacts
<1>6. ASSUME NEW S, Grows(mem_graph, mem_graph', S), S \cap Values = {},
             NEW x \in Holders \ S, points'[Left][x] = points[Left][x],
             points'[Left][x] # Parameter
      PROVE  SharesNode(x, points'[Left][x], mem_graph')
  BY <1>3, <1>4, <1>6, SharedOn
<1>7. CASE KeepsNames({}) /\ UNCHANGED points
  BY <1>6, <1>7 DEF KeepsNames, Holders
<1>8. CASE KeepsNames({Inst}) /\ UNCHANGED points
  BY <1>6, <1>8 DEF KeepsNames, Holders
<1>9. ASSUME NEW m, NEW g, NEW r, HeapAlloc(m, g, r), SameNames(mem_graph, g), block # End
      PROVE  \A x \in Holders' : points'[Left][x] # Parameter =>
               SharesNode(x, points'[Left][x], mem_graph')
  <2>1. PointTo(Inst, [p \in Paths |-> Inst]) /\ mem_graph' = trackAlloc(g, Inst)
    BY <1>2, <1>9 DEF HeapAlloc, Define, InLine
  <2>2. /\ Holders' = Holders \cup {Inst} /\ points'[Left][Inst] = Inst
        /\ \A y \in Holders \ {Inst} : points'[Left][y] = points[Left][y]
    BY <1>2, <1>9, <2>1, InLineMoves, Blocks
  <2>3. Graph(g) /\ DOMAIN g.nodes = DOMAIN mem_graph.nodes /\ Grows(mem_graph, g, {})
    BY <1>9 DEF SameNames, Grows
  <2>4. /\ Grows(g, mem_graph', {}) /\ DOMAIN mem_graph'.nodes = DOMAIN g.nodes \cup {Inst}
        /\ NodeOf(mem_graph', Inst) = AllocNode(Inst, {Inst})
    BY <1>4, <1>5, <2>1, <2>3, TrackAllocFacts
  <2>5. Grows(mem_graph, mem_graph', {})
    <3>1. Grows(mem_graph, mem_graph', {} \cup {})
      BY <2>3, <2>4, GrowsOn
    <3> QED
      BY <3>1
  <2>6. SharesNode(Inst, Inst, mem_graph')
    BY <2>4 DEF SharesNode, AllocNode
  <2> QED
    BY <1>4, <1>5, <1>6, <2>2, <2>5, <2>6
<1>10. ASSUME Malloc
       PROVE  \A x \in Holders' : points'[Left][x] # Parameter =>
                SharesNode(x, points'[Left][x], mem_graph')
  <2>1. SameNames(mem_graph, mem_graph)
    BY <1>4, GrowsSelf DEF SameNames
  <2> QED
    BY <1>9, <1>10, <2>1 DEF Malloc, Instruction
<1>11. ASSUME NEW v \in Values, Realloc(v)
       PROVE  \A x \in Holders' : points'[Left][x] # Parameter =>
                SharesNode(x, points'[Left][x], mem_graph')
  <2>1. SameNames(mem_graph, mem_graph)
    BY <1>4, GrowsSelf DEF SameNames
  <2>2. SameNames(mem_graph, trackFree(mem_graph, v, NoBlock))
    BY <1>4, FreeKeepsNames, Blocks
  <2> QED
    BY <1>9, <1>11, <2>1, <2>2 DEF Realloc, Instruction
<1>12. ASSUME NEW x, NEW y \in Holders, Copies(x, y), block # End, x \notin Values, y # x,
              NEW object, PointTo(x, object), object[Left] = points[Left][y]
       PROVE  \A z \in Holders' : points'[Left][z] # Parameter =>
                SharesNode(z, points'[Left][z], mem_graph')
  <2>1. /\ Holders' = Holders \cup {x} /\ points'[Left][x] = points[Left][y]
        /\ \A z \in Holders \ {x} : points'[Left][z] = points[Left][z]
    BY <1>2, <1>12, InLineMoves
  <2>2. Grows(mem_graph, mem_graph', {x})
    BY <1>12 DEF Copies
  <2>3. \A z \in Holders \ {x} : points'[Left][z] # Parameter =>
          SharesNode(z, points'[Left][z], mem_graph')
    BY <1>6, <1>12, <2>1, <2>2
  <2>4. ASSUME points'[Left][x] # Parameter
        PROVE  SharesNode(x, points'[Left][x], mem_graph')
    <3> DEFINE o == points[Left][y]
    <3>1. o \in Values /\ SharesNode(y, o, mem_graph)
      BY <1>3, <1>4, <2>1, <2>4
    <3>2. SharesNode(y, o, mem_graph')
      BY <1>4, <1>12, <2>2, <3>1, SharedOn
    <3>3. /\ mem_graph'.nodes[x] = mem_graph.nodes[y] /\ x \in DOMAIN mem_graph'.nodes
          /\ mem_graph'.nodes[y] = mem_graph.nodes[y]
          /\ x \in NodeOf(mem_graph', x).aliases
      BY <1>12, <2>2, <3>1 DEF Copies, SharesNode, Grows
    <3> HIDE DEF o
    <3>4. SharesNode(x, o, mem_graph')
      BY <3>2, <3>3 DEF SharesNode, NodeOf
    <3> QED
      BY <2>1, <3>4 DEF o
  <2> QED
    BY <2>1, <2>3, <2>4
<1>13. ASSUME NEW s \in Variables, handleLoad(s), Copies(Inst, s)
       PROVE  \A x \in Holders' : points'[Left][x] # Parameter =>
                SharesNode(x, points'[Left][x], mem_graph')
  <2>1. s \in Holders /\ PointTo(Inst, [p \in Through(block) |-> points[p][s]])
    BY <1>2, <1>13, InLineCopy
  <2>2. block # End /\ Left \in Through(block)
    BY <1>2, <1>13, InLineFacts DEF handleLoad, Instruction
  <2> QED
    BY <1>4, <1>5, <1>12, <1>13, <2>1, <2>2
<1>14. ASSUME NEW v \in Values, handleBitCastAndConversions(v), Copies(Inst, v)
       PROVE  \A x \in Holders' : points'[Left][x] # Parameter =>
                SharesNode(x, points'[Left][x], mem_graph')
  <2>1. Available(v) /\ block # End /\ PointTo(Inst, [p \in Through(block) |-> points[p][v]])
    BY <1>14 DEF handleBitCastAndConversions, Instruction, Define
  <2>2. v \in Holders /\ Left \in Through(block)
    BY <1>2, <2>1, InLineCopy
  <2> QED
    BY <1>4, <1>5, <1>12, <1>14, <2>1, <2>2
<1>15. ASSUME NEW s \in Variables, NEW v \in Values, handleStore(v, s), Copies(s, v)
       PROVE  \A x \in Holders' : points'[Left][x] # Parameter =>
                SharesNode(x, points'[Left][x], mem_graph')
  <2>1. Available(v) /\ block # End /\ PointTo(s, [p \in Through(block) |-> points[p][v]])
    BY <1>15 DEF handleStore, Instruction
  <2>2. v \in Holders /\ Left \in Through(block) /\ s \notin Values
    BY <1>2, <1>5, <2>1, InLineCopy
  <2> QED
    BY <1>12, <1>15, <2>1, <2>2
<1>16. ASSUME NEW s \in Variables, StoreParameter(s)
       PROVE  \A x \in Holders' : points'[Left][x] # Parameter =>
                SharesNode(x, points'[Left][x], mem_graph')
  <2>1. block # End /\ PointTo(s, [p \in Paths |-> Parameter]) /\ UNCHANGED mem_graph
    BY <1>16 DEF StoreParameter, Instruction
  <2>2. /\ Holders' = Holders \cup {s} /\ points'[Left][s] = Parameter
        /\ \A z \in Holders \ {s} : points'[Left][z] = points[Left][z]
    BY <1>2, <2>1, InLineMoves, Blocks
  <2>3. Grows(mem_graph, mem_graph', {})
    BY <1>4, <2>1, GrowsSelf
  <2> QED
    BY <1>6, <2>2, <2>3
<1>17. ASSUME \E v, w \in Values : handlePhi(v, w)
       PROVE  FALSE
  <2>1. block = Join
    BY <1>17 DEF handlePhi
  <2> QED
    BY <1>2, <2>1, InLineFacts, Blocks
<1>18. ASSUME \/ handleAlloca \/ NextBlock \/ Ended \/ UNCHANGED vars
              \/ \E v \in Values : FreeCall(v)
              \/ \E k \in keys : PropagateFreed(k)
       PROVE  UNCHANGED points
  BY <1>18 DEF handleAlloca, NextBlock, Ended, vars, history, FreeCall, PropagateFreed
<1>19. ASSUME \/ handleAlloca \/ NextBlock \/ Ended \/ UNCHANGED vars
              \/ \E v \in Values : FreeCall(v)
              \/ \E k \in keys : PropagateFreed(k)
       PROVE  KeepsNames({}) \/ KeepsNames({Inst})
  BY <1>19, GraphActions
<1>20. CASE \/ handleAlloca \/ NextBlock \/ Ended \/ UNCHANGED vars
            \/ \E v \in Values : FreeCall(v)
            \/ \E k \in keys : PropagateFreed(k)
  BY <1>7, <1>8, <1>18, <1>19, <1>20
<1> QED
  BY <1>2, <1>10, <1>11, <1>13, <1>14, <1>15, <1>16, <1>17, <1>20, GraphActions, Zenon
     DEF Steps, Next, InLine

\* The entry of a copy says what the entry of the original says.
LEMMA CopiedFreed ==
  ASSUME BlockInv, HomeInv, MapInv
  PROVE  /\ \A s \in Variables : handleLoad(s) => pointer_map'[Inst].freed = pointer_map[s].freed
         /\ \A v \in Values : handleBitCastAndConversions(v) =>
              pointer_map'[Inst].freed = pointer_map[v].freed
         /\ \A v \in Values, s \in Variables : handleStore(v, s) =>
              pointer_map'[s].freed = pointer_map[v].freed
<1>1. Values \subseteq DOMAIN pointer_map /\ \A v \in DOMAIN pointer_map : pointer_map[v] \in Info
  BY DEF MapInv
<1>2. ASSUME NEW v \in DOMAIN pointer_map, NEW g, propagateOrigin(g, v)
      PROVE  pointer_map'[Inst].freed = pointer_map[v].freed
  <2>1. pointer_map' = WithEntry(pointer_map, Inst, CopiedInfo(v))
    BY <1>2 DEF propagateOrigin, putPtrInfo
  <2>2. pointer_map'[Inst] = CopiedInfo(v)
    BY <2>1 DEF WithEntry
  <2>3. CopiedInfo(v).freed = pointer_map[v].freed
    BY Infos
  <2> QED
    BY <2>2, <2>3
<1>3. ASSUME NEW s \in Variables, handleLoad(s)
      PROVE  pointer_map'[Inst].freed = pointer_map[s].freed
  <2>1. s \in DOMAIN pointer_map
    BY <1>3, InstFacts DEF handleLoad, Instruction, MapInv
  <2> QED
    BY <1>2, <1>3, <2>1 DEF handleLoad
<1>4. ASSUME NEW v \in Values, handleBitCastAndConversions(v)
      PROVE  pointer_map'[Inst].freed = pointer_map[v].freed
  BY <1>1, <1>2, <1>4 DEF handleBitCastAndConversions
<1>5. ASSUME NEW v \in Values, NEW s \in Variables, handleStore(v, s)
      PROVE  pointer_map'[s].freed = pointer_map[v].freed
  <2> DEFINE info == [pointer_map[v] EXCEPT !.text = Inst, !.owns = TRUE]
  <2>1. pointer_map' = WithEntry(pointer_map, s, info)
    BY <1>5 DEF handleStore, putPtrInfo
  <2>2. info.freed = pointer_map[v].freed
    <3>1. pointer_map[v] \in Info
      BY <1>1
    <3> QED
      BY <3>1 DEF Info
  <2> HIDE DEF info
  <2>3. pointer_map'[s] = info
    BY <2>1 DEF WithEntry
  <2> QED
    BY <2>2, <2>3
<1> QED
  BY <1>3, <1>4, <1>5

LEMMA FreedIsSeenStep ==
  ASSUME BlockInv, HomeInv, MapInv, PointsInv, FreesInv, HoldersInv, FreedIsSeen, Steps
  PROVE  FreedIsSeen'
<1>1. UNCHANGED <<is_ffi_func, branches>>
  BY Kinds DEF handleAlloca, NewValue, NoValue, Instruction, NextBlock, Quiet
<1>2. SUFFICES ASSUME InLine, NEW x \in Holders', NEW o, o = points'[Left][x], o # Parameter,
                      \A v \in resized' : points'[Left][v] # o, Given(Left, o)' > 0
               PROVE  pointer_map'[x].freed
  BY <1>1 DEF FreedIsSeen, InLine
<1>3. /\ Holders \subseteq DOMAIN pointer_map /\ Left \in Paths
      /\ block # End => Through(block) = Paths
      /\ \A y \in Holders : points[Left][y] \in Values \cup {Parameter}
      /\ \A v \in Values : v \in Holders
      /\ Inst \notin DOMAIN pointer_map /\ Inst \notin Values /\ Inst # Parameter
      /\ Values \cap Variables = {} /\ Values \subseteq DOMAIN pointer_map
  <2>1. \A v \in Values : v \in Holders
    BY <1>2, PathsThrough, Blocks DEF InLine, HomeInv, PointsInv, Holders
  <2> QED
    BY <1>2, <2>1, InLineFacts, InstFacts, Blocks DEF MapInv
<1>4. /\ resized \subseteq resized' /\ resized \subseteq Values
      /\ \A v \in Values : points'[Left][v] = points[Left][v]
      /\ Given(Left, o) \in Nat /\ Given(Left, o)' \in Nat
  <2>1. \A v \in Values : v \in DOMAIN points[Left]
    BY <1>3 DEF Holders
  <2> QED
    BY <1>3, <2>1, FreesStep, PointsStep, GivenFacts DEF FreesInv
<1>5. ASSUME NEW y \in Holders, points[Left][y] = o, Given(Left, o) > 0
      PROVE  pointer_map[y].freed
  BY <1>2, <1>4, <1>5 DEF FreedIsSeen
<1>6. ASSUME x \in Holders, points[Left][x] = o, Given(Left, o) > 0,
             NEW y, y # x, Replaces(y) \/ OnlyMarks
      PROVE  pointer_map'[x].freed
  BY <1>3, <1>5, <1>6, KeptFreed
<1>7. ASSUME UNCHANGED points, UNCHANGED frees, NEW y, y \notin Holders, Replaces(y) \/ OnlyMarks
      PROVE  pointer_map'[x].freed
  <2>1. x \in Holders /\ points[Left][x] = o /\ Given(Left, o) > 0
    BY <1>2, <1>7 DEF Holders, Given
  <2> QED
    BY <1>6, <1>7, <2>1
<1>8. ASSUME UNCHANGED frees
      PROVE  Given(Left, o) > 0
  BY <1>2, <1>8 DEF Given
<1>9. ASSUME NEW m, NEW g, NEW r, HeapAlloc(m, g, r), block # End, Replaces(Inst),
             o = Inst \/ Given(Left, o) > 0
      PROVE  pointer_map'[x].freed
  <2>1. PointTo(Inst, [p \in Paths |-> Inst])
    BY <1>9 DEF HeapAlloc, Define
  <2>2. /\ Holders' = Holders \cup {Inst} /\ points'[Left][Inst] = Inst
        /\ \A y \in Holders \ {Inst} : points'[Left][y] = points[Left][y]
    BY <1>2, <1>3, <1>9, <2>1, InLineMoves
  <2>3. o # Inst
    <3>1. ASSUME o = Inst, NEW v \in Values, Gives(v)
          PROVE  Given(Left, o)' = 0
      <4>1. points[Left][v] # o /\ Inst \notin DOMAIN frees[Left]
        BY <1>3, <3>1 DEF FreesInv
      <4>2. Given(Left, o)' = Given(Left, o)
        BY <1>3, <3>1, <4>1, GivesFacts
      <4> QED
        BY <3>1, <4>1, <4>2 DEF Given
    <3>2. ASSUME o = Inst, UNCHANGED frees
          PROVE  Given(Left, o)' = 0
      <4>1. Inst \notin DOMAIN frees[Left]
        BY <1>3 DEF FreesInv
      <4> QED
        BY <3>2, <4>1 DEF Given
    <3>3. UNCHANGED frees \/ \E v \in Values : Gives(v)
      BY FreesKinds
    <3> QED
      BY <1>2, <3>1, <3>2, <3>3
  <2>4. x \in Holders /\ x # Inst /\ points[Left][x] = o
    BY <1>2, <1>3, <2>2, <2>3
  <2> QED
    BY <1>6, <1>9, <2>3, <2>4
<1>10. CASE Malloc
  <2>1. Replaces(Inst) /\ UNCHANGED frees /\ block # End /\ HeapAlloc(pointer_map, mem_graph, records)
    BY <1>10, MapActions DEF Malloc, Instruction
  <2> QED
    BY <1>8, <1>9, <2>1
<1>11. ASSUME NEW v \in Values, Realloc(v)
       PROVE  pointer_map'[x].freed
  <2>1. Replaces(Inst) /\ block # End /\ Gives(v) /\ resized' = resized \cup {v}
    BY <1>11, MapActions DEF Realloc, Instruction, Gives
  <2>2. \/ HeapAlloc(pointer_map, mem_graph, records)
        \/ HeapAlloc([pointer_map EXCEPT ![v].freed = TRUE],
                     trackFree(mem_graph, v, NoBlock), markFreed(records, v))
    BY <1>11 DEF Realloc
  <2>3. points[Left][v] # o
    BY <1>2, <1>4, <2>1
  <2>4. Given(Left, o)' = Given(Left, o)
    BY <1>3, <2>1, <2>3, GivesFacts
  <2>5. Given(Left, o) > 0
    BY <1>2, <2>4
  <2> QED
    BY <1>9, <2>1, <2>2, <2>5
<1>12. ASSUME NEW y, NEW z \in Holders, NEW object, PointTo(y, object), block # End,
              object[Left] = points[Left][z], Replaces(y), y # z, UNCHANGED frees,
              pointer_map'[y].freed = pointer_map[z].freed
       PROVE  pointer_map'[x].freed
  <2>1. /\ Holders' = Holders \cup {y} /\ points'[Left][y] = points[Left][z]
        /\ \A u \in Holders \ {y} : points'[Left][u] = points[Left][u]
    BY <1>2, <1>12, InLineMoves
  <2>2. CASE x = y
    BY <1>2, <1>5, <1>8, <1>12, <2>1, <2>2
  <2>3. CASE x # y
    BY <1>2, <1>6, <1>8, <1>12, <2>1, <2>3
  <2> QED
    BY <2>2, <2>3
<1>13. ASSUME NEW s \in Variables, handleLoad(s)
       PROVE  pointer_map'[x].freed
  <2>1. s \in Holders /\ PointTo(Inst, [p \in Through(block) |-> points[p][s]])
    BY <1>2, <1>13, InLineCopy
  <2>2. block # End /\ Left \in Through(block) /\ Replaces(Inst) /\ UNCHANGED frees
    BY <1>3, <1>13, MapActions DEF handleLoad, Instruction
  <2>3. pointer_map'[Inst].freed = pointer_map[s].freed
    BY <1>13, CopiedFreed
  <2> QED
    BY <1>3, <1>12, <2>1, <2>2, <2>3
<1>14. ASSUME NEW v \in Values, handleBitCastAndConversions(v)
       PROVE  pointer_map'[x].freed
  <2>1. /\ Available(v) /\ block # End /\ PointTo(Inst, [p \in Through(block) |-> points[p][v]])
        /\ Replaces(Inst) /\ UNCHANGED frees
    BY <1>14, MapActions DEF handleBitCastAndConversions, Instruction, Define
  <2>2. v \in Holders /\ Left \in Through(block)
    BY <1>2, <2>1, InLineCopy
  <2>3. pointer_map'[Inst].freed = pointer_map[v].freed
    BY <1>14, CopiedFreed
  <2> QED
    BY <1>3, <1>12, <2>1, <2>2, <2>3
<1>15. ASSUME NEW v \in Values, NEW s \in Variables, handleStore(v, s)
       PROVE  pointer_map'[x].freed
  <2>1. /\ Available(v) /\ block # End /\ PointTo(s, [p \in Through(block) |-> points[p][v]])
        /\ Replaces(s) /\ UNCHANGED frees
    BY <1>15, MapActions DEF handleStore, Instruction
  <2>2. v \in Holders /\ Left \in Through(block) /\ s # v
    BY <1>2, <1>3, <2>1, InLineCopy
  <2>3. pointer_map'[s].freed = pointer_map[v].freed
    BY <1>15, CopiedFreed
  <2> QED
    BY <1>12, <2>1, <2>2, <2>3
<1>16. ASSUME NEW s \in Variables, StoreParameter(s)
       PROVE  pointer_map'[x].freed
  <2>1. PointTo(s, [p \in Paths |-> Parameter]) /\ block # End /\ UNCHANGED frees /\ OnlyMarks
    BY <1>16, MapActions DEF StoreParameter, Instruction
  <2>2. /\ Holders' = Holders \cup {s} /\ points'[Left][s] = Parameter
        /\ \A u \in Holders \ {s} : points'[Left][u] = points[Left][u]
    BY <1>2, <1>3, <2>1, InLineMoves
  <2>3. x # s /\ x \in Holders /\ points[Left][x] = o
    BY <1>2, <2>2
  <2> QED
    BY <1>6, <1>8, <2>1, <2>3
<1>17. ASSUME NEW v \in Values, FreeCall(v)
       PROVE  pointer_map'[x].freed
  <2>1. Gives(v) /\ UNCHANGED points /\ block # End
    BY <1>17 DEF FreeCall, Instruction, Gives
  <2>2. x \in Holders /\ points[Left][x] = o
    BY <1>2, <2>1 DEF Holders
  <2>3. OnlyMarks \/ Replaces(v)
    BY <1>17, FreeCallEntries
  <2>4. CASE points[Left][v] = o
    <3>1. /\ v \in DOMAIN mem_graph.nodes /\ mem_graph.nodes[v] = mem_graph.nodes[o]
          /\ x \in NodeOf(mem_graph, o).aliases
      BY <1>2, <1>3, <2>2, <2>4 DEF HoldersInv
    <3>2. x \in AliasesOf(mem_graph, v)
      BY <3>1 DEF AliasesOf, Tracked, NodeOf
    <3> QED
      BY <1>2, <1>3, <1>17, <2>2, <3>2, FreeCallEntries DEF InLine
  <2>5. CASE points[Left][v] # o
    <3>1. Given(Left, o)' = Given(Left, o)
      BY <1>3, <2>1, <2>5, GivesFacts
    <3>2. Given(Left, o) > 0
      BY <1>2, <3>1
    <3> QED
      BY <1>6, <2>2, <2>3, <2>5, <3>2
  <2> QED
    BY <2>4, <2>5
<1>18. ASSUME NEW v \in Values, NEW w \in Values, handlePhi(v, w)
       PROVE  FALSE
  <2>1. block = Join
    BY <1>18 DEF handlePhi
  <2> QED
    BY <1>2, <2>1, InLineFacts, Blocks
<1>19. CASE handleAlloca \/ NextBlock \/ (\E k \in keys : PropagateFreed(k)) \/ Ended \/ UNCHANGED vars
  <2>1. UNCHANGED <<points, frees>>
    BY <1>19 DEF handleAlloca, NextBlock, PropagateFreed, Ended, vars, history
  <2>2. Inst \notin Holders
    BY <1>3
  <2>3. Replaces(Inst) \/ OnlyMarks
    BY <1>19, MapActions
  <2> QED
    BY <1>7, <2>1, <2>2, <2>3
<1> QED
  BY <1>10, <1>11, <1>13, <1>14, <1>15, <1>16, <1>17, <1>18, <1>19, Zenon DEF Steps, Next

-----------------------------------------------------------------------------
(* The nodes of the recorded allocations, and the sites of their frees.      *)

LEMMA ReachFacts ==
  ASSUME NEW g, g.edges = Edges, NEW a \in Entry .. Join, NEW b \in Entry .. Join,
         ~ branches => a = Entry /\ b = Entry
  PROVE  isBBReachable(g, a, b) \/ isBBReachable(g, b, a) <=> Through(a) \cap Through(b) # {}
<1>1. a \in {1, 2, 3, 4} /\ b \in {1, 2, 3, 4}
  BY Blocks
<1>2. ASSUME NEW x
      PROVE  isBBReachable(g, x, x)
  BY DEF isBBReachable
<1>3. CASE a = b
  BY <1>1, <1>2, <1>3, Blocks
<1>4. CASE a # b
  <2>1. /\ branches
        /\ Edges = {<<1, 2>>, <<1, 3>>, <<2, 4>>, <<3, 4>>}
    BY <1>4, Blocks DEF Edges
  <2>2. g.edges = {<<1, 2>>, <<1, 3>>, <<2, 4>>, <<3, 4>>}
    BY <2>1
  <2>3. ASSUME NEW x \in {1, 2, 3, 4}
        PROVE  isBBReachable(g, 1, x) /\ isBBReachable(g, x, 4)
    <3>1. ASSUME NEW S, \A e \in g.edges : e[1] \in S => e[2] \in S
          PROVE  (1 \in S => 2 \in S /\ 3 \in S) /\ (2 \in S => 4 \in S) /\ (3 \in S => 4 \in S)
      BY <2>2, <3>1
    <3>2. ASSUME NEW S, \A e \in g.edges : e[1] \in S => e[2] \in S
          PROVE  (1 \in S => x \in S) /\ (x \in S => 4 \in S)
      BY <3>1, <3>2
    <3> QED
      BY <3>2 DEF isBBReachable
  <2>4. ~ isBBReachable(g, 2, 3)
    <3> DEFINE S == {2, 4}
               U == {2} \cup {e[2] : e \in g.edges}
    <3>1. S \in SUBSET U
      BY <2>2
    <3>2. 2 \in S /\ 3 \notin S /\ \A e \in g.edges : e[1] \in S => e[2] \in S
      BY <2>2
    <3> QED
      BY <3>1, <3>2 DEF isBBReachable
  <2>5. ~ isBBReachable(g, 3, 2)
    <3> DEFINE S == {3, 4}
               U == {3} \cup {e[2] : e \in g.edges}
    <3>1. S \in SUBSET U
      BY <2>2
    <3>2. 3 \in S /\ 2 \notin S /\ \A e \in g.edges : e[1] \in S => e[2] \in S
      BY <2>2
    <3> QED
      BY <3>1, <3>2 DEF isBBReachable
  <2>6. \/ (a = 1 \/ b = 1 \/ a = 4 \/ b = 4)
        \/ a = 2 /\ b = 3
        \/ a = 3 /\ b = 2
    BY <1>1, <1>4
  <2>7. CASE a = 1 \/ b = 1 \/ a = 4 \/ b = 4
    <3>1. Through(a) \cap Through(b) # {}
      BY <1>1, <2>7, Blocks
    <3> QED
      BY <1>1, <2>3, <2>7, <3>1
  <2>8. CASE (a = 2 /\ b = 3) \/ (a = 3 /\ b = 2)
    <3>1. Through(a) \cap Through(b) = {}
      BY <2>8, Blocks
    <3> QED
      BY <2>4, <2>5, <2>8, <3>1
  <2> QED
    BY <2>6, <2>7, <2>8
<1> QED
  BY <1>3, <1>4

\* A further site.
LEMMA FurtherSite ==
  ASSUME NEW sites, SitesFit(sites), NEW b \in {NoBlock} \cup FreeBlocks
  PROVE  LET s == Append(sites, b) IN
         /\ SitesFit(s) /\ s # <<>> /\ Len(s) = Len(sites) + 1
         /\ DOMAIN s = DOMAIN sites \cup {Len(sites) + 1} /\ s[Len(sites) + 1] = b
         /\ \A i \in DOMAIN sites : s[i] = sites[i] /\ i < Len(sites) + 1
         /\ \A p : OnPath(s, p) <=> OnPath(sites, p) \/ (b # NoBlock /\ p \in Through(b))
<1> DEFINE s == Append(sites, b)
           n == Len(sites) + 1
<1>1. b \in Nat /\ sites \in Seq(Nat) /\ Len(sites) \in Nat /\ DOMAIN sites = 1 .. Len(sites)
  BY Blocks, LenProperties DEF FreeBlocks, SitesFit
<1>2. /\ s \in Seq(Nat) /\ Len(s) = n /\ s[n] = b
      /\ \A i \in 1 .. Len(sites) : s[i] = sites[i]
  BY <1>1, AppendProperties
<1>3. DOMAIN s = 1 .. n
  BY <1>2, LenProperties
<1> HIDE DEF s
<1>4. DOMAIN s = DOMAIN sites \cup {n} /\ n \in DOMAIN s /\ \A i \in DOMAIN sites : i < n
  BY <1>1, <1>3
<1> HIDE DEF n
<1>5. s # <<>>
  BY <1>4
<1>6. SitesFit(s)
  BY <1>1, <1>2, <1>4 DEF SitesFit
<1>7. \A p : OnPath(s, p) <=> OnPath(sites, p) \/ (b # NoBlock /\ p \in Through(b))
  BY <1>1, <1>2, <1>4 DEF OnPath
<1> QED
  BY <1>1, <1>2, <1>4, <1>5, <1>6, <1>7 DEF s, n

\* Two sites are on one path if there is a path through the blocks of both.
LEMMA FurtherOnOnePath ==
  ASSUME NEW g, g.edges = Edges, NEW sites, SitesFit(sites), NEW b \in {NoBlock} \cup FreeBlocks
  PROVE  SitesOnOnePath(g, Append(sites, b)) <=>
           \/ SitesOnOnePath(g, sites)
           \/ b # NoBlock /\ \E p \in Through(b) : OnPath(sites, p)
<1> DEFINE s == Append(sites, b)
           n == Len(sites) + 1
           Joined(x, y) == /\ x # NoBlock /\ y # NoBlock
                           /\ (isBBReachable(g, x, y) \/ isBBReachable(g, y, x))
<1>1. /\ DOMAIN s = DOMAIN sites \cup {n} /\ s[n] = b
      /\ \A i \in DOMAIN sites : s[i] = sites[i] /\ i < n
      /\ n \in Nat /\ DOMAIN sites \subseteq Nat
  BY FurtherSite, LenProperties DEF SitesFit
<1>2. \A t : SitesOnOnePath(g, t) <=> \E i, j \in DOMAIN t : i < j /\ Joined(t[i], t[j])
  BY DEF SitesOnOnePath
<1>3. ASSUME NEW i \in DOMAIN sites
      PROVE  Joined(sites[i], b) <=>
               /\ sites[i] # NoBlock /\ b # NoBlock
               /\ \E p \in Through(b) : p \in Through(sites[i])
  <2>1. CASE sites[i] = NoBlock \/ b = NoBlock
    BY <2>1
  <2>2. CASE sites[i] # NoBlock /\ b # NoBlock
    <3>1. sites[i] \in FreeBlocks /\ b \in FreeBlocks
      BY <2>2 DEF SitesFit
    <3>2. /\ sites[i] \in Entry .. Join /\ b \in Entry .. Join
          /\ ~ branches => sites[i] = Entry /\ b = Entry
      BY <3>1, Blocks DEF FreeBlocks
    <3>3. isBBReachable(g, sites[i], b) \/ isBBReachable(g, b, sites[i])
            <=> Through(sites[i]) \cap Through(b) # {}
      BY <3>2, ReachFacts
    <3> QED
      BY <2>2, <3>3
  <2> QED
    BY <2>1, <2>2
<1> HIDE DEF s, n, Joined
<1>4. (\E i, j \in DOMAIN s : i < j /\ Joined(s[i], s[j])) <=>
        \/ \E i, j \in DOMAIN sites : i < j /\ Joined(sites[i], sites[j])
        \/ \E i \in DOMAIN sites : Joined(sites[i], b)
  <2>1. ASSUME NEW i \in DOMAIN s, NEW j \in DOMAIN s, i < j
        PROVE  i \in DOMAIN sites /\ (j = n \/ j \in DOMAIN sites)
    BY <1>1, <2>1
  <2>2. ASSUME NEW i \in DOMAIN s, NEW j \in DOMAIN s, i < j, Joined(s[i], s[j])
        PROVE  \/ Joined(sites[i], sites[j]) /\ i \in DOMAIN sites /\ j \in DOMAIN sites
               \/ i \in DOMAIN sites /\ Joined(sites[i], b)
    BY <1>1, <2>1, <2>2
  <2> QED
    BY <1>1, <2>2
<1>5. (\E i \in DOMAIN sites : Joined(sites[i], b)) <=>
        b # NoBlock /\ \E p \in Through(b) : OnPath(sites, p)
  BY <1>3 DEF OnPath
<1> QED
  BY <1>2, <1>4, <1>5 DEF s

LEMMA NodesKept ==
  ASSUME BlockInv, HomeInv, MapInv, GraphInv, Steps
  PROVE  \A v \in Values \cap DOMAIN mem_graph.nodes :
           /\ v \in DOMAIN mem_graph'.nodes /\ mem_graph'.nodes[v] = mem_graph.nodes[v]
           /\ NodeOf(mem_graph', v).alloc_inst = NodeOf(mem_graph, v).alloc_inst
<1>1. Graph(mem_graph) /\ Inst \notin Values /\ Values \cap Variables = {}
  BY InstFacts DEF GraphInv
<1>2. \E x : x \notin Values /\ Grows(mem_graph, mem_graph', {x})
  <2>1. CASE KeepsNames({}) \/ KeepsNames({Inst})
    <3>1. Grows(mem_graph, mem_graph', {})
      BY <2>1 DEF KeepsNames
    <3>2. Grows(mem_graph, mem_graph', {Inst})
      BY <3>1 DEF Grows
    <3> QED
      BY <1>1, <3>2
  <2>2. CASE Copies(Inst, Inst) \/ \E v : Copies(Inst, v)
    BY <1>1, <2>2 DEF Copies
  <2>3. ASSUME NEW s \in Variables, NEW v, Copies(s, v)
        PROVE  \E x : x \notin Values /\ Grows(mem_graph, mem_graph', {x})
    BY <1>1, <2>3 DEF Copies
  <2> QED
    BY <2>1, <2>2, <2>3, GraphKinds
<1>3. PICK x : x \notin Values /\ Grows(mem_graph, mem_graph', {x})
  BY <1>2
<1> HIDE DEF Values
<1> QED
  BY <1>1, <1>3 DEF Grows, Graph, NodeOf

\* The node of a new allocation.
LEMMA NewNode ==
  ASSUME BlockInv, HomeInv, MapInv, GraphInv, is_ffi_func, Malloc \/ \E v \in Values : Realloc(v)
  PROVE  Inst \in DOMAIN mem_graph'.nodes /\ NodeOf(mem_graph', Inst) = AllocNode(Inst, {Inst})
<1>1. /\ Graph(mem_graph) /\ Inst \notin DOMAIN mem_graph.nodes /\ Inst \in Nat
  BY InstFacts DEF GraphInv
<1>2. ASSUME NEW g, Graph(g), g.nodes = mem_graph.nodes, mem_graph' = trackAlloc(g, Inst)
      PROVE  Inst \in DOMAIN mem_graph'.nodes /\ NodeOf(mem_graph', Inst) = AllocNode(Inst, {Inst})
  <2>1. LET h == trackAlloc(g, Inst) IN
        DOMAIN h.nodes = DOMAIN g.nodes \cup {Inst} /\ NodeOf(h, Inst) = AllocNode(Inst, {Inst})
    BY <1>1, <1>2, TrackAllocFacts
  <2> QED
    BY <1>2, <2>1
<1>3. CASE Malloc
  <2>1. mem_graph' = trackAlloc(mem_graph, Inst)
    BY <1>3 DEF Malloc, HeapAlloc
  <2> QED
    BY <1>1, <1>2, <2>1
<1>4. ASSUME NEW v \in Values, Realloc(v)
      PROVE  Inst \in DOMAIN mem_graph'.nodes /\ NodeOf(mem_graph', Inst) = AllocNode(Inst, {Inst})
  <2> DEFINE g == trackFree(mem_graph, v, NoBlock)
  <2>1. mem_graph' = trackAlloc(mem_graph, Inst) \/ mem_graph' = trackAlloc(g, Inst)
    BY <1>4 DEF Realloc, HeapAlloc
  <2>2. Graph(g) /\ g.nodes = mem_graph.nodes
    BY <1>1, FreeKeepsNames, Blocks DEF SameNames
  <2> HIDE DEF g
  <2> QED
    BY <1>1, <1>2, <2>1, <2>2
<1> QED
  BY <1>3, <1>4

\* Records are made by the allocations only.
LEMMA NewRecords ==
  ASSUME BlockInv, HomeInv, MapInv, RecordsInv, Steps
  PROVE  /\ DOMAIN records \subseteq DOMAIN records' /\ DOMAIN records' \subseteq DOMAIN records \cup {Inst}
         /\ Inst \in DOMAIN records' => Malloc \/ \E v \in Values : Realloc(v)
<1>1. Inst \notin DOMAIN records
  BY InstFacts DEF RecordsInv
<1> QED
  BY <1>1, RecordsKinds DEF RecordChange

LEMMA NodesStep ==
  ASSUME BlockInv, HomeInv, MapInv, GraphInv, RecordsInv, NodesInv, Steps
  PROVE  NodesInv'
<1>1. UNCHANGED is_ffi_func
  BY Kinds DEF handleAlloca, NewValue, NoValue, Instruction, NextBlock, Quiet
<1>2. SUFFICES ASSUME is_ffi_func, NEW r \in DOMAIN records'
               PROVE  r \in DOMAIN mem_graph'.nodes /\ NodeOf(mem_graph', r).alloc_inst = r
  BY <1>1 DEF NodesInv
<1>3. CASE r \in DOMAIN records
  BY <1>2, <1>3, NodesKept DEF NodesInv, RecordsInv
<1>4. CASE r = Inst
  <2>1. r \in DOMAIN mem_graph'.nodes /\ NodeOf(mem_graph', r) = AllocNode(r, {r})
    BY <1>2, <1>4, NewRecords, NewNode
  <2> QED
    BY <2>1 DEF AllocNode
<1> QED
  BY <1>3, <1>4, NewRecords

\* Which steps add a site to the node of a recorded allocation.
SameSitesOf(r) ==
  /\ NodeOf(mem_graph', r).sites = NodeOf(mem_graph, r).sites
  /\ NodeOf(mem_graph', r).freed = NodeOf(mem_graph, r).freed

OneMoreSite(r, b) ==
  /\ NodeOf(mem_graph', r).sites = Append(NodeOf(mem_graph, r).sites, b)
  /\ NodeOf(mem_graph', r).freed

LEMMA FreeSites ==
  ASSUME NEW g, Graph(g), NEW v, NEW b \in Nat, NEW r \in DOMAIN g.nodes
  PROVE  LET h == trackFree(g, v, b) IN
         IF Tracked(g, v) /\ g.nodes[r] = g.nodes[v]
           THEN NodeOf(h, r).sites = Append(NodeOf(g, r).sites, b) /\ NodeOf(h, r).freed
           ELSE NodeOf(h, r).sites = NodeOf(g, r).sites /\ NodeOf(h, r).freed = NodeOf(g, r).freed
<1>1. g.nodes[r] \in DOMAIN g.store
  BY DEF Graph
<1> DEFINE h == trackFree(g, v, b)
<1>2. /\ h.nodes = g.nodes
      /\ \A i \in DOMAIN g.store :
           IF Tracked(g, v) /\ i = g.nodes[v]
             THEN h.store[i].sites = Append(g.store[i].sites, b) /\ h.store[i].freed
             ELSE h.store[i].sites = g.store[i].sites /\ h.store[i].freed = g.store[i].freed
  BY TrackFreeFacts
<1> HIDE DEF h
<1>3. NodeOf(h, r) = h.store[g.nodes[r]] /\ NodeOf(g, r) = g.store[g.nodes[r]]
  BY <1>2 DEF NodeOf
<1>4. IF Tracked(g, v) /\ g.nodes[r] = g.nodes[v]
        THEN NodeOf(h, r).sites = Append(NodeOf(g, r).sites, b) /\ NodeOf(h, r).freed
        ELSE NodeOf(h, r).sites = NodeOf(g, r).sites /\ NodeOf(h, r).freed = NodeOf(g, r).freed
  BY <1>1, <1>2, <1>3
<1> QED
  BY <1>4 DEF h

LEMMA ExactShape ==
  ASSUME NEW r, NEW s, s = NodeOf(mem_graph', r).sites, UNCHANGED branches,
         mem_graph'.edges = mem_graph.edges
  PROVE  ExactSites(r)' <=>
           /\ SitesFit(s)
           /\ \A p \in Paths : Given(p, r)' > 0 <=> OnPath(s, p)
           /\ SitesOnOnePath(mem_graph, s) <=> \E p \in Paths : Given(p, r)' > 1
           /\ NodeOf(mem_graph', r).freed <=> s # <<>>
           /\ (\A i \in DOMAIN s : s[i] = NoBlock) => Len(s) <= (IF block' = End THEN 1 ELSE 0)
<1>1. SitesFit(s)' <=> SitesFit(s)
  BY DEF SitesFit, FreeBlocks
<1>2. SitesOnOnePath(mem_graph', s) <=> SitesOnOnePath(mem_graph, s)
  BY DEF SitesOnOnePath, isBBReachable
<1> QED
  BY <1>1, <1>2 DEF ExactSites

LEMMA ExactKept ==
  ASSUME NEW r, ExactSites(r), SameSitesOf(r), UNCHANGED branches,
         mem_graph'.edges = mem_graph.edges, \A p \in Paths : Given(p, r)' = Given(p, r),
         block = End => block' = End
  PROVE  ExactSites(r)'
<1> DEFINE s == NodeOf(mem_graph, r).sites
<1>1. s = NodeOf(mem_graph', r).sites /\ Len(s) \in Nat
  BY LenProperties DEF SameSitesOf, ExactSites, SitesFit
<1>2. /\ SitesFit(s)
      /\ \A p \in Paths : Given(p, r)' > 0 <=> OnPath(s, p)
      /\ SitesOnOnePath(mem_graph, s) <=> \E p \in Paths : Given(p, r)' > 1
      /\ NodeOf(mem_graph', r).freed <=> s # <<>>
  BY DEF ExactSites, SameSitesOf
<1>3. (\A i \in DOMAIN s : s[i] = NoBlock) => Len(s) <= (IF block' = End THEN 1 ELSE 0)
  BY <1>1 DEF ExactSites
<1>4. PICK t : t = s
  OBVIOUS
<1> HIDE DEF s
<1> QED
  BY <1>1, <1>2, <1>3, <1>4, ExactShape

\* A free in a block, possibly with a second site without a block.
LEMMA ExactFree ==
  ASSUME NEW r, ExactSites(r), UNCHANGED branches, mem_graph.edges = Edges,
         mem_graph'.edges = mem_graph.edges, block \in FreeBlocks,
         NodeOf(mem_graph', r).freed,
         LET s == Append(NodeOf(mem_graph, r).sites, block) IN
           NodeOf(mem_graph', r).sites = s \/ NodeOf(mem_graph', r).sites = Append(s, NoBlock),
         \A p \in Paths : Given(p, r) \in Nat,
         \A p \in Paths : Given(p, r)' = IF p \in Through(block) THEN Given(p, r) + 1 ELSE Given(p, r)
  PROVE  ExactSites(r)'
<1>1. PICK old : old = NodeOf(mem_graph, r).sites
  OBVIOUS
<1>2. PICK b : b = block
  OBVIOUS
<1>3. PICK s : s = Append(old, b)
  OBVIOUS
<1>4. PICK t : t = NodeOf(mem_graph', r).sites
  OBVIOUS
<1>5. /\ SitesFit(old)
      /\ \A p \in Paths : Given(p, r) > 0 <=> OnPath(old, p)
      /\ SitesOnOnePath(mem_graph, old) <=> \E p \in Paths : Given(p, r) > 1
  BY <1>1 DEF ExactSites
<1>6. b \in FreeBlocks /\ b # NoBlock /\ Through(b) \subseteq Paths
  <2>1. b \in Entry .. Join
    BY <1>2, Blocks DEF FreeBlocks
  <2> QED
    BY <1>2, <2>1, PathsThrough, Blocks
<1>7. /\ SitesFit(s) /\ s # <<>> /\ \E i \in DOMAIN s : s[i] # NoBlock
      /\ \A p : OnPath(s, p) <=> OnPath(old, p) \/ p \in Through(b)
      /\ SitesOnOnePath(mem_graph, s) <=>
           SitesOnOnePath(mem_graph, old) \/ \E p \in Through(b) : OnPath(old, p)
  BY <1>3, <1>5, <1>6, FurtherSite, FurtherOnOnePath
<1>8. /\ SitesFit(t) /\ t # <<>> /\ \E i \in DOMAIN t : t[i] # NoBlock
      /\ \A p : OnPath(t, p) <=> OnPath(s, p)
      /\ SitesOnOnePath(mem_graph, t) <=> SitesOnOnePath(mem_graph, s)
  <2>1. t = s \/ t = Append(s, NoBlock)
    BY <1>1, <1>2, <1>3, <1>4
  <2>2. CASE t = s
    BY <1>7, <2>2
  <2>3. CASE t = Append(s, NoBlock)
    BY <1>7, <2>3, FurtherSite, FurtherOnOnePath
  <2> QED
    BY <2>1, <2>2, <2>3
<1>9. \A p \in Paths : Given(p, r)' > 0 <=> OnPath(t, p)
  BY <1>2, <1>5, <1>7, <1>8
<1>10. SitesOnOnePath(mem_graph, t) <=> \E p \in Paths : Given(p, r)' > 1
  <2>1. \A p \in Paths : Given(p, r)' > 1 <=> Given(p, r) > 1 \/ (p \in Through(b) /\ Given(p, r) > 0)
    BY <1>2
  <2> QED
    BY <1>5, <1>6, <1>7, <1>8, <2>1
<1> QED
  BY <1>4, <1>8, <1>9, <1>10, ExactShape

\* The steps that do not free leave the sites of all nodes as they are.
LEMMA FreeingSteps ==
  ASSUME BlockInv, HomeInv, MapInv, GraphInv, is_ffi_func, Steps
  PROVE  \/ SameSites(mem_graph, mem_graph') /\ UNCHANGED frees
         \/ \E v \in Values : Realloc(v) \/ FreeCall(v)
         \/ \E k \in keys : PropagateFreed(k)
<1>1. Graph(mem_graph) /\ Inst \notin DOMAIN mem_graph.nodes /\ Inst \in Nat
  BY InstFacts DEF GraphInv
<1>2. SameSites(mem_graph, mem_graph)
  BY DEF SameSites
<1>3. ASSUME handleAlloca \/ Malloc
      PROVE  SameSites(mem_graph, mem_graph')
  <2>1. mem_graph' = trackAlloc(mem_graph, Inst) \/ mem_graph' = mem_graph
    BY <1>3 DEF handleAlloca, Malloc, HeapAlloc
  <2>2. LET h == trackAlloc(mem_graph, Inst) IN SameSites(mem_graph, h)
    BY <1>1, TrackAllocFacts
  <2> QED
    BY <1>2, <2>1, <2>2
<1>4. ASSUME \/ \E s \in Variables : StoreParameter(s)
             \/ \E v, w \in Values : handlePhi(v, w)
             \/ NextBlock \/ Ended \/ UNCHANGED vars
      PROVE  SameSites(mem_graph, mem_graph')
  <2>1. UNCHANGED mem_graph
    BY <1>4 DEF StoreParameter, handlePhi, NextBlock, Ended, vars
  <2> QED
    BY <1>2, <2>1
<1>5. /\ \A s \in Variables :
           /\ handleLoad(s) => SameSites(mem_graph, mem_graph')
           /\ \A v \in Values : handleStore(v, s) => SameSites(mem_graph, mem_graph')
      /\ \A v \in Values : handleBitCastAndConversions(v) => SameSites(mem_graph, mem_graph')
  BY GraphActions DEF Copies
<1>6. UNCHANGED frees \/ \E v \in Values : Realloc(v) \/ FreeCall(v)
  BY FreesKinds
<1>7. \/ SameSites(mem_graph, mem_graph')
      \/ \E v \in Values : Realloc(v) \/ FreeCall(v)
      \/ \E k \in keys : PropagateFreed(k)
  BY <1>3, <1>4, <1>5, Zenon DEF Steps, Next
<1> QED
  BY <1>6, <1>7

\* What a recorded allocation gives back is itself.
LEMMA GivesItself ==
  ASSUME BlockInv, HomeInv, PointsInv, FreesInv, RecordsInv, NEW v \in DOMAIN records, Gives(v)
  PROVE  \A p \in Paths : \A r : Given(p, r)' =
           IF p \in Through(block) /\ r = v THEN Given(p, r) + 1 ELSE Given(p, r)
<1>1. v \in Values /\ \A p \in Through(home[v]) : points[p][v] = v
  BY DEF RecordsInv
<1>2. \A p \in Through(block) : points[p][v] = v
  BY <1>1, AvailableFacts DEF Gives
<1>3. \A p \in Paths : \A r : Given(p, r)' =
        IF p \in Through(block) /\ r = points[p][v] THEN Given(p, r) + 1 ELSE Given(p, r)
  BY GivesFacts
<1> QED
  BY <1>2, <1>3

\* The allocations that are recorded have different nodes.
LEMMA OwnNodes ==
  ASSUME NodesInv, is_ffi_func, NEW v \in DOMAIN records, NEW r \in DOMAIN records, r # v
  PROVE  /\ v \in DOMAIN mem_graph.nodes /\ r \in DOMAIN mem_graph.nodes
         /\ mem_graph.nodes[r] # mem_graph.nodes[v]
BY DEF NodesInv, NodeOf

LEMMA FreeCallSitesOf ==
  ASSUME BlockInv, HomeInv, MapInv, GraphInv, RecordsInv, CanonInv, NodesInv, is_ffi_func,
         NEW v \in DOMAIN records, FreeCall(v), NEW r \in DOMAIN records
  PROVE  IF r = v
           THEN /\ NodeOf(mem_graph', r).freed
                /\ LET s == Append(NodeOf(mem_graph, r).sites, block) IN
                   NodeOf(mem_graph', r).sites = s \/ NodeOf(mem_graph', r).sites = Append(s, NoBlock)
           ELSE SameSitesOf(r)
<1> DEFINE g == FreeInGraph(mem_graph, v)
<1>1. Graph(mem_graph) /\ block \in Nat /\ NoBlock \in Nat
  BY Blocks DEF GraphInv, BlockInv
<1>2. v \notin DOMAIN mem_graph.canonical
  BY DEF CanonInv, RecordsInv
<1>3. g = trackFree(mem_graph, v, block)
  BY <1>2 DEF FreeInGraph
<1>4. mem_graph' = trackFree(g, v, NoBlock) \/ mem_graph' = g
  BY DEF FreeCall
<1>5. /\ v \in DOMAIN mem_graph.nodes /\ r \in DOMAIN mem_graph.nodes
      /\ r # v => mem_graph.nodes[r] # mem_graph.nodes[v]
  BY OwnNodes DEF NodesInv
<1>6. /\ Graph(g) /\ g.nodes = mem_graph.nodes
      /\ IF r = v
           THEN NodeOf(g, r).sites = Append(NodeOf(mem_graph, r).sites, block) /\ NodeOf(g, r).freed
           ELSE NodeOf(g, r).sites = NodeOf(mem_graph, r).sites
                  /\ NodeOf(g, r).freed = NodeOf(mem_graph, r).freed
  BY <1>1, <1>3, <1>5, FreeSites, FreeKeepsNames DEF SameNames, Tracked
<1> HIDE DEF g
<1>7. CASE mem_graph' = g
  BY <1>6, <1>7 DEF SameSitesOf
<1>8. CASE mem_graph' = trackFree(g, v, NoBlock)
  <2>1. LET h == trackFree(g, v, NoBlock) IN
        IF r = v
          THEN NodeOf(h, r).sites = Append(NodeOf(g, r).sites, NoBlock) /\ NodeOf(h, r).freed
          ELSE NodeOf(h, r).sites = NodeOf(g, r).sites /\ NodeOf(h, r).freed = NodeOf(g, r).freed
    BY <1>1, <1>5, <1>6, FreeSites DEF Tracked
  <2> QED
    BY <1>6, <1>8, <2>1 DEF SameSitesOf
<1> QED
  BY <1>4, <1>7, <1>8

LEMMA ReallocSitesOf ==
  ASSUME BlockInv, HomeInv, MapInv, GraphInv, NodesInv, is_ffi_func,
         NEW v \in DOMAIN records, Realloc(v), NEW r \in DOMAIN records, r # v
  PROVE  SameSitesOf(r)
<1> DEFINE g == trackFree(mem_graph, v, NoBlock)
<1>1. /\ Graph(mem_graph) /\ Inst \notin DOMAIN mem_graph.nodes /\ Inst \in Nat /\ NoBlock \in Nat
  BY InstFacts, Blocks DEF GraphInv
<1>2. mem_graph' = trackAlloc(mem_graph, Inst) \/ mem_graph' = trackAlloc(g, Inst)
  BY DEF Realloc, HeapAlloc
<1>3. /\ r \in DOMAIN mem_graph.nodes /\ mem_graph.nodes[r] # mem_graph.nodes[v]
  BY OwnNodes
<1>4. /\ Graph(g) /\ g.nodes = mem_graph.nodes
      /\ NodeOf(g, r).sites = NodeOf(mem_graph, r).sites
      /\ NodeOf(g, r).freed = NodeOf(mem_graph, r).freed
  BY <1>1, <1>3, FreeSites, FreeKeepsNames DEF SameNames
<1> HIDE DEF g
<1>5. ASSUME NEW h, Graph(h), h.nodes = mem_graph.nodes, mem_graph' = trackAlloc(h, Inst)
      PROVE  /\ NodeOf(mem_graph', r).sites = NodeOf(h, r).sites
             /\ NodeOf(mem_graph', r).freed = NodeOf(h, r).freed
  <2>1. LET k == trackAlloc(h, Inst) IN Grows(h, k, {}) /\ SameSites(h, k)
    BY <1>1, <1>5, TrackAllocFacts
  <2>2. Grows(h, mem_graph', {}) /\ SameSites(h, mem_graph')
    BY <1>5, <2>1
  <2>3. h.nodes[r] \in DOMAIN h.store /\ mem_graph'.nodes[r] = h.nodes[r]
    BY <1>3, <1>5, <2>2 DEF Grows, Graph
  <2> QED
    BY <2>2, <2>3 DEF SameSites, NodeOf
<1> QED
  BY <1>1, <1>2, <1>4, <1>5 DEF SameSitesOf

LEMMA DirectBefore ==
  ASSUME BlockInv, HomeInv, MapInv, FreesInv, SitesInv, RecordsInv, PointsInv, Steps, Direct'
  PROVE  /\ Direct /\ resized \subseteq resized' /\ DOMAIN free_sites \subseteq DOMAIN free_sites'
         /\ \A v \in Values : v \in resized' \/ v \in DOMAIN free_sites' => v \in DOMAIN records
<1>1. /\ Inst \notin Values /\ resized \subseteq Values /\ DOMAIN free_sites \subseteq Values
      /\ DOMAIN records' \subseteq DOMAIN records \cup {Inst}
  BY InstFacts, NewRecords DEF FreesInv, SitesInv
<1>2. UNCHANGED is_ffi_func
  BY Kinds DEF handleAlloca, NewValue, NoValue, Instruction, NextBlock, Quiet
<1>3. resized \subseteq resized'
  BY FreesStep
<1>4. DOMAIN free_sites \subseteq DOMAIN free_sites'
  <2>1. CASE UNCHANGED free_sites
    BY <2>1
  <2>2. ASSUME NEW v \in Values, FreeCall(v)
        PROVE  DOMAIN free_sites \subseteq DOMAIN free_sites'
    BY <2>2 DEF FreeCall, WithEntry
  <2> QED
    BY <2>1, <2>2, SitesKinds DEF doubles
<1> HIDE DEF Values, Inst
<1> QED
  BY <1>1, <1>2, <1>3, <1>4 DEF Direct

LEMMA ExactStep ==
  ASSUME BlockInv, HomeInv, MapInv, PointsInv, FreesInv, RecordsInv, CanonInv, SitesInv, GraphInv,
         NodesInv, ExactInv, Steps
  PROVE  ExactInv'
<1>1. SUFFICES ASSUME Direct', NEW r \in DOMAIN records', r \notin resized'
               PROVE  ExactSites(r)'
  BY DEF ExactInv
<1>2. /\ Direct /\ is_ffi_func /\ resized \subseteq resized'
      /\ \A v \in Values : v \in resized' \/ v \in DOMAIN free_sites' => v \in DOMAIN records
  BY <1>1, DirectBefore DEF Direct
<1>3. UNCHANGED branches /\ mem_graph.edges = Edges /\ mem_graph'.edges = mem_graph.edges
  <2>1. UNCHANGED branches
    BY Kinds DEF handleAlloca, NewValue, NoValue, Instruction, NextBlock, Quiet
  <2>2. mem_graph.edges = Edges /\ mem_graph'.edges = Edges'
    BY GraphStep DEF GraphInv
  <2>3. Edges' = Edges
    BY <2>1 DEF Edges, Entry, Left, Right, Join
  <2> QED
    BY <2>1, <2>2, <2>3
<1>4. block = End => block' = End
  <2>1. block <= block' /\ block \in 1 .. 5 /\ block' \in 1 .. 5
    BY HomeStep, BlockStep, Blocks DEF BlockInv
  <2> QED
    BY <2>1, Blocks
<1>5. \A p \in Paths : \A o : Given(p, o) \in Nat
  BY GivenFacts
<1>6. CASE r \in DOMAIN records
  <2>1. /\ ExactSites(r) /\ r \in DOMAIN mem_graph.nodes /\ Graph(mem_graph)
        /\ r \in Values
    BY <1>1, <1>2, <1>6 DEF ExactInv, NodesInv, GraphInv, RecordsInv
  <2>2. ASSUME SameSitesOf(r), \A p \in Paths : Given(p, r)' = Given(p, r)
        PROVE  ExactSites(r)'
    BY <1>3, <1>4, <2>1, <2>2, ExactKept
  <2>3. ASSUME UNCHANGED frees
        PROVE  \A p \in Paths : Given(p, r)' = Given(p, r)
    BY <2>3 DEF Given
  <2>4. CASE SameSites(mem_graph, mem_graph') /\ UNCHANGED frees
    <3>1. mem_graph'.nodes[r] = mem_graph.nodes[r] /\ mem_graph.nodes[r] \in DOMAIN mem_graph.store
      BY <2>1, NodesKept DEF Graph
    <3>2. SameSitesOf(r)
      BY <2>4, <3>1 DEF SameSites, SameSitesOf, NodeOf
    <3> QED
      BY <2>2, <2>3, <2>4, <3>2
  <2>5. ASSUME NEW v \in Values, Realloc(v)
        PROVE  ExactSites(r)'
    <3>1. Gives(v) /\ v \in resized' /\ v \in DOMAIN records /\ r # v
      BY <1>1, <1>2, <2>5 DEF Realloc, Instruction, Gives
    <3>2. \A p \in Paths : Given(p, r)' = Given(p, r)
      BY <3>1, GivesItself
    <3>3. SameSitesOf(r)
      BY <1>2, <1>6, <2>5, <3>1, ReallocSitesOf
    <3> QED
      BY <2>2, <3>2, <3>3
  <2>6. ASSUME NEW v \in Values, FreeCall(v)
        PROVE  ExactSites(r)'
    <3>1. Gives(v) /\ v \in DOMAIN free_sites' /\ block # End
      BY <2>6 DEF FreeCall, Instruction, Gives, WithEntry
    <3>2. v \in DOMAIN records
      BY <1>2, <3>1
    <3>3. \A p \in Paths : Given(p, r)' =
            IF p \in Through(block) /\ r = v THEN Given(p, r) + 1 ELSE Given(p, r)
      BY <3>1, <3>2, GivesItself
    <3>4. CASE r = v
      <4>1. block \in FreeBlocks
        BY <3>1, Blocks DEF BlockInv, FreeBlocks
      <4>2. /\ NodeOf(mem_graph', r).freed
            /\ LET s == Append(NodeOf(mem_graph, r).sites, block) IN
               NodeOf(mem_graph', r).sites = s \/ NodeOf(mem_graph', r).sites = Append(s, NoBlock)
        BY <1>2, <1>6, <2>6, <3>2, <3>4, FreeCallSitesOf
      <4>3. \A p \in Paths : Given(p, r)' =
              IF p \in Through(block) THEN Given(p, r) + 1 ELSE Given(p, r)
        BY <3>3, <3>4
      <4> QED
        BY <1>3, <1>5, <2>1, <4>1, <4>2, <4>3, ExactFree
    <3>5. CASE r # v
      BY <1>2, <1>6, <2>2, <2>6, <3>2, <3>3, <3>5, FreeCallSitesOf
    <3> QED
      BY <3>4, <3>5
  <2>7. ASSUME NEW k \in keys, PropagateFreed(k)
        PROVE  ExactSites(r)'
    <3> DEFINE marked == {i \in {mem_graph.nodes[a] : a \in Aliasers(k)} : ~mem_graph.store[i].freed}
               n == mem_graph.nodes[r]
    <3>1. mem_graph' = WithMarked(mem_graph, marked) \/ UNCHANGED mem_graph
      BY <2>7 DEF PropagateFreed, WithMarked
    <3>2. UNCHANGED frees /\ block' = block /\ block = End
      BY <2>7 DEF PropagateFreed, history, BlockInv
    <3>3. n \in DOMAIN mem_graph.store /\ (n \in marked => ~ NodeOf(mem_graph, r).freed)
      BY <2>1 DEF Graph, NodeOf
    <3> HIDE DEF marked
    <3>4. CASE UNCHANGED mem_graph
      BY <2>2, <2>3, <3>2, <3>4 DEF SameSitesOf
    <3>5. CASE mem_graph' = WithMarked(mem_graph, marked)
      <4>1. /\ mem_graph'.nodes = mem_graph.nodes
            /\ IF n \in marked
                 THEN /\ mem_graph'.store[n].sites = Append(mem_graph.store[n].sites, NoBlock)
                      /\ mem_graph'.store[n].freed
                 ELSE /\ mem_graph'.store[n].sites = mem_graph.store[n].sites
                      /\ mem_graph'.store[n].freed = mem_graph.store[n].freed
        BY <2>1, <3>3, <3>5, MarkedNodes
      <4>2. CASE n \notin marked
        <5>1. SameSitesOf(r)
          BY <4>1, <4>2 DEF SameSitesOf, NodeOf
        <5> QED
          BY <2>2, <2>3, <3>2, <5>1
      <4>3. CASE n \in marked
        <5>1. PICK old : old = NodeOf(mem_graph, r).sites
          OBVIOUS
        <5>2. PICK t : t = NodeOf(mem_graph', r).sites
          OBVIOUS
        <5>3. /\ old = <<>> /\ SitesFit(old)
              /\ \A p \in Paths : Given(p, r)' > 0 <=> OnPath(old, p)
              /\ SitesOnOnePath(mem_graph, old) <=> \E p \in Paths : Given(p, r)' > 1
          BY <2>1, <2>3, <3>2, <3>3, <4>3, <5>1 DEF ExactSites
        <5>4. t = Append(old, NoBlock) /\ NodeOf(mem_graph', r).freed
          BY <4>1, <4>3, <5>1, <5>2 DEF NodeOf
        <5>5. Len(old) = 0 /\ NoBlock \in {NoBlock} \cup FreeBlocks
          BY <5>3, EmptySeq
        <5>6. LET s == Append(old, NoBlock) IN
              /\ SitesFit(s) /\ s # <<>> /\ Len(s) = Len(old) + 1
              /\ \A p : OnPath(s, p) <=> OnPath(old, p) \/ (NoBlock # NoBlock /\ p \in Through(NoBlock))
          BY <5>3, <5>5, FurtherSite
        <5>7. /\ SitesFit(t) /\ t # <<>> /\ Len(t) = 1
              /\ \A p : OnPath(t, p) <=> OnPath(old, p)
          BY <5>4, <5>5, <5>6
        <5>8. SitesOnOnePath(mem_graph, t) <=> SitesOnOnePath(mem_graph, old)
          BY <1>3, <5>3, <5>4, <5>5, FurtherOnOnePath
        <5>9. \A p \in Paths : Given(p, r)' > 0 <=> OnPath(t, p)
          BY <5>3, <5>7
        <5>10. SitesOnOnePath(mem_graph, t) <=> \E p \in Paths : Given(p, r)' > 1
          BY <5>3, <5>8
        <5>11. Len(t) <= (IF block' = End THEN 1 ELSE 0)
          BY <3>2, <5>7
        <5> QED
          BY <1>3, <5>2, <5>4, <5>7, <5>9, <5>10, <5>11, ExactShape
      <4> QED
        BY <4>2, <4>3
    <3> QED
      BY <3>1, <3>4, <3>5
  <2> QED
    BY <1>2, <2>4, <2>5, <2>6, <2>7, FreeingSteps
<1>7. CASE r \notin DOMAIN records
  <2>1. r = Inst /\ (Malloc \/ \E v \in Values : Realloc(v))
    BY <1>1, <1>7, NewRecords
  <2>2. NodeOf(mem_graph', r).sites = <<>> /\ NodeOf(mem_graph', r).freed = FALSE
    BY <1>2, <2>1, NewNode DEF AllocNode
  <2>3. \A p \in Paths : Given(p, r)' = 0
    <3>1. r \notin Values \cup {Parameter} /\ r \notin Values
      BY <2>1, InstFacts, Blocks
    <3>2. \A p \in Paths : r \notin DOMAIN frees[p]
      BY <3>1 DEF FreesInv
    <3>3. CASE UNCHANGED frees
      BY <3>2, <3>3 DEF Given
    <3>4. ASSUME NEW v \in Values, Gives(v)
          PROVE  \A p \in Paths : Given(p, r)' = 0
      <4>1. \A p \in Through(block) : points[p][v] \in Values \cup {Parameter}
        BY <3>4, AvailableFacts DEF Gives
      <4>2. \A p \in Paths : Given(p, r)' =
              IF p \in Through(block) /\ r = points[p][v] THEN Given(p, r) + 1 ELSE Given(p, r)
        BY <3>4, GivesFacts
      <4> QED
        BY <3>1, <3>2, <4>1, <4>2 DEF Given
    <3> QED
      BY <3>3, <3>4, FreesKinds
  <2>4. PICK t : t = NodeOf(mem_graph', r).sites
    OBVIOUS
  <2>5. t = <<>> /\ DOMAIN t = {} /\ Len(t) = 0 /\ SitesFit(t)
    <3>1. t = <<>>
      BY <2>2, <2>4
    <3>2. t \in Seq(Nat) /\ Len(t) = 0
      BY <3>1, EmptySeq
    <3>3. DOMAIN t = {}
      BY <3>1
    <3> QED
      BY <3>1, <3>2, <3>3 DEF SitesFit
  <2>6. ~ SitesOnOnePath(mem_graph, t) /\ \A p \in Paths : ~ OnPath(t, p)
    BY <2>5 DEF SitesOnOnePath, OnPath
  <2> QED
    BY <1>3, <2>2, <2>3, <2>4, <2>5, <2>6, ExactShape
<1> QED
  BY <1>6, <1>7

\* What isDoubleFreedOnSamePath then answers.
LEMMA ExactAnswer ==
  ASSUME NodesInv, ExactInv
  PROVE  DirectFreesAreExact
<1>1. SUFFICES ASSUME Direct, NEW v \in DOMAIN records \ resized
               PROVE  isDoubleFreedOnSamePath(mem_graph, v) <=> \E p \in Paths : Given(p, v) > 1
  BY DEF DirectFreesAreExact, Direct
<1> DEFINE s == NodeOf(mem_graph, v).sites
<1>2. /\ v \in DOMAIN mem_graph.nodes /\ SitesFit(s)
      /\ SitesOnOnePath(mem_graph, s) <=> \E p \in Paths : Given(p, v) > 1
      /\ (\A i \in DOMAIN s : s[i] = NoBlock) => Len(s) <= (IF block = End THEN 1 ELSE 0)
  BY <1>1 DEF Direct, NodesInv, ExactInv, ExactSites
<1>3. Len(s) \in Nat /\ DOMAIN s = 1 .. Len(s)
  BY <1>2, LenProperties DEF SitesFit
<1>4. isDoubleFreedOnSamePath(mem_graph, v) <=>
        /\ Len(s) >= 2
        /\ IF \A i \in DOMAIN s : s[i] = NoBlock
             THEN NodeOf(mem_graph, v).freed ELSE SitesOnOnePath(mem_graph, s)
  BY <1>2 DEF isDoubleFreedOnSamePath, Tracked
<1> HIDE DEF s
<1>5. SitesOnOnePath(mem_graph, s) => Len(s) >= 2 /\ ~ \A i \in DOMAIN s : s[i] = NoBlock
  BY <1>3 DEF SitesOnOnePath
<1>6. (\A i \in DOMAIN s : s[i] = NoBlock) => ~ Len(s) >= 2
  BY <1>2, <1>3
<1> QED
  BY <1>2, <1>4, <1>5, <1>6

-----------------------------------------------------------------------------
(* The invariants together.                                                 *)

IInv ==
  /\ BlockInv /\ HomeInv /\ MapInv /\ TextInv /\ PointsInv /\ FreesInv /\ RecordsInv
  /\ CanonInv /\ SitesInv /\ GraphInv /\ HoldersInv /\ FreedIsSeen /\ RecordFreedIsFreed
  /\ NodesInv /\ ExactInv

LEMMA InitInv == Init => IInv
<1> SUFFICES ASSUME Init
             PROVE  IInv
  OBVIOUS
<1>1. /\ is_ffi_func \in BOOLEAN /\ branches \in BOOLEAN
      /\ block = 1 /\ start = 0 /\ count = 0 /\ keys = {}
      /\ DOMAIN pointer_map = {} /\ mem_graph = NewGraph(Edges) /\ DOMAIN records = {}
      /\ DOMAIN free_sites = {} /\ detected = {} /\ reported = {} /\ texts = {}
      /\ Values = {} /\ resized = {}
      /\ DOMAIN points = Paths /\ DOMAIN frees = Paths
      /\ \A p \in Paths : DOMAIN points[p] = {} /\ DOMAIN frees[p] = {}
  BY Blocks DEF Init, Values
<1> HIDE DEF Values
<1>2. /\ DOMAIN mem_graph.nodes = {} /\ DOMAIN mem_graph.canonical = {}
      /\ mem_graph.store = <<>> /\ mem_graph.edges = Edges
      /\ DOMAIN mem_graph = {"nodes", "store", "canonical", "contents", "edges"}
  BY <1>1 DEF NewGraph
<1>3. BlockInv /\ HomeInv
  BY <1>1, Blocks, LifetimeBounds DEF BlockInv, HomeInv
<1>4. MapInv
  <2>1. Variables \cap 1 .. count = {}
    BY <1>1
  <2> QED
    BY <1>1, <2>1 DEF MapInv
<1>5. TextInv
  BY <1>1 DEF TextInv, Owners
<1>6. PointsInv /\ FreesInv /\ RecordsInv /\ SitesInv
  BY <1>1 DEF PointsInv, FreesInv, RecordsInv, SitesInv
<1>7. CanonInv
  BY <1>2 DEF CanonInv
<1>8. GraphInv
  <2>1. mem_graph.store \in Seq(Node)
    <3> HIDE DEF Node
    <3> QED
      BY <1>2, EmptySeq
  <2> QED
    BY <1>1, <1>2, <2>1 DEF GraphInv, Graph
<1>9. HoldersInv /\ FreedIsSeen
  BY <1>1, Blocks DEF HoldersInv, FreedIsSeen, Holders
<1>10. RecordFreedIsFreed /\ NodesInv /\ ExactInv
  BY <1>1 DEF RecordFreedIsFreed, NodesInv, ExactInv
<1> QED
  BY <1>3, <1>4, <1>5, <1>6, <1>7, <1>8, <1>9, <1>10 DEF IInv

LEMMA StepInv == IInv /\ [Next]_vars => IInv'
<1> SUFFICES ASSUME IInv, Steps
             PROVE  IInv'
  BY DEF Steps
<1>1. /\ BlockInv /\ HomeInv /\ MapInv /\ TextInv /\ PointsInv /\ FreesInv /\ RecordsInv
      /\ CanonInv /\ SitesInv /\ GraphInv /\ HoldersInv /\ FreedIsSeen /\ RecordFreedIsFreed
      /\ NodesInv /\ ExactInv
  BY DEF IInv
<1>2. BlockInv' /\ HomeInv' /\ MapInv' /\ TextInv'
  BY <1>1, BlockStep, HomeStep, MapStep, TextStep
<1>3. PointsInv' /\ FreesInv' /\ RecordsInv'
  BY <1>1, PointsStep, FreesStep, RecordsStep
<1>4. CanonInv' /\ SitesInv' /\ GraphInv'
  BY <1>1, CanonStep, SitesStep, GraphStep
<1>5. HoldersInv' /\ FreedIsSeen' /\ RecordFreedIsFreed'
  BY <1>1, HoldersStep, FreedIsSeenStep, RecordFreedStep
<1>6. NodesInv' /\ ExactInv'
  BY <1>1, NodesStep, ExactStep
<1> QED
  BY <1>2, <1>3, <1>4, <1>5, <1>6 DEF IInv

\* In every reachable state.
LEMMA Invariants == Spec => []IInv
<1>1. Init => IInv
  BY InitInv
<1>2. IInv /\ [Next]_vars => IInv'
  BY StepInv
<1> QED
  BY <1>1, <1>2, PTL DEF Spec

-----------------------------------------------------------------------------
(* What follows for the pass.                                               *)

\* The maps of the pass fit together: every value has an entry with a text of its
\* function, every node exists, sites and records are of values.
THEOREM TypeCorrect == Spec => []TypeOK
<1>1. IInv => TypeOK
  BY DEF IInv, BlockInv, MapInv, GraphInv, Graph, RecordsInv, SitesInv, TypeOK
<1> QED
  BY <1>1, Invariants, PTL

\* In a function without branches, all names of an object end at one node of the
\* graph, however long the function is and however often its variables change.
THEOREM NamesShareNode == Spec => []SameObjectSameNode
<1>1. IInv => SameObjectSameNode
  BY DEF IInv, HoldersInv, SameObjectSameNode
<1> QED
  BY <1>1, Invariants, PTL

\* In such a function a freed object is known to be freed under each of its names:
\* handleFree marks them all, and copies that are made later copy the mark.
THEOREM FreesSeen == Spec => []FreedIsSeen
<1>1. IInv => FreedIsSeen
  BY DEF IInv
<1> QED
  BY <1>1, Invariants, PTL

\* GlobalAllocTracker never holds an allocation for freed that no path frees, until
\* the propagation at the end of the pass.
THEOREM RecordsAreTrue == Spec => []RecordFreedIsFreed
<1>1. IInv => RecordFreedIsFreed
  BY DEF IInv
<1> QED
  BY <1>1, Invariants, PTL

\* checkDoubleFreeViolation compares each free of a value with the one before it
\* only; what is freed twice on one path is found nevertheless, and stays found.
THEOREM DoubleFreesDetected == Spec => []DoubleFreesAreDetected
<1>1. IInv => DoubleFreesAreDetected
  BY SitesDetected DEF IInv
<1> QED
  BY <1>1, Invariants, PTL

\* As long as objects are freed and resized by the values that allocated them,
\* isDoubleFreedOnSamePath says of each exactly whether a path frees it twice:
\* no false alarm for frees on two branches, and none missed.
THEOREM DirectFreesExact == Spec => []DirectFreesAreExact
<1>1. IInv => DirectFreesAreExact
  BY ExactAnswer DEF IInv
<1> QED
  BY <1>1, Invariants, PTL

LEMMA OwnersCounted ==
  ASSUME BlockInv, HomeInv, MapInv, TextInv
  PROVE  TextsOwnedOnce
<1> DEFINE f == [v \in Owners |-> pointer_map[v].text]
<1>1. /\ texts = {pointer_map[v].text : v \in Owners}
      /\ \A v, w \in Owners : pointer_map[v].text = pointer_map[w].text => v = w
  BY DEF TextInv
<1>2. IsFiniteSet(Owners)
  <2>1. IsFiniteSet(1 .. count)
    BY FS_Interval DEF BlockInv
  <2>2. Owners \subseteq 1 .. count
    BY InstFacts DEF Owners
  <2> QED
    BY <2>1, <2>2, FS_Subset
<1>3. f \in Bijection(Owners, texts)
  <2>1. f \in [Owners -> texts]
    BY <1>1
  <2>2. f \in Injection(Owners, texts)
    BY <1>1, <2>1 DEF Injection, IsInjective
  <2>3. f \in Surjection(Owners, texts)
    BY <1>1, <2>1 DEF Surjection
  <2> QED
    BY <2>2, <2>3 DEF Bijection
<1>4. Cardinality(texts) = Cardinality(Owners)
  BY <1>2, <1>3, FS_Bijection DEF ExistsBijection
<1> QED
  BY <1>1, <1>4 DEF TextsOwnedOnce, Owners

\* Every allocated description has one entry that owns it, through all the copies
\* and replacements of entries: the release at the end frees each text once.
THEOREM TextsReleasedOnce == Spec => []TextsOwnedOnce
<1>1. IInv => TextsOwnedOnce
  BY OwnersCounted DEF IInv
<1> QED
  BY <1>1, Invariants, PTL
=============================================================================
