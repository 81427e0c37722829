--------------------------- MODULE PointerLifetime ---------------------------
(***************************************************************************)
(* The pointer-lifetime pass over one function (PtrLifetimePass.           *)
(* analyzeFunction): the handlers of its instructions, in the order of the *)
(* blocks in the IR, over the pointer map of the function, the memory      *)
(* graph and the allocation records of the module; then the propagation of *)
(* freed marks that ends the pass.                                         *)
(*                                                                         *)
(* The function is any short one of this shape: allocas for its variables, *)
(* then calls of malloc, realloc and free, stores to and loads from the    *)
(* variables, casts, and if it branches a left and a right block and a     *)
(* join that may start with a phi.  What the function does when it runs is *)
(* kept beside what the pass believes, for each path through it.           *)
(*                                                                         *)
(* Left out: allocation sites and descriptions of entries (but not who     *)
(* owns the text of a description), resource handles and dlsym, call       *)
(* edges, functions of more than 50000 instructions.                       *)
(***************************************************************************)
EXTENDS MemoryGraph

CONSTANTS Allocas,     \* bound: local variables
          LineInsts,   \* bound: instructions after them, in one block
          BranchInsts  \* bound: the same in a function that branches

ASSUME LifetimeBounds == Allocas \in Nat /\ LineInsts \in Nat /\ BranchInsts \in Nat

VARIABLES
  is_ffi_func,  \* the function takes part in the memory graph
  branches,     \* its shape
  block,        \* the block the pass is in
  start,        \* number of instructions before that block
  count,        \* number of instructions before this one
  pointer_map,  \* what the pass believes of each value
  mem_graph,    \* ctx.memory_graph
  records,      \* GlobalAllocTracker: allocations, and whether they are freed
  free_sites,   \* the blocks in which each value is freed
  detected,     \* history: values found to be freed twice, whether reported or not
  reported,     \* values reported as freed twice
  texts,        \* descriptions allocated and not released yet
  keys,         \* keys of mem_graph.nodes the propagation has still to visit
  home,         \* history: the block of each value that is no variable
  points,       \* history: on each path, the object of each value and variable
  frees,        \* history: on each path, how often each object was given back
  resized       \* history: values given to realloc

runVars == <<is_ffi_func, branches>>
doubles == <<free_sites, detected, reported>>
history == <<home, points, frees, resized>>
vars == <<is_ffi_func, branches, block, start, count, pointer_map, mem_graph, records,
          free_sites, detected, reported, texts, keys, home, points, frees, resized>>

Entry == 1  Left == 2  Right == 3  Join == 4  End == 5
Parameter == 0    \* the object a parameter points to

Variables == 1..Allocas
Paths == {Left, Right}    \* named by the block they go through
Edges == IF branches THEN {<<Entry, Left>>, <<Entry, Right>>, <<Left, Join>>, <<Right, Join>>}
                     ELSE {}
Through(b) == {p \in Paths : b \in {Entry, p, Join}}
Inst == count + 1
Available(v) == home[v] \in {Entry, block}    \* home[v] dominates this block
Values == DOMAIN home
Holding(v, b) == \A p \in Through(b) : v \in DOMAIN points[p]

-----------------------------------------------------------------------------
(* The pointer map.  Of an entry (PtrInfo): freed, double_free_detected,   *)
(* the block the pass was in, its source_desc, and needs_free, that is     *)
(* whether the entry owns that text.  A text is named by the instruction   *)
(* that allocated it.                                                      *)

NewInfo == [freed |-> FALSE, twice |-> FALSE, text |-> Inst, owns |-> TRUE, bb |-> block]

OwnedText(v) == IF v \in DOMAIN pointer_map /\ pointer_map[v].owns
                  THEN {pointer_map[v].text} ELSE {}

\* The text of the entry that is replaced is released if the entry owns it.
putPtrInfo(v, info) ==
  /\ pointer_map' = WithEntry(pointer_map, v, info)
  /\ texts' = (texts \ OwnedText(v)) \cup (IF info.owns THEN {info.text} ELSE {})

\* Mutant: the copy in the same block claims the text as well.
MutCopiedInfo(v) ==
  LET same_bb == pointer_map[v].bb = block
  IN  [pointer_map[v] EXCEPT !.bb = block, !.text = IF same_bb THEN @ ELSE Inst]

\* A copy made in the block of the original shares its text.
CopiedInfo(v) ==
  LET same_bb == pointer_map[v].bb = block
  IN  [pointer_map[v] EXCEPT !.bb = block, !.owns = ~same_bb,
                             !.text = IF same_bb THEN @ ELSE Inst]

\* The function is not asked whether it takes part in the memory graph.
propagateOrigin(graph, v) ==
  /\ putPtrInfo(Inst, CopiedInfo(v))
  /\ mem_graph' = trackAlias(graph, Inst, v)

MarkInfos(map, marked) ==
  [v \in DOMAIN map |-> IF v \in marked /\ ~map[v].twice
                          THEN [map[v] EXCEPT !.freed = TRUE] ELSE map[v]]

markFreed(recs, v) == IF v \in DOMAIN recs THEN [recs EXCEPT ![v] = TRUE] ELSE recs

-----------------------------------------------------------------------------
(* What the function does when it runs.                                    *)

PointTo(v, object) ==
  points' = [p \in Paths |-> IF p \in Through(block) THEN WithEntry(points[p], v, object[p])
                                                     ELSE points[p]]
GiveBack(v) ==
  frees' = [p \in Paths |->
              IF p \in Through(block)
                THEN LET o == points[p][v]
                     IN  WithEntry(frees[p], o, 1 + IF o \in DOMAIN frees[p] THEN frees[p][o] ELSE 0)
                ELSE frees[p]]

Define(object) == home' = WithEntry(home, Inst, block) /\ PointTo(Inst, object)

-----------------------------------------------------------------------------
(* The handlers.                                                           *)

Instruction == /\ block # End
               /\ count >= Allocas
               /\ count < Allocas + (IF branches THEN BranchInsts ELSE LineInsts)
               /\ count' = count + 1
               /\ UNCHANGED <<is_ffi_func, branches, block, start, keys>>

handleAlloca ==
  /\ count < Allocas /\ count' = count + 1
  /\ putPtrInfo(Inst, NewInfo)
  /\ mem_graph' = IF is_ffi_func THEN trackAlloc(mem_graph, Inst) ELSE mem_graph
  /\ UNCHANGED <<is_ffi_func, branches, block, start, keys, records, doubles>>
  /\ UNCHANGED history

HeapAlloc(map, graph, recs) ==
  /\ pointer_map' = WithEntry(map, Inst, NewInfo)
  /\ texts' = texts \cup {Inst}
  /\ mem_graph' = IF is_ffi_func THEN trackAlloc(graph, Inst) ELSE graph
  /\ records' = WithEntry(recs, Inst, FALSE)
  /\ Define([p \in Paths |-> Inst])
  /\ UNCHANGED doubles

Malloc == /\ Instruction
          /\ HeapAlloc(pointer_map, mem_graph, records)
          /\ UNCHANGED <<frees, resized>>

\* Only the old pointer itself is marked, not its aliases.
Realloc(v) ==
  /\ Instruction /\ Available(v)
  /\ IF pointer_map[v].freed
       THEN HeapAlloc(pointer_map, mem_graph, records)
       ELSE HeapAlloc([pointer_map EXCEPT ![v].freed = TRUE],
                      trackFree(mem_graph, v, NoBlock), markFreed(records, v))
  /\ GiveBack(v)
  /\ resized' = resized \cup {v}

handleLoad(s) ==
  /\ Instruction /\ Holding(s, block)
  /\ propagateOrigin(IF is_ffi_func /\ s \in mem_graph.contents
                       THEN trackAlloc(mem_graph, Inst) ELSE mem_graph, s)
  /\ Define([p \in Through(block) |-> points[p][s]])
  /\ UNCHANGED <<records, doubles, frees, resized>>

handleStore(v, s) ==
  /\ Instruction /\ Available(v)
  /\ putPtrInfo(s, [pointer_map[v] EXCEPT !.text = Inst, !.owns = TRUE])
  /\ mem_graph' = IF is_ffi_func THEN trackAlias(recordContentSource(mem_graph, s), s, v)
                                 ELSE mem_graph
  /\ PointTo(s, [p \in Through(block) |-> points[p][v]])
  /\ UNCHANGED <<records, doubles, home, frees, resized>>

\* A parameter is not in the pointer map, and its kind is unknown: the entry
\* and the node of the variable stay those of what it held before.
StoreParameter(s) ==
  /\ Instruction
  /\ PointTo(s, [p \in Paths |-> Parameter])
  /\ UNCHANGED <<pointer_map, mem_graph, records, doubles, texts, home, frees, resized>>

handleBitCastAndConversions(v) ==
  /\ Instruction /\ Available(v)
  /\ propagateOrigin(mem_graph, v)
  /\ Define([p \in Through(block) |-> points[p][v]])
  /\ UNCHANGED <<records, doubles, frees, resized>>

\* One entry for both values, in the pointer map only.
handlePhi(v, w) ==
  /\ Instruction /\ block = Join /\ count = start
  /\ home[v] \in {Entry, Left} /\ home[w] \in {Entry, Right}
  /\ putPtrInfo(Inst, NewInfo)
  /\ Define([p \in Paths |-> points[p][IF p = Left THEN v ELSE w]])
  /\ UNCHANGED <<mem_graph, records, doubles, frees, resized>>

-----------------------------------------------------------------------------
(* free                                                                    *)

\* The first free of an entry that is freed already changes its description.
FreedInfo(info) ==
  IF info.freed /\ ~info.twice THEN [info EXCEPT !.twice = TRUE, !.text = Inst, !.owns = TRUE]
                               ELSE [info EXCEPT !.freed = TRUE]

\* Mutant: the aliases of the freed value are not marked.
MutAliasesOf(g, v) == IF v \in DOMAIN g.canonical THEN {g.canonical[v]} ELSE {}

\* The values marked with v: the aliases of its node and its canonical value.
AliasesOf(g, v) ==
  (IF Tracked(g, v) THEN NodeOf(g, v).aliases ELSE {})
    \cup (IF v \in DOMAIN g.canonical THEN {g.canonical[v]} ELSE {})

\* Mutant: the allocation of the node is marked, whatever the value is now.
MutFreeRecords(recs, g, v) ==
  IF is_ffi_func /\ Tracked(g, v) THEN markFreed(recs, NodeOf(g, v).alloc_inst)
                                  ELSE markFreed(recs, v)

FreeRecords(recs, g, v) ==
  IF is_ffi_func /\ v \in DOMAIN g.canonical
    THEN markFreed(markFreed(recs, v), g.canonical[v])
    ELSE markFreed(recs, v)

\* trackFree of the value and of its canonical value.
FreeInGraph(g, v) ==
  LET h == trackFree(g, v, block)
  IN  IF is_ffi_func /\ v \in DOMAIN g.canonical THEN trackFree(h, g.canonical[v], block) ELSE h

\* Mutant: two blocks are exclusive unless they are the same.
MutMutuallyExclusive(b1, b2) == {b1 # b2}

\* areMutuallyExclusive asks LLVM for the number of successors of the block
\* instead of its terminator, which is undefined: for two successors of one
\* branch the answer may be either.
MutuallyExclusive(b1, b2) == IF {b1, b2} = {Left, Right} THEN BOOLEAN ELSE {FALSE}

\* isRCPatternFree looks for a comparison of a pointer with an integer constant;
\* the operands of a comparison have one type, so there is none.
isRCPatternFree(b) == FALSE

\* checkDoubleFreeViolation compares the last two sites of a value.
SeesTwice(sites, exclusive) ==
  /\ Len(sites) > 1 /\ ~exclusive
  /\ ~isRCPatternFree(sites[Len(sites) - 1]) /\ ~isRCPatternFree(sites[Len(sites)])

\* danger_surface_relevant and ffi_auto_relevant: filled by danger-surface and
\* by the passes after it, and danger-surface waits for this pass.
RelevantAllocs == {}

isRelevantAlloc(v) == v \in RelevantAllocs

SitesOf(v) == IF v \in DOMAIN free_sites THEN free_sites[v] ELSE <<>>

FreeCall(v) ==
  LET sites == Append(SitesOf(v), block)
      graph == FreeInGraph(mem_graph, v)
      map   == [pointer_map EXCEPT ![v] = FreedInfo(@)]
  IN
  /\ Instruction /\ Available(v)
  /\ pointer_map' = IF is_ffi_func THEN MarkInfos(map, AliasesOf(mem_graph, v)) ELSE map
  /\ texts' = IF pointer_map[v].freed /\ ~pointer_map[v].twice
                THEN (texts \ OwnedText(v)) \cup {Inst} ELSE texts
  /\ records' = FreeRecords(records, mem_graph, v)
  /\ free_sites' = WithEntry(free_sites, v, sites)
  /\ \E exclusive \in IF Len(sites) > 1 THEN MutuallyExclusive(sites[Len(sites) - 1], block)
                                        ELSE {FALSE} :
       IF SeesTwice(sites, exclusive)
         THEN LET found == isFreed(graph, v) \/ map[v].twice IN
              /\ mem_graph' = trackFree(graph, v, NoBlock)
              /\ detected' = IF found THEN detected \cup {v} ELSE detected
              /\ reported' = IF found /\ isRelevantAlloc(v) THEN reported \cup {v} ELSE reported
         ELSE mem_graph' = graph /\ UNCHANGED <<detected, reported>>
  /\ GiveBack(v)
  /\ UNCHANGED <<home, points, resized>>

-----------------------------------------------------------------------------
(* The end of a block, and the end of the pass.                            *)

Aliasers(k) == {v \in DOMAIN mem_graph.canonical : mem_graph.canonical[v] = k}

\* Keys of the node map that nothing is an alias of need no visit.
NextBlock ==
  /\ block # End /\ count >= Allocas
  /\ block' = IF branches /\ block # Join THEN block + 1 ELSE End
  /\ start' = count
  /\ keys' = IF block' = End THEN {k \in DOMAIN mem_graph.nodes : Aliasers(k) # {}} ELSE {}
  /\ UNCHANGED <<is_ffi_func, branches, count, pointer_map, mem_graph, records, doubles,
                 texts>>
  /\ UNCHANGED history

\* propagateCrossFunctionFreedStatus: one visit of every key, in the order of
\* a hash map.
PropagateFreed(k) ==
  LET marked == {i \in {mem_graph.nodes[a] : a \in Aliasers(k)} : ~mem_graph.store[i].freed}
  IN
  /\ k \in keys /\ keys' = keys \ {k}
  /\ IF NodeOf(mem_graph, k).freed
       THEN /\ mem_graph' = [mem_graph EXCEPT !.store =
                 [i \in DOMAIN @ |-> IF i \in marked THEN FreedAt(@[i], NoBlock) ELSE @[i]]]
            /\ records' = [r \in DOMAIN records |->
                 records[r] \/ r \in {mem_graph.store[i].alloc_inst : i \in marked}]
       ELSE UNCHANGED <<mem_graph, records>>
  /\ UNCHANGED <<is_ffi_func, branches, block, start, count, pointer_map, doubles, texts>>
  /\ UNCHANGED history

Ended == block = End /\ keys = {} /\ UNCHANGED vars

-----------------------------------------------------------------------------
Init ==
  /\ is_ffi_func \in BOOLEAN /\ branches \in BOOLEAN
  /\ block = Entry /\ start = 0 /\ count = 0 /\ keys = {}
  /\ pointer_map = <<>> /\ mem_graph = NewGraph(Edges) /\ records = <<>>
  /\ free_sites = <<>> /\ detected = {} /\ reported = {} /\ texts = {}
  /\ home = <<>> /\ points = [p \in Paths |-> <<>>] /\ frees = [p \in Paths |-> <<>>]
  /\ resized = {}

Next ==
  \/ handleAlloca
  \/ Malloc
  \/ \E s \in Variables : handleLoad(s) \/ StoreParameter(s) \/ \E v \in Values : handleStore(v, s)
  \/ \E v \in Values : Realloc(v) \/ handleBitCastAndConversions(v) \/ FreeCall(v)
  \/ \E v, w \in Values : handlePhi(v, w)
  \/ NextBlock
  \/ \E k \in keys : PropagateFreed(k)
  \/ Ended

Spec == Init /\ [][Next]_vars

-----------------------------------------------------------------------------
(* Properties                                                              *)

Given(p, o) == IF o \in DOMAIN frees[p] THEN frees[p][o] ELSE 0
Holders == DOMAIN points[Left]

\* The values freed twice on one path.
FreedTwice ==
  {v \in DOMAIN free_sites : \E p \in Paths :
     Cardinality({i \in DOMAIN free_sites[v] : p \in Through(free_sites[v][i])}) > 1}

InLine == is_ffi_func /\ ~branches    \* both paths are the same

\* Every value has an entry, nodes exist, and entries own texts that exist.
TypeOK ==
  /\ block \in Entry..End /\ start <= count
  /\ DOMAIN pointer_map = (Variables \cap 1..count) \cup Values
  /\ \A v \in DOMAIN mem_graph.nodes : mem_graph.nodes[v] \in DOMAIN mem_graph.store
  /\ \A v \in DOMAIN pointer_map : pointer_map[v].text \in 1..count
  /\ DOMAIN records \subseteq Values /\ DOMAIN free_sites \subseteq Values
  /\ reported \subseteq detected /\ detected \subseteq DOMAIN free_sites
  /\ keys \subseteq DOMAIN mem_graph.nodes

\* In a function without branches, whatever holds an allocated object (its
\* value, casts, loads, the variables it is stored in) has one node, however
\* often the variables change: a free of one of them is a free of all.
SameObjectSameNode ==
  InLine => \A x, y \in Holders :
    points[Left][x] = points[Left][y] /\ points[Left][x] # Parameter
      => mem_graph.nodes[x] = mem_graph.nodes[y]

\* In such a function, once an allocated object has been freed, by whichever
\* of its names, the entries of all that hold it say so, those of copies made
\* before and after: a later use is a use of a freed pointer.
FreedIsSeen ==
  InLine => \A x \in Holders : LET o == points[Left][x] IN
    /\ o # Parameter /\ \A v \in resized : points[Left][v] # o
    /\ Given(Left, o) > 0
    => pointer_map[x].freed

\* As long as objects are freed and resized by the values that allocated them,
\* the free sites of a node are on one path exactly if some path frees the
\* object twice.
DirectFreesAreExact ==
  is_ffi_func /\ DOMAIN free_sites \cup resized \subseteq DOMAIN records =>
    \A v \in DOMAIN records \ resized :
      isDoubleFreedOnSamePath(mem_graph, v) <=> \E p \in Paths : Given(p, v) > 1

\* Until the propagation, an allocation recorded as freed is freed on a path.
RecordFreedIsFreed ==
  block # End => \A v \in DOMAIN records : records[v] => \E p \in Paths : Given(p, v) > 0

\* A value that is freed twice on one path is found to be freed twice, although
\* each free is compared with the one before it only, which may be on another
\* path.
DoubleFreesAreDetected == \A v \in FreedTwice : v \in detected

\* Every text has one owner among the entries: when the function ends, it is
\* released, and released once.
TextsOwnedOnce ==
  LET owners == {v \in DOMAIN pointer_map : pointer_map[v].owns}
  IN  /\ texts = {pointer_map[v].text : v \in owners}
      /\ Cardinality(texts) = Cardinality(owners)

\* The description that a store copies has not been released: propagateOrigin
\* shares it and leaves it to "the original PtrInfo" to release it.
ReadsLiveTexts ==
  [][\A v \in Values, s \in Variables : handleStore(v, s) => pointer_map[v].text \in texts]_vars
=============================================================================
