----------------------- MODULE ParallelExecutorProofs -----------------------
(***************************************************************************)
(* What the pool keeps for any number of workers and items, in layers.     *)
(*                                                                         *)
(* Core holds for every BufferDepth: types, the locals of an owner and of  *)
(* a thief, and that no bottom a thread can read, now or when a store in   *)
(* flight lands, is above a slot nobody wrote.  Own(w) is the bottom of a  *)
(* deque as its owner sees it.  Hence TypeCorrect: no slot is read that    *)
(* was not written, and the saturating decrement never saturates.          *)
(*                                                                         *)
(* Base adds what is needed for NothingLost, also for every BufferDepth:   *)
(* an item pushed stays covered (in a slot between top and the owner's     *)
(* bottom, with a worker, or done), a worker that leaves has found its own *)
(* deque empty and nobody refills it, and run() joins every worker.  The   *)
(* counters add up to the calls made, so none is missing from the results  *)
(* (CountsNeverShort).                                                     *)
(*                                                                         *)
(* TwiceInv, once more for every BufferDepth, bounds the damage of a late  *)
(* store: a slot is passed once by top and once by its owner, so an item   *)
(* is handed out twice at most (ItemsAtMostTwice, CountsAtMostDouble).     *)
(*                                                                         *)
(* Inv adds, for BufferDepth = 0, that the items in that range are         *)
(* nobody's yet: a thief at its compare-and-swap either has an old top,    *)
(* and fails, or its slot is still in range, and an owner that has         *)
(* decremented bottom past the last slot claims it only by its own         *)
(* compare-and-swap.  Hence ItemsAtMostOnce and ResultsAddUp, and each     *)
(* step is a step of the abstract bag or none.  With a store in flight     *)
(* both are false.                                                         *)
(***************************************************************************)
EXTENDS ParallelExecutor, SumTheorems, TLAPS

Popping == {"pop_top", "pop_cas", "pop_restore", "pop_advance"}

(* The bottom of its deque as the owner sees it: what it stored last, whether *)
(* that has reached memory or not.                                           *)
Own(w) == ReadBottom(w, w)

(* The store buffers have their size, and no worker runs and nothing is in    *)
(* flight before all items are pushed.                                       *)
PhaseInv ==
  /\ \A w \in Workers : Len(buffer[w]) <= BufferDepth
  /\ mpc \in {"start", "sequential", "push"} =>
       \A w \in Workers : /\ pc[w] = "unspawned" /\ item[w] = NoItem
                          /\ top[w] = 0 /\ buffer[w] = <<>>
  /\ mpc = "start" => next = 0
  /\ mpc \in {"start", "sequential"} =>
       \A w \in Workers : bottom[w] = 0
  /\ mpc \in {"start", "push"} => \A i \in Items : calls[i] = 0
  /\ mpc = "sequential" => \A i \in Items : i >= next => calls[i] = 0
  /\ mpc = "push" => \A w \in Workers : bottom[w] <= next
  /\ mpc \in {"start", "push"} => \A w \in Workers, k \in Items : array[w][k] < next
  /\ mpc \notin {"start", "no_work_items"} => MaxItems > 0
  /\ mpc = "spawn" => \A w \in Workers : w >= next => pc[w] = "unspawned"

(* What a worker's locals say about its own deque.                           *)
OwnInv(w) ==
  /\ pc[w] \in Popping => Own(w) = b[w] /\ b[w] \in Items
  /\ pc[w] = "pop_cas" => t[w] = b[w]
  /\ pc[w] = "pop_advance" => top[w] > b[w]

(* What a thief's locals say about the deque it steals from: top has not been *)
(* below what it read, and the slot it has chosen was written.               *)
ThiefInv(w) ==
  /\ pc[w] \in {"steal_bottom", "steal_cas"} => t[w] <= top[victim[w]]
  /\ pc[w] = "steal_cas" => t[w] \in Items /\ array[victim[w]][t[w]] # NoItem

LocalInv(w) == OwnInv(w) /\ ThiefInv(w)

(* The slots below x have been pushed to.                                    *)
Filled(v, x) == x <= MaxItems /\ \A k \in Items : k < x => array[v][k] # NoItem

(* No bottom a thread may read, now or when a store in flight lands, is above *)
(* a slot nobody wrote.                                                      *)
Extent(v) == IF pc[v] \in Popping THEN Own(v) + 1 ELSE Own(v)
StoresInv ==
  \A v \in Workers : /\ Filled(v, Extent(v)) /\ Filled(v, bottom[v])
                     /\ \A j \in DOMAIN buffer[v] : Filled(v, buffer[v][j])

(* The run goes to the pool only with an item for every worker, so every     *)
(* deque has been pushed to, and an owner outside pop() finds bottom above 0: *)
(* the saturating decrement never saturates.                                 *)
StockInv ==
  /\ mpc = "push" => WorkerCount <= n /\ \A w \in Workers : w < next => bottom[w] >= 1
  /\ mpc = "spawn" => \A w \in Workers : pc[w] = "unspawned" => Own(w) >= 1
  /\ \A w \in Workers : pc[w] # "unspawned" /\ pc[w] \notin Popping => Own(w) >= 1

(* No two slots hold the same item.                                          *)
DistinctInv ==
  \A v, u \in Workers : \A k, j \in Items :
     array[v][k] = array[u][j] /\ array[v][k] # NoItem => v = u /\ k = j

Core == /\ TypeOK /\ PhaseInv /\ (\A w \in Workers : LocalInv(w))
        /\ StoresInv /\ StockInv /\ DistinctInv

-----------------------------------------------------------------------------
(* An item goes to one of the deques.                                        *)
LEMMA DequeIndex == \A i \in Nat : i % WorkerCount \in Workers
  BY WorkerCountAssumption, SMT DEF Workers

(* There is a worker 0: the sequential way counts in its slot.               *)
LEMMA FirstWorker == 0 \in Workers
  BY WorkerCountAssumption DEF Workers

(* The scan of the deques goes on to a worker.                               *)
LEMMA NextWorker == \A v \in Workers : v < WorkerCount - 1 => v + 1 \in Workers
  BY WorkerCountAssumption DEF Workers

(* Counting one outcome leaves a result.                                     *)
LEMMA TallyType ==
  ASSUME NEW r \in Result, NEW o \in Outcomes
  PROVE  Tally(r, o) \in Result
  BY OutcomesAssumption DEF Result, Tally

(* One call more leaves the history a function to numbers.                   *)
LEMMA CountCall ==
  ASSUME NEW f \in [Items -> Nat], NEW i
  PROVE  [f EXCEPT ![i] = @ + 1] \in [Items -> Nat]
<1>1. CASE i \in Items
  <2>1. f[i] + 1 \in Nat
    BY <1>1
  <2> QED
    BY <1>1, <2>1, Zenon
<1>2. CASE i \notin Items
  BY <1>2, Zenon
<1> QED
  BY <1>1, <1>2

(* What a thread reads of a bottom is a number.                               *)
LEMMA ReadType ==
  ASSUME TypeOK, NEW w \in Workers, NEW v \in Workers
  PROVE  ReadBottom(w, v) \in Nat
<1>1. bottom[v] \in Nat /\ buffer[v] \in Seq(Nat)
  BY DEF TypeOK, DequeTypes
<1>2. buffer[v] # <<>> => Len(buffer[v]) \in 1 .. Len(buffer[v])
  BY <1>1
<1>3. buffer[v] # <<>> => buffer[v][Len(buffer[v])] \in Nat
  BY <1>1, <1>2
<1> QED
  BY <1>1, <1>3 DEF ReadBottom

(* So is what the owner sees.                                                *)
LEMMA OwnType == TypeOK => \A w \in Workers : Own(w) \in Nat
  BY ReadType DEF Own

(* And after a step.                                                         *)
LEMMA OwnTypePrimed == TypeOK' => (\A w \in Workers : Own(w) \in Nat)'
  BY OwnType, PTL

(* A store is seen by its owner at once; in memory, or in the buffer, is then *)
(* what was there or the new value.                                          *)
LEMMA StoreSeen ==
  ASSUME TypeOK, PhaseInv, NEW w \in Workers, NEW x \in Nat, StoreBottom(w, x)
  PROVE  /\ bottom' \in [Workers -> Nat] /\ buffer' \in [Workers -> Seq(Nat)]
         /\ Own(w)' = x
         /\ \A u \in Workers \ {w} :
              bottom'[u] = bottom[u] /\ buffer'[u] = buffer[u] /\ Own(u)' = Own(u)
         /\ bottom'[w] \in {bottom[w], x}
         /\ \A j \in DOMAIN buffer'[w] :
              buffer'[w][j] = x \/ (j \in DOMAIN buffer[w] /\ buffer'[w][j] = buffer[w][j])
         /\ \A u \in Workers : Len(buffer'[u]) <= BufferDepth
<1>t. /\ bottom \in [Workers -> Nat] /\ buffer \in [Workers -> Seq(Nat)]
      /\ buffer[w] \in Seq(Nat) /\ Len(buffer[w]) \in Nat
      /\ \A u \in Workers : Len(buffer[u]) <= BufferDepth
  BY DEF TypeOK, DequeTypes, PhaseInv
<1>1. CASE BufferDepth = 0
  <2>1. bottom' = [bottom EXCEPT ![w] = x] /\ buffer' = buffer
    BY <1>1 DEF StoreBottom
  <2>2. buffer[w] = <<>>
    <3>1. Len(buffer[w]) = 0
      BY <1>t, <1>1
    <3> QED
      BY <1>t, <3>1
  <2>3. \A u \in Workers : bottom'[u] = IF u = w THEN x ELSE bottom[u]
    BY <1>t, <2>1
  <2>4. Own(w)' = x /\ \A u \in Workers \ {w} : Own(u)' = Own(u)
    BY <2>1, <2>2, <2>3 DEF Own, ReadBottom
  <2>5. bottom' \in [Workers -> Nat]
    BY <1>t, <2>1
  <2> QED
    BY <1>t, <2>1, <2>3, <2>4, <2>5
<1>2. CASE BufferDepth # 0
  <2>1. /\ Len(buffer[w]) < BufferDepth /\ bottom' = bottom
        /\ buffer' = [buffer EXCEPT ![w] = Append(buffer[w], x)]
    BY <1>2 DEF StoreBottom
  <2>2. \A u \in Workers : buffer'[u] = IF u = w THEN Append(buffer[w], x) ELSE buffer[u]
    BY <1>t, <2>1
  <2>3. /\ Append(buffer[w], x) \in Seq(Nat)
        /\ Len(Append(buffer[w], x)) = Len(buffer[w]) + 1
        /\ Append(buffer[w], x) # <<>>
        /\ Append(buffer[w], x)[Len(buffer[w]) + 1] = x
        /\ \A j \in 1 .. Len(buffer[w]) : Append(buffer[w], x)[j] = buffer[w][j]
        /\ DOMAIN Append(buffer[w], x) = 1 .. (Len(buffer[w]) + 1)
        /\ DOMAIN buffer[w] = 1 .. Len(buffer[w])
    <3> DEFINE s == buffer[w]
               a == Append(s, x)
    <3>0. s \in Seq(Nat)
      BY <1>t
    <3> HIDE DEF s
    <3>1. a \in Seq(Nat) /\ Len(a) = Len(s) + 1
      BY <3>0
    <3>2. a # <<>> /\ a[Len(s) + 1] = x
      BY <3>0, <3>1
    <3>3. \A j \in 1 .. Len(s) : a[j] = s[j]
      BY <3>0
    <3>4. DOMAIN a = 1 .. (Len(s) + 1) /\ DOMAIN s = 1 .. Len(s)
      BY <3>0, <3>1
    <3> QED
      BY <3>1, <3>2, <3>3, <3>4 DEF s
  <2>4. buffer' \in [Workers -> Seq(Nat)]
    BY <1>t, <2>1, <2>3
  <2>5. Own(w)' = x
    BY <2>2, <2>3 DEF Own, ReadBottom
  <2>6. \A u \in Workers \ {w} : Own(u)' = Own(u)
    BY <2>1, <2>2 DEF Own, ReadBottom
  <2>7. Len(buffer'[w]) <= BufferDepth
    BY <1>t, <2>1, <2>2, <2>3, BufferDepthAssumption
  <2>8. \A j \in DOMAIN buffer'[w] :
          buffer'[w][j] = x \/ (j \in DOMAIN buffer[w] /\ buffer'[w][j] = buffer[w][j])
    <3> SUFFICES ASSUME NEW j \in 1 .. (Len(buffer[w]) + 1)
                 PROVE  \/ Append(buffer[w], x)[j] = x
                        \/ j \in 1 .. Len(buffer[w]) /\ Append(buffer[w], x)[j] = buffer[w][j]
      BY <2>2, <2>3
    <3>1. j = Len(buffer[w]) + 1 \/ j \in 1 .. Len(buffer[w])
      BY <1>t
    <3> QED
      BY <2>3, <3>1
  <2> QED
    BY <1>t, <2>1, <2>2, <2>4, <2>5, <2>6, <2>7, <2>8
<1> QED
  BY <1>1, <1>2

(* What a store reaching memory leaves alone: everything but the two places  *)
(* it moves between.                                                         *)
LEMMA FlushFrame ==
  ASSUME NEW w \in Workers, Flush(w)
  PROVE  /\ UNCHANGED <<mpc, n, next, active, array, capacity, top, pc, b, t, victim,
                        item, local, results, calls>>
  BY DEF Flush, mainVars, localVars

(* A store reaching memory changes nothing its owner sees, and what the      *)
(* others then see was in the buffer.                                        *)
LEMMA FlushSeen ==
  ASSUME TypeOK, PhaseInv, NEW w \in Workers, Flush(w)
  PROVE  /\ bottom' \in [Workers -> Nat] /\ buffer' \in [Workers -> Seq(Nat)]
         /\ \A u \in Workers : Own(u)' = Own(u)
         /\ \A u \in Workers : \/ bottom'[u] = bottom[u]
                                \/ \E j \in DOMAIN buffer[u] : bottom'[u] = buffer[u][j]
         /\ \A u \in Workers : \A j \in DOMAIN buffer'[u] :
              \E i \in DOMAIN buffer[u] : buffer'[u][j] = buffer[u][i]
         /\ \A u \in Workers : Len(buffer'[u]) <= BufferDepth
         /\ mpc \notin {"start", "sequential", "push"}
<1> DEFINE s == buffer[w]
<1>t. /\ bottom \in [Workers -> Nat] /\ buffer \in [Workers -> Seq(Nat)]
      /\ s \in Seq(Nat) /\ Len(s) \in Nat /\ DOMAIN s = 1 .. Len(s)
      /\ \A u \in Workers : Len(buffer[u]) <= BufferDepth
  BY DEF TypeOK, DequeTypes, PhaseInv
<1>1. /\ s # <<>> /\ bottom' = [bottom EXCEPT ![w] = Head(s)]
      /\ buffer' = [buffer EXCEPT ![w] = Tail(s)]
  BY DEF Flush
<1> HIDE DEF s
<1>2. /\ Head(s) \in Nat /\ Head(s) = s[1] /\ 1 \in 1 .. Len(s)
      /\ Tail(s) \in Seq(Nat) /\ Len(Tail(s)) = Len(s) - 1
      /\ DOMAIN Tail(s) = 1 .. (Len(s) - 1)
      /\ \A j \in 1 .. (Len(s) - 1) : Tail(s)[j] = s[j + 1] /\ j + 1 \in 1 .. Len(s)
  BY <1>t, <1>1
<1>3. \A u \in Workers : /\ bottom'[u] = IF u = w THEN Head(s) ELSE bottom[u]
                         /\ buffer'[u] = IF u = w THEN Tail(s) ELSE buffer[u]
  BY <1>t, <1>1
<1>4. bottom' \in [Workers -> Nat] /\ buffer' \in [Workers -> Seq(Nat)]
  BY <1>t, <1>1, <1>2
<1>5. Own(w)' = Own(w)
  <2>1. Own(w) = s[Len(s)]
    BY <1>1 DEF Own, ReadBottom, s
  <2>2. CASE Len(s) = 1
    <3>1. Tail(s) = <<>>
      BY <1>2, <2>2
    <3>2. Own(w)' = Head(s)
      BY <1>3, <3>1 DEF Own, ReadBottom
    <3> QED
      BY <1>2, <2>1, <2>2, <3>2
  <2>3. CASE Len(s) # 1
    <3>1. Len(s) - 1 \in 1 .. (Len(s) - 1) /\ (Len(s) - 1) + 1 = Len(s)
      BY <1>t, <1>2, <2>3
    <3>2. Tail(s) # <<>> /\ Tail(s)[Len(Tail(s))] = s[Len(s)]
      <4>1. Len(Tail(s)) # 0
        BY <1>2, <3>1
      <4>2. Tail(s)[Len(s) - 1] = s[(Len(s) - 1) + 1]
        BY <1>2, <3>1
      <4>3. <<>> \in Seq(Nat) /\ Len(<<>>) = 0
        OBVIOUS
      <4>4. Tail(s) # <<>>
        BY <4>1, <4>3
      <4>5. Tail(s)[Len(s) - 1] = s[Len(s)]
        BY <3>1, <4>2
      <4>6. Len(Tail(s)) = Len(s) - 1
        BY <1>2
      <4> QED
        BY <4>4, <4>5, <4>6
    <3>3. Own(w)' = Tail(s)[Len(Tail(s))]
      BY <1>3, <3>2 DEF Own, ReadBottom
    <3> QED
      BY <2>1, <3>2, <3>3
  <2> QED
    BY <2>2, <2>3
<1>6. \A u \in Workers \ {w} : Own(u)' = Own(u)
  BY <1>3 DEF Own, ReadBottom
<1>7. \A u \in Workers : \A j \in DOMAIN buffer'[u] :
        \E i \in DOMAIN buffer[u] : buffer'[u][j] = buffer[u][i]
  <2> TAKE u \in Workers
  <2> TAKE j \in DOMAIN buffer'[u]
  <2>1. CASE u = w
    <3>1. j \in 1 .. (Len(s) - 1) /\ buffer'[u][j] = s[j + 1] /\ j + 1 \in DOMAIN s
      BY <1>t, <1>2, <1>3, <2>1
    <3> QED
      BY <2>1, <3>1 DEF s
  <2>2. CASE u # w
    BY <1>3, <2>2
  <2> QED
    BY <2>1, <2>2
<1>8. \A u \in Workers : Len(buffer'[u]) <= BufferDepth
  <2>1. Len(buffer[w]) <= BufferDepth /\ Len(buffer[w]) = Len(s)
    BY <1>t DEF s
  <2>2. Len(Tail(s)) <= BufferDepth
    BY <1>t, <1>2, <2>1, BufferDepthAssumption
  <2> QED
    BY <1>t, <1>3, <2>2
<1>9. mpc \notin {"start", "sequential", "push"}
  BY <1>1 DEF PhaseInv, s
<1>10. \A u \in Workers : \/ bottom'[u] = bottom[u]
                           \/ \E j \in DOMAIN buffer[u] : bottom'[u] = buffer[u][j]
  <2>1. bottom'[w] = buffer[w][1] /\ 1 \in DOMAIN buffer[w]
    BY <1>t, <1>2, <1>3 DEF s
  <2> QED
    BY <1>3, <2>1
<1> QED
  BY <1>4, <1>5, <1>6, <1>7, <1>8, <1>9, <1>10

(* A pop() begins by storing one less than the owner sees, and ends with one *)
(* more than it took.                                                        *)
LEMMA PopStores ==
  ASSUME TypeOK, PhaseInv, NEW w \in Workers
  PROVE  /\ PopBegin(w) => \E x \in Nat : /\ StoreBottom(w, x) /\ x = SaturatingDec(Own(w))
                                          /\ b' = [b EXCEPT ![w] = x]
         /\ PopEnd(w) => b[w] + 1 \in Nat /\ StoreBottom(w, b[w] + 1)
<1>1. Own(w) \in Nat /\ b[w] \in Nat
  BY OwnType DEF TypeOK, LocalTypes
<1>2. SaturatingDec(Own(w)) \in Nat
  BY <1>1 DEF SaturatingDec
<1>3. PopBegin(w) => StoreBottom(w, SaturatingDec(Own(w)))
                     /\ b' = [b EXCEPT ![w] = SaturatingDec(Own(w))]
  BY DEF PopBegin, Own
<1>4. PopEnd(w) => StoreBottom(w, b[w] + 1)
  BY DEF PopEnd
<1> QED
  BY <1>1, <1>2, <1>3, <1>4

(* No other step of a worker stores to bottom.                               *)
LEMMA NoStore ==
  ASSUME NEW w \in Workers, Worker(w), ~ PopBegin(w), ~ PopEnd(w)
  PROVE  bottom' = bottom /\ buffer' = buffer /\ \A u \in Workers : Own(u)' = Own(u)
<1>1. bottom' = bottom /\ buffer' = buffer
  BY DEF Worker, LoopStops, PopTakes, PopFindsEmpty, PopFindsLast,
     PopCas, StealTop, StealBottom, StealCas, Process,
     ScanBottom, ScanTop, Exit, dequeVars
<1> QED
  BY <1>1 DEF Own, ReadBottom

(* A worker's step touches nobody else's locals.                             *)
LEMMA OthersUntouched ==
  ASSUME TypeOK, PhaseInv, NEW w \in Workers, Worker(w), NEW u \in Workers, u # w
  PROVE  /\ pc'[u] = pc[u] /\ b'[u] = b[u] /\ t'[u] = t[u] /\ victim'[u] = victim[u]
         /\ item'[u] = item[u] /\ array' = array
         /\ bottom'[u] = bottom[u] /\ buffer'[u] = buffer[u] /\ Own(u)' = Own(u)
<1>0. bottom'[u] = bottom[u] /\ buffer'[u] = buffer[u] /\ Own(u)' = Own(u)
  <2>1. CASE PopBegin(w)
    BY <2>1, PopStores, StoreSeen
  <2>2. CASE PopEnd(w)
    BY <2>2, PopStores, StoreSeen
  <2> QED
    BY <2>1, <2>2, NoStore
<1> USE <1>0 DEF TypeOK, LocalTypes, DequeTypes, Goto, StartScan, mainVars, dequeVars,
                 localVars
<1>1. CASE PopBegin(w)
  BY <1>1 DEF PopBegin
<1>2. CASE LoopStops(w) \/ PopTakes(w) \/ PopFindsEmpty(w) \/ PopFindsLast(w)
  BY <1>2 DEF LoopStops, PopTakes, PopFindsEmpty, PopFindsLast
<1>3. CASE PopCas(w)
  BY <1>3 DEF PopCas
<1>4. CASE PopEnd(w)
  BY <1>4 DEF PopEnd
<1>5. CASE StealTop(w)
  BY <1>5 DEF StealTop
<1>6. CASE StealBottom(w)
  BY <1>6 DEF StealBottom
<1>7. CASE StealCas(w)
  BY <1>7 DEF StealCas
<1>8. CASE Process(w) \/ ScanBottom(w) \/ ScanTop(w) \/ Exit(w)
  BY <1>8 DEF Process, ScanBottom, ScanTop, Exit
<1> QED
  BY <1>1, <1>2, <1>3, <1>4, <1>5, <1>6, <1>7, <1>8 DEF Worker

(* Every step keeps the types.                                               *)
LEMMA TypeStep ==
  ASSUME TypeOK, PhaseInv, \A w \in Workers : LocalInv(w), [Next]_vars
  PROVE  TypeOK'
<1> USE DEF TypeOK
<1>1. ASSUME NEW len \in 0 .. MaxItems, Run(len) PROVE TypeOK'
  <2>1. MainTypes'
    BY <1>1 DEF Run, MainTypes, Ended
  <2>2. DequeTypes' /\ LocalTypes'
    BY <1>1 DEF Run, DequeTypes, LocalTypes, localVars
  <2>3. CountTypes' /\ pc' \in [Workers -> Labels]
    BY <1>1 DEF Run, CountTypes, Result, Zero
  <2> QED
    BY <2>1, <2>2, <2>3
<1>2. CASE SequentialItem
  <2>1. MainTypes'
    BY <1>2 DEF SequentialItem, MainTypes
  <2>2. DequeTypes' /\ LocalTypes' /\ pc' \in [Workers -> Labels]
    BY <1>2 DEF SequentialItem, DequeTypes, LocalTypes, localVars
  <2>3. results' \in [Workers -> Result]
    <3>1. PICK o \in Outcomes : results' = [results EXCEPT ![0] = Tally(@, o)]
      BY <1>2 DEF SequentialItem
    <3>2. 0 \in Workers
      BY FirstWorker
    <3> QED
      BY <3>1, <3>2, TallyType DEF CountTypes
  <2>4. calls' \in [Items -> Nat]
    BY <1>2, CountCall DEF SequentialItem, CountTypes
  <2> QED
    BY <2>1, <2>2, <2>3, <2>4 DEF CountTypes
<1>4. CASE Push
  <2> DEFINE w == next % WorkerCount
  <2>0. w \in Workers
    BY DequeIndex DEF MainTypes
  <2>1. MainTypes'
    BY <1>4 DEF Push, MainTypes
  <2>2. LocalTypes' /\ CountTypes' /\ pc' \in [Workers -> Labels]
    BY <1>4 DEF Push, CountTypes, LocalTypes, localVars
  <2>3. capacity' \in [Workers -> Nat] /\ top' \in [Workers -> Nat]
    BY <1>4, <2>0 DEF Push, DequeTypes
  <2>4. bottom' \in [Workers -> Nat] /\ buffer' \in [Workers -> Seq(Nat)]
    BY <1>4, <2>0 DEF Push, DequeTypes
  <2>5. next \in Items
    BY <1>4, MaxItemsAssumption DEF Push, MainTypes, Items
  <2> DEFINE size == bottom[w] - top[w]
             moved == [k \in Items |-> IF k < size /\ k + top[w] \in Items
                                       THEN array[w][k + top[w]] ELSE NoItem]
             base == IF size >= capacity[w] THEN moved ELSE array[w]
  <2>6. array' \in [Workers -> [Items -> Items \cup {NoItem}]]
    <3>1. array[w] \in [Items -> Items \cup {NoItem}]
      BY <2>0 DEF DequeTypes
    <3>2. moved \in [Items -> Items \cup {NoItem}]
      BY <3>1
    <3>3. base \in [Items -> Items \cup {NoItem}]
      BY <3>1, <3>2
    <3>4. array' = [array EXCEPT ![w] = [base EXCEPT ![bottom[w]] = next]]
      BY <1>4 DEF Push
    <3> HIDE DEF base, w
    <3>5. [base EXCEPT ![bottom[w]] = next] \in [Items -> Items \cup {NoItem}]
      BY <2>5, <3>3
    <3> QED
      BY <2>0, <3>4, <3>5 DEF DequeTypes
  <2> QED
    BY <2>1, <2>2, <2>3, <2>4, <2>6 DEF DequeTypes
<1>6. CASE Spawn
  <2>1. MainTypes' /\ DequeTypes' /\ LocalTypes' /\ CountTypes'
    BY <1>6 DEF Spawn, dequeVars, localVars, MainTypes, DequeTypes, LocalTypes, CountTypes
  <2>2. pc' \in [Workers -> Labels]
    BY <1>6 DEF Spawn, Labels
  <2> QED
    BY <2>1, <2>2
<1>7. ASSUME NEW w \in Workers, PopBegin(w) PROVE TypeOK'
  <2>1. MainTypes' /\ CountTypes' /\ pc' \in [Workers -> Labels]
    BY <1>7 DEF PopBegin, MainTypes, CountTypes, mainVars, Goto, Labels
  <2>2. PICK x \in Nat : StoreBottom(w, x) /\ b' = [b EXCEPT ![w] = x]
    BY <1>7, PopStores
  <2>3. bottom' \in [Workers -> Nat] /\ buffer' \in [Workers -> Seq(Nat)]
    BY <2>2, StoreSeen
  <2>4. UNCHANGED <<array, capacity, top, t, victim, item, local>>
    BY <1>7 DEF PopBegin
  <2>5. LocalTypes' /\ DequeTypes'
    BY <2>2, <2>3, <2>4 DEF LocalTypes, DequeTypes
  <2> QED
    BY <2>1, <2>5
<1>8. ASSUME NEW w \in Workers, PopTakes(w) PROVE TypeOK'
  <2>1. MainTypes' /\ CountTypes' /\ DequeTypes' /\ pc' \in [Workers -> Labels]
    BY <1>8 DEF PopTakes, MainTypes, CountTypes, DequeTypes, mainVars, dequeVars,
       Goto, Labels
  <2>2. array[w][b[w]] \in Items \cup {NoItem}
    BY <1>8 DEF PopTakes, LocalInv, OwnInv, Popping, DequeTypes
  <2>3. LocalTypes'
    BY <1>8, <2>2 DEF PopTakes, LocalTypes, DequeTypes
  <2> QED
    BY <2>1, <2>3
<1>9. ASSUME NEW w \in Workers, PopCas(w) PROVE TypeOK'
  <2>1. MainTypes' /\ CountTypes' /\ pc' \in [Workers -> Labels]
    BY <1>9 DEF PopCas, MainTypes, CountTypes, mainVars, Goto, Labels
  <2>2. array[w][b[w]] \in Items \cup {NoItem}
    BY <1>9 DEF PopCas, LocalInv, OwnInv, Popping, DequeTypes
  <2>3. LocalTypes'
    BY <1>9, <2>2 DEF PopCas, LocalTypes
  <2>4. t[w] + 1 \in Nat
    BY DEF LocalTypes
  <2>5. top' \in [Workers -> Nat]
    BY <1>9, <2>4 DEF PopCas, DequeTypes
  <2>6. DequeTypes'
    BY <1>9, <2>5 DEF PopCas, DequeTypes
  <2> QED
    BY <2>1, <2>3, <2>6
<1>10. ASSUME NEW w \in Workers, PopEnd(w) PROVE TypeOK'
  <2>1. MainTypes' /\ CountTypes' /\ LocalTypes' /\ pc' \in [Workers -> Labels]
    BY <1>10 DEF PopEnd, MainTypes, CountTypes, LocalTypes, mainVars, localVars,
       Goto, Labels
  <2>2. bottom' \in [Workers -> Nat] /\ buffer' \in [Workers -> Seq(Nat)]
    BY <1>10, PopStores, StoreSeen
  <2>3. DequeTypes'
    BY <1>10, <2>2 DEF PopEnd, DequeTypes
  <2> QED
    BY <2>1, <2>3
<1>11. ASSUME NEW w \in Workers, StealTop(w) PROVE TypeOK'
  <2>1. MainTypes' /\ CountTypes' /\ DequeTypes' /\ pc' \in [Workers -> Labels]
    BY <1>11 DEF StealTop, StartScan, MainTypes, CountTypes, DequeTypes, mainVars,
       dequeVars, Goto, Labels
  <2>2. UNCHANGED <<b, item, local>>
    BY <1>11 DEF StealTop
  <2>3. CASE WorkerCount = 1
    <3>1. victim' = [victim EXCEPT ![w] = 0] /\ UNCHANGED t /\ 0 \in Workers
      BY <1>11, <2>3, FirstWorker DEF StealTop, StartScan
    <3>2. LocalTypes'
      BY <2>2, <3>1 DEF LocalTypes
    <3> QED
      BY <2>1, <3>2
  <2>4. CASE WorkerCount # 1
    <3>1. PICK v \in Workers \ {w} : /\ victim' = [victim EXCEPT ![w] = v]
                                      /\ t' = [t EXCEPT ![w] = top[v]]
      BY <1>11, <2>4 DEF StealTop
    <3>2. top[v] \in Nat
      BY DEF DequeTypes
    <3>3. LocalTypes'
      BY <2>2, <3>1, <3>2 DEF LocalTypes
    <3> QED
      BY <2>1, <3>3
  <2> QED
    BY <2>3, <2>4
<1>12. ASSUME NEW w \in Workers, StealBottom(w) PROVE TypeOK'
  <2>1. MainTypes' /\ CountTypes' /\ DequeTypes' /\ pc' \in [Workers -> Labels]
    BY <1>12 DEF StealBottom, StartScan, MainTypes, CountTypes,
       DequeTypes, mainVars, dequeVars, Goto, Labels
  <2>2. 0 \in Workers
    BY FirstWorker
  <2>3. LocalTypes'
    BY <1>12, <2>2 DEF StealBottom, StartScan, LocalTypes
  <2> QED
    BY <2>1, <2>3
<1>13. ASSUME NEW w \in Workers, StealCas(w) PROVE TypeOK'
  <2> DEFINE v == victim[w]
  <2>1. MainTypes' /\ CountTypes' /\ pc' \in [Workers -> Labels]
    BY <1>13 DEF StealCas, StartScan, MainTypes, CountTypes, mainVars, Goto, Labels
  <2>2. v \in Workers /\ 0 \in Workers
    BY FirstWorker, Zenon DEF LocalTypes
  <2>3. array[v][t[w]] \in Items \cup {NoItem}
    <3>1. t[w] \in Items
      BY <1>13 DEF StealCas, LocalInv, ThiefInv
    <3> QED
      BY <2>2, <3>1 DEF DequeTypes
  <2>4. LocalTypes'
    <3>1. item' \in [Workers -> Items \cup {NoItem}]
      BY <1>13, <2>3 DEF StealCas, LocalTypes
    <3>2. victim' \in [Workers -> Workers]
      BY <1>13, <2>2 DEF StealCas, StartScan, LocalTypes
    <3>3. UNCHANGED <<b, t, local>>
      BY <1>13 DEF StealCas
    <3> QED
      BY <3>1, <3>2, <3>3 DEF LocalTypes
  <2>5. t[w] + 1 \in Nat
    BY DEF LocalTypes
  <2>6. top' \in [Workers -> Nat]
    BY <1>13, <2>2, <2>5 DEF StealCas, DequeTypes
  <2>7. DequeTypes'
    BY <1>13, <2>6 DEF StealCas, DequeTypes
  <2> QED
    BY <2>1, <2>4, <2>7
<1>14. ASSUME NEW w \in Workers, Process(w) PROVE TypeOK'
  <2>1. MainTypes' /\ DequeTypes' /\ pc' \in [Workers -> Labels]
    BY <1>14 DEF Process, MainTypes, DequeTypes, mainVars, dequeVars, Goto, Labels
  <2>2. LocalTypes'
    BY <1>14, TallyType DEF Process, LocalTypes
  <2>3. calls' \in [Items -> Nat]
    BY <1>14, CountCall DEF Process, CountTypes
  <2>4. results' \in [Workers -> Result]
    BY <1>14 DEF Process, CountTypes
  <2> QED
    BY <2>1, <2>2, <2>3, <2>4 DEF CountTypes
<1>15. ASSUME NEW w \in Workers, ScanBottom(w) PROVE TypeOK'
  <2>1. MainTypes' /\ CountTypes' /\ DequeTypes' /\ pc' \in [Workers -> Labels]
    BY <1>15 DEF ScanBottom, MainTypes, CountTypes, DequeTypes, mainVars, dequeVars,
       Goto, Labels
  <2>2. ReadBottom(w, victim[w]) \in Nat
    <3>1. victim[w] \in Workers
      BY DEF LocalTypes
    <3> QED
      BY <3>1, ReadType
  <2>3. LocalTypes'
    BY <1>15, <2>2 DEF ScanBottom, LocalTypes
  <2> QED
    BY <2>1, <2>3
<1>16. ASSUME NEW w \in Workers, ScanTop(w) PROVE TypeOK'
  <2>1. MainTypes' /\ CountTypes' /\ DequeTypes' /\ pc' \in [Workers -> Labels]
    BY <1>16 DEF ScanTop, MainTypes, CountTypes, DequeTypes, mainVars, dequeVars,
       Goto, Labels
  <2>2. victim[w] \in Workers /\ (victim[w] < WorkerCount - 1 => victim[w] + 1 \in Workers)
    BY NextWorker DEF LocalTypes
  <2>3. LocalTypes'
    BY <1>16, <2>2 DEF ScanTop, LocalTypes
  <2> QED
    BY <2>1, <2>3
<1>17. ASSUME NEW w \in Workers, Exit(w) PROVE TypeOK'
  BY <1>17 DEF Exit, MainTypes, DequeTypes, LocalTypes, CountTypes, mainVars,
     dequeVars, localVars, Goto, Labels
<1>18. ASSUME NEW w \in Workers,
              LoopStops(w) \/ PopFindsEmpty(w) \/ PopFindsLast(w)
       PROVE  TypeOK'
  <2>1. MainTypes' /\ CountTypes' /\ DequeTypes' /\ pc' \in [Workers -> Labels]
    BY <1>18 DEF LoopStops, PopFindsEmpty, PopFindsLast, MainTypes, CountTypes,
       DequeTypes, mainVars, dequeVars, localVars, Goto, Labels
  <2>2. LocalTypes'
    BY <1>18 DEF LoopStops, PopFindsEmpty, PopFindsLast, LocalTypes, DequeTypes,
       dequeVars, localVars
  <2> QED
    BY <2>1, <2>2
<1>19. CASE SequentialReturn \/ PushOutOfMemory \/ AllocThreads \/ SpawnDone
            \/ Join \/ JoinUndefinedHandle \/ Return
  <2>1. UNCHANGED <<dequeVars, localVars, pc, results, calls>>
    BY <1>19 DEF SequentialReturn, PushOutOfMemory, AllocThreads, SpawnDone,
       Join, JoinUndefinedHandle, Return, dequeVars, localVars
  <2>2. DequeTypes' /\ LocalTypes' /\ CountTypes' /\ pc' \in [Workers -> Labels]
    BY <2>1 DEF dequeVars, localVars, DequeTypes, LocalTypes, CountTypes
  <2> SUFFICES MainTypes'
    BY <2>2
  <2>3. CASE SequentialReturn \/ PushOutOfMemory \/ Return
    <3>1. n' \in 0 .. MaxItems /\ next' \in Nat
      BY <2>3 DEF SequentialReturn, PushOutOfMemory, Return, MainTypes
    <3>2. active' \in BOOLEAN
      BY <2>3, Zenon DEF SequentialReturn, PushOutOfMemory, Return, MainTypes
    <3> QED
      BY <2>3, <3>1, <3>2, Zenon
      DEF SequentialReturn, PushOutOfMemory, Return, MainTypes, Ended
  <2>4. CASE AllocThreads \/ SpawnDone
    <3>1. n' \in 0 .. MaxItems /\ next' \in Nat
      BY <2>4 DEF AllocThreads, SpawnDone, MainTypes
    <3>2. active' \in BOOLEAN
      BY <2>4, Zenon DEF AllocThreads, SpawnDone, MainTypes
    <3>3. mpc' \in {"spawn", "out_of_memory", "abort", "join"}
      BY <2>4, Zenon DEF AllocThreads, SpawnDone
    <3> QED
      BY <3>1, <3>2, <3>3, Zenon DEF MainTypes, Ended
  <2>5. CASE Join \/ JoinUndefinedHandle
    BY <2>5 DEF Join, JoinUndefinedHandle, MainTypes, Ended
  <2> QED
    BY <1>19, <2>2, <2>3, <2>4, <2>5
<1>20. ASSUME NEW w \in Workers, Flush(w) PROVE TypeOK'
  <2>1. UNCHANGED <<mpc, n, next, active, array, capacity, top, pc, b, t, victim,
                    item, local, results, calls>>
    BY <1>20, FlushFrame
  <2>2. bottom' \in [Workers -> Nat] /\ buffer' \in [Workers -> Seq(Nat)]
    BY <1>20, FlushSeen
  <2> QED
    BY <2>1, <2>2 DEF MainTypes, DequeTypes, LocalTypes, CountTypes
<1>21. CASE UNCHANGED vars
  BY <1>21 DEF vars, MainTypes, DequeTypes, LocalTypes, CountTypes
<1> QED
  BY <1>1, <1>2, <1>4, <1>6, <1>7, <1>8, <1>9, <1>10, <1>11, <1>12, <1>13, <1>14,
     <1>15, <1>16, <1>17, <1>18, <1>19, <1>20, <1>21
  DEF Next, Main, Worker, Stopped

-----------------------------------------------------------------------------
(* A push writes next into one slot and leaves every other slot as it was, or *)
(* empty: the deque has not been popped or stolen from, so growing it copies  *)
(* its items to where they were.                                              *)
LEMMA PushedSlots ==
  ASSUME TypeOK, PhaseInv, Push
  PROVE  \A v \in Workers : \A k \in Items :
            IF v = next % WorkerCount /\ k = bottom[v] THEN array'[v][k] = next
            ELSE array'[v][k] \in {array[v][k], NoItem}
<1> DEFINE w == next % WorkerCount
<1> DEFINE size == bottom[w] - top[w]
<1> DEFINE moved == [k \in Items |-> IF k < size /\ k + top[w] \in Items
                                     THEN array[w][k + top[w]] ELSE NoItem]
<1> DEFINE base == IF size >= capacity[w] THEN moved ELSE array[w]
<1>1. w \in Workers
  BY DequeIndex DEF TypeOK, MainTypes
<1>2. array' = [array EXCEPT ![w] = [base EXCEPT ![bottom[w]] = next]]
  BY DEF Push
<1>3. top[w] = 0
  BY <1>1 DEF Push, PhaseInv
<1>4. \A k \in Items : moved[k] \in {array[w][k], NoItem}
  BY <1>3 DEF Items
<1>5. array[w] \in [Items -> Items \cup {NoItem}] /\ DOMAIN moved = Items
  BY <1>1 DEF TypeOK, DequeTypes
<1>6. DOMAIN base = Items /\ \A k \in Items : base[k] \in {array[w][k], NoItem}
  BY <1>4, <1>5
<1>7. array \in [Workers -> [Items -> Items \cup {NoItem}]]
  BY DEF TypeOK, DequeTypes
<1> HIDE DEF w, size, moved, base
<1>8. array'[w] = [base EXCEPT ![bottom[w]] = next]
  BY <1>1, <1>2, <1>7
<1>9. \A v \in Workers : v # w => array'[v] = array[v]
  BY <1>2, <1>7
<1>10. \A k \in Items : IF k = bottom[w] THEN array'[w][k] = next
                         ELSE array'[w][k] \in {array[w][k], NoItem}
  BY <1>6, <1>8
<1>11. \A v \in Workers : \A k \in Items :
          IF v = w /\ k = bottom[v] THEN array'[v][k] = next
          ELSE array'[v][k] \in {array[v][k], NoItem}
  BY <1>9, <1>10
<1> QED
  BY <1>11 DEF w

(* Before the workers run, and between their steps: PhaseInv.                *)
LEMMA PhaseStep ==
  ASSUME TypeOK, PhaseInv, [Next]_vars
  PROVE  PhaseInv'
<1>1. ASSUME NEW len \in 0 .. MaxItems, Run(len) PROVE PhaseInv'
  BY <1>1, MaxItemsAssumption DEF Run, PhaseInv, localVars, Ended, Items
<1>2. CASE SequentialItem
  BY <1>2 DEF SequentialItem, PhaseInv, localVars, TypeOK, MainTypes, CountTypes, Items
<1>3. CASE Push
  <2> DEFINE w == next % WorkerCount
  <2>1. w \in Workers /\ next \in Nat
    BY DequeIndex DEF TypeOK, MainTypes
  <2>0. mpc = "push"
    BY <1>3 DEF Push
  <2>2. mpc' = "push" /\ next' = next + 1 /\ UNCHANGED <<buffer, pc, item, calls>>
    BY <1>3 DEF Push, localVars
  <2>3. \A v \in Workers : top'[v] = 0
    BY <1>3, <2>1 DEF Push, PhaseInv, TypeOK, DequeTypes
  <2>4. bottom' = [bottom EXCEPT ![w] = @ + 1]
    BY <1>3 DEF Push
  <2>5. \A v \in Workers : bottom[v] \in Nat /\ bottom[v] <= next
    BY <1>3 DEF Push, PhaseInv, TypeOK, DequeTypes
  <2>6. \A v \in Workers : bottom'[v] <= next + 1
    BY <2>1, <2>4, <2>5 DEF TypeOK, DequeTypes
  <2>7. \A v \in Workers : \A k \in Items : array'[v][k] < next + 1
    <3> TAKE v \in Workers
    <3> TAKE k \in Items
    <3>1. array'[v][k] \in {next, array[v][k], NoItem}
      BY <1>3, PushedSlots
    <3>2. array[v][k] < next
      BY <2>0 DEF PhaseInv
    <3>3. array[v][k] \in Items \cup {NoItem}
      BY DEF TypeOK, DequeTypes
    <3> QED
      BY <2>1, <3>1, <3>2, <3>3 DEF NoItem, Items
  <2> QED
    BY <1>3, <2>2, <2>3, <2>6, <2>7 DEF PhaseInv, Push
<1>4. CASE SequentialReturn \/ PushOutOfMemory \/ AllocThreads \/ SpawnDone
           \/ Join \/ JoinUndefinedHandle \/ Return
  BY <1>4 DEF SequentialReturn, PushOutOfMemory, AllocThreads, SpawnDone,
     Join, JoinUndefinedHandle, Return, PhaseInv, dequeVars, localVars
<1>5. CASE Spawn
  <2>1. \A w \in Workers : w >= next + 1 => pc'[w] = "unspawned"
    <3>1. \A w \in Workers : w >= next + 1 => w # next /\ w >= next
      BY WorkerCountAssumption DEF TypeOK, MainTypes, Workers
    <3>2. \A w \in Workers : w >= next => pc[w] = "unspawned"
      BY <1>5 DEF Spawn, PhaseInv
    <3>3. \A w \in Workers : w # next => pc'[w] = pc[w]
      BY <1>5 DEF Spawn, TypeOK
    <3> QED
      BY <3>1, <3>2, <3>3
  <2> QED
    BY <1>5, <2>1 DEF Spawn, PhaseInv, dequeVars, localVars
<1>6. ASSUME NEW w \in Workers, Worker(w) PROVE PhaseInv'
  <2>1. pc[w] # "unspawned"
    BY <1>6 DEF Worker, PopBegin, LoopStops, PopTakes, PopFindsEmpty, PopFindsLast,
       PopCas, PopEnd, StealTop, StealBottom, StealCas, Process,
       ScanBottom, ScanTop, Exit
  <2>2. mpc \notin {"start", "sequential", "push"}
    BY <2>1 DEF PhaseInv
  <2>4. \A u \in Workers : pc[u] = "unspawned" => pc'[u] = "unspawned"
    BY <1>6, <2>1, OthersUntouched
  <2>3. UNCHANGED <<mpc, n, next, active>>
    BY <1>6 DEF Worker, PopBegin, LoopStops, PopTakes, PopFindsEmpty, PopFindsLast,
       PopCas, PopEnd, StealTop, StealBottom, StealCas, Process,
       ScanBottom, ScanTop, Exit, mainVars, dequeVars
  <2>5. \A u \in Workers : Len(buffer'[u]) <= BufferDepth
    <3>1. CASE PopBegin(w)
      BY <3>1, PopStores, StoreSeen
    <3>2. CASE PopEnd(w)
      BY <3>2, PopStores, StoreSeen
    <3>3. CASE ~ PopBegin(w) /\ ~ PopEnd(w)
      BY <1>6, <3>3, NoStore DEF PhaseInv
    <3> QED
      BY <3>1, <3>2, <3>3
  <2> QED
    BY <2>2, <2>3, <2>4, <2>5 DEF PhaseInv
<1>7. ASSUME NEW w \in Workers, Flush(w) PROVE PhaseInv'
  <2>1. /\ UNCHANGED <<mpc, n, next, pc>> /\ mpc \notin {"start", "sequential", "push"}
        /\ \A u \in Workers : Len(buffer'[u]) <= BufferDepth
    BY <1>7, FlushFrame, FlushSeen
  <2> QED
    BY <2>1 DEF PhaseInv
<1>8. CASE UNCHANGED vars
  BY <1>8 DEF vars, PhaseInv
<1> QED
  BY <1>1, <1>2, <1>3, <1>4, <1>5, <1>6, <1>7, <1>8 DEF Next, Main, Stopped

-----------------------------------------------------------------------------
(* The main thread's steps that touch no deque, no counter and no worker.    *)
Quiet == \/ SequentialReturn \/ PushOutOfMemory \/ AllocThreads \/ SpawnDone
         \/ Join \/ JoinUndefinedHandle \/ Return \/ Stopped \/ UNCHANGED vars

(* What those steps leave alone.                                             *)
LEMMA QuietFrame ==
  ASSUME Quiet
  PROVE  UNCHANGED <<n, array, capacity, bottom, top, buffer, pc, b, t, victim,
                     item, local, results, calls>>
BY DEF Quiet, SequentialReturn, PushOutOfMemory, AllocThreads, SpawnDone,
   Join, JoinUndefinedHandle, Return, Stopped, vars, dequeVars, localVars

(* Every step is one of these.                                               *)
LEMMA StepKinds ==
  ASSUME [Next]_vars
  PROVE  \/ \E len \in 0 .. MaxItems : Run(len)
         \/ SequentialItem \/ Push \/ Spawn \/ Quiet
         \/ \E w \in Workers : Worker(w)
         \/ \E w \in Workers : Flush(w)
  BY DEF Next, Main, Quiet

(* What a worker's step leaves alone.                                        *)
LEMMA WorkerFrame ==
  ASSUME TypeOK, PhaseInv, NEW w \in Workers, Worker(w)
  PROVE  /\ pc[w] \notin {"unspawned", "exited"} /\ pc'[w] # "unspawned"
         /\ array' = array /\ UNCHANGED mainVars
         /\ mpc \notin {"start", "sequential", "push"}
<1>1. pc[w] \notin {"unspawned", "exited"} /\ array' = array /\ UNCHANGED mainVars
  BY DEF Worker, PopBegin, LoopStops, PopTakes, PopFindsEmpty, PopFindsLast,
     PopCas, PopEnd, StealTop, StealBottom, StealCas, Process,
     ScanBottom, ScanTop, Exit, dequeVars
<1>2. \E label \in Labels \ {"unspawned"} : pc' = [pc EXCEPT ![w] = label]
  BY DEF Worker, PopBegin, LoopStops, PopTakes, PopFindsEmpty, PopFindsLast,
     PopCas, PopEnd, StealTop, StealBottom, StealCas, Process,
     ScanBottom, ScanTop, Exit, StartScan, Goto, Labels
<1>3. mpc \notin {"start", "sequential", "push"}
  BY <1>1 DEF PhaseInv
<1> QED
  BY <1>1, <1>2, <1>3 DEF TypeOK

(* A spawned worker begins at the loop, with its deque as it is.             *)
LEMMA SpawnFrame ==
  ASSUME TypeOK, PhaseInv, Spawn
  PROVE  /\ mpc = "spawn" /\ mpc' = "spawn"
         /\ UNCHANGED <<n, active, array, capacity, bottom, top, buffer, b, t, victim,
                       item, local, results, calls>>
         /\ \A v \in Workers : /\ pc'[v] = pc[v] \/ (pc[v] = "unspawned" /\ pc'[v] = "loop")
                               /\ Own(v)' = Own(v) /\ OwnerBottom(v)' = OwnerBottom(v)
<1>1. /\ mpc = "spawn" /\ mpc' = "spawn"
      /\ UNCHANGED <<n, active, array, capacity, bottom, top, buffer, b, t, victim,
                    item, local, results, calls>>
  BY DEF Spawn, dequeVars, localVars
<1>2. \A v \in Workers : pc'[v] = pc[v] \/ (pc[v] = "unspawned" /\ pc'[v] = "loop")
  <2>1. pc' = pc \/ pc' = [pc EXCEPT ![next] = "loop"]
    BY DEF Spawn
  <2>2. next \in Workers => pc[next] = "unspawned"
    BY <1>1 DEF PhaseInv, Workers
  <2> QED
    BY <2>1, <2>2 DEF TypeOK
<1>3. \A v \in Workers : Own(v)' = Own(v) /\ OwnerBottom(v)' = OwnerBottom(v)
  BY <1>1, <1>2 DEF Own, OwnerBottom, ReadBottom
<1> QED
  BY <1>1, <1>2, <1>3

(* The end of the deque nobody has claimed from, in the owner's terms.       *)
LEMMA OwnerBottomValue ==
  ASSUME TypeOK, NEW w \in Workers, OwnInv(w)
  PROVE  /\ OwnerBottom(w) = IF pc[w] \in Popping \ {"pop_advance"}
                             THEN Own(w) + 1 ELSE Own(w)
         /\ OwnerBottom(w) \in Nat
<1>1. Own(w) \in Nat
  BY OwnType
<1>2. OwnerBottom(w) = IF pc[w] \in Popping \ {"pop_advance"} THEN Own(w) + 1 ELSE Own(w)
  BY DEF OwnerBottom, Own, OwnInv, Popping
<1> QED
  BY <1>1, <1>2

(* The same after a step.                                                    *)
LEMMA OwnerBottomValuePrimed ==
  ASSUME NEW w \in Workers, OwnInv(w)'
  PROVE  OwnerBottom(w)' = IF pc'[w] \in Popping \ {"pop_advance"}
                          THEN Own(w)' + 1 ELSE Own(w)'
  BY DEF OwnerBottom, Own, OwnInv, Popping

(* The steps outside pop leave bottom alone.                                 *)
LEMMA OutsidePop ==
  ASSUME TypeOK, NEW w \in Workers,
         \/ LoopStops(w) \/ StealTop(w) \/ StealBottom(w)
         \/ StealCas(w) \/ Process(w) \/ ScanBottom(w) \/ ScanTop(w) \/ Exit(w)
  PROVE  /\ bottom' = bottom /\ buffer' = buffer /\ Own(w)' = Own(w)
         /\ pc[w] \notin Popping /\ pc'[w] \notin Popping
<1> SUFFICES /\ bottom' = bottom /\ buffer' = buffer
             /\ pc[w] \notin Popping
             /\ \E label \in Labels \ Popping : pc' = [pc EXCEPT ![w] = label]
  BY DEF TypeOK, Own, ReadBottom
<1> USE DEF Popping, Labels, Goto
<1>1. CASE LoopStops(w) \/ Process(w) \/ Exit(w)
  BY <1>1 DEF LoopStops, Process, Exit, dequeVars
<1>2. CASE StealTop(w)
  BY <1>2 DEF StealTop, StartScan, dequeVars
<1>3. CASE StealBottom(w)
  BY <1>3 DEF StealBottom, StartScan, dequeVars
<1>4. CASE StealCas(w)
  BY <1>4 DEF StealCas, StartScan
<1>5. CASE ScanBottom(w) \/ ScanTop(w)
  BY <1>5 DEF ScanBottom, ScanTop, dequeVars
<1> QED
  BY <1>1, <1>2, <1>3, <1>4, <1>5

(* A worker's step moves no top back.                                        *)
LEMMA TopGrows ==
  ASSUME TypeOK, NEW w \in Workers, Worker(w), NEW v \in Workers
  PROVE  top'[v] >= top[v]
<1>1. top \in [Workers -> Nat] /\ t[w] \in Nat /\ victim[w] \in Workers
  BY DEF TypeOK, DequeTypes, LocalTypes
<1>2. top' = top \/ \E u \in Workers : top' = [top EXCEPT ![u] = t[w] + 1] /\ top[u] = t[w]
  <2>1. CASE PopCas(w)
    BY <2>1 DEF PopCas
  <2>2. CASE StealCas(w)
    BY <2>2, <1>1 DEF StealCas
  <2>3. CASE ~ PopCas(w) /\ ~ StealCas(w)
    BY <2>3 DEF Worker, PopBegin, LoopStops, PopTakes, PopFindsEmpty, PopFindsLast,
       PopEnd, StealTop, StealBottom, Process,
       ScanBottom, ScanTop, Exit, dequeVars
  <2> QED
    BY <2>1, <2>2, <2>3
<1>3. CASE top' = top
  <2>1. top[v] \in Nat
    BY <1>1
  <2> QED
    BY <1>3, <2>1
<1>4. ASSUME NEW u \in Workers, top' = [top EXCEPT ![u] = t[w] + 1], top[u] = t[w]
      PROVE  top'[v] >= top[v]
  <2>1. top'[v] = IF v = u THEN t[w] + 1 ELSE top[v]
    BY <1>1, <1>4
  <2>2. top[v] \in Nat
    BY <1>1
  <2> QED
    BY <1>1, <1>4, <2>1, <2>2
<1> QED
  BY <1>2, <1>3, <1>4

(* What the owner sees goes down by one when it begins to pop, and back up    *)
(* when it has not taken the slot, or another one above it was taken.        *)
LEMMA OwnMoves ==
  ASSUME TypeOK, PhaseInv, StockInv, NEW w \in Workers, Worker(w), OwnInv(w)
  PROVE  \/ /\ pc[w] = "loop" /\ pc'[w] = "pop_top"
            /\ Own(w) >= 1 /\ Own(w)' = Own(w) - 1 /\ b'[w] = Own(w)'
            /\ UNCHANGED <<top, t, victim, item, calls>>
         \/ /\ pc[w] \in {"pop_restore", "pop_advance"} /\ pc'[w] \in {"process", "steal_top"}
            /\ Own(w)' = Own(w) + 1 /\ UNCHANGED <<top, b, t, victim, item, calls>>
         \/ Own(w)' = Own(w) /\ UNCHANGED <<bottom, buffer>> /\ ~ PopBegin(w) /\ ~ PopEnd(w)
<1>t. pc \in [Workers -> Labels] /\ b \in [Workers -> Nat] /\ Own(w) \in Nat
  BY OwnType DEF TypeOK, LocalTypes
<1>1. CASE PopBegin(w)
  <2>1. pc[w] = "loop" /\ pc'[w] = "pop_top" /\ UNCHANGED <<top, t, victim, item, calls>>
    BY <1>t, <1>1 DEF PopBegin, Goto
  <2>2. Own(w) >= 1
    BY <2>1 DEF StockInv, Popping
  <2>3. PICK x \in Nat : /\ StoreBottom(w, x) /\ x = SaturatingDec(Own(w))
                         /\ b' = [b EXCEPT ![w] = x]
    BY <1>1, PopStores
  <2>4. Own(w)' = x /\ b'[w] = x
    BY <1>t, <2>3, StoreSeen
  <2>5. x = Own(w) - 1
    BY <1>t, <2>2, <2>3 DEF SaturatingDec
  <2> QED
    BY <2>1, <2>2, <2>4, <2>5
<1>2. CASE PopEnd(w)
  <2>1. /\ pc[w] \in {"pop_restore", "pop_advance"} /\ pc'[w] \in {"process", "steal_top"}
        /\ UNCHANGED <<top, b, t, victim, item, calls>>
    BY <1>t, <1>2 DEF PopEnd, Goto, localVars
  <2>2. Own(w)' = b[w] + 1
    BY <1>2, PopStores, StoreSeen
  <2>3. Own(w) = b[w]
    BY <2>1 DEF OwnInv, Popping
  <2> QED
    BY <2>1, <2>2, <2>3
<1> QED
  BY <1>1, <1>2, NoStore

(* Every step keeps what a worker knows of its own deque.                    *)
LEMMA OwnStep ==
  ASSUME Core, TypeOK', PhaseInv', [Next]_vars, NEW u \in Workers
  PROVE  OwnInv(u)'
<1> USE DEF Core
<1>u. OwnInv(u)
  BY DEF LocalInv
<1>1. CASE UNCHANGED <<bottom, buffer, top, b, t, pc>>
  BY <1>1, <1>u DEF OwnInv, Own, ReadBottom
<1>2. CASE Push
  <2>1. pc'[u] = "unspawned"
    BY <1>2 DEF Push, PhaseInv
  <2> QED
    BY <2>1 DEF OwnInv, Popping
<1>3. CASE Spawn
  <2>1. /\ pc'[u] = pc[u] \/ (pc[u] = "unspawned" /\ pc'[u] = "loop")
        /\ Own(u)' = Own(u) /\ UNCHANGED <<top, b, t>>
    BY <1>3, SpawnFrame
  <2> QED
    BY <2>1, <1>u DEF OwnInv, Popping
<1>4. ASSUME NEW w \in Workers, Worker(w), u # w PROVE OwnInv(u)'
  <2>1. pc'[u] = pc[u] /\ b'[u] = b[u] /\ t'[u] = t[u] /\ Own(u)' = Own(u)
    BY <1>4, OthersUntouched
  <2>2. top'[u] >= top[u] /\ top[u] \in Nat /\ top'[u] \in Nat /\ b[u] \in Nat
    BY <1>4, TopGrows DEF TypeOK, DequeTypes, LocalTypes
  <2> QED
    BY <2>1, <2>2, <1>u DEF OwnInv
<1>5. CASE Worker(u)
  <2>t. /\ pc \in [Workers -> Labels] /\ b \in [Workers -> Nat] /\ t \in [Workers -> Nat]
        /\ top \in [Workers -> Nat] /\ Own(u) \in Nat
    BY OwnType DEF TypeOK, LocalTypes, DequeTypes
  <2>1. CASE PopBegin(u)
    <3>1. pc[u] = "loop" /\ pc'[u] = "pop_top" /\ b'[u] = Own(u)' /\ Own(u)' = Own(u) - 1
          /\ Own(u) >= 1
      <4>1. pc[u] = "loop"
        BY <2>1 DEF PopBegin
      <4> QED
        BY <1>5, <1>u, <2>1, <4>1, OwnMoves
    <3>2. Own(u) <= MaxItems
      BY <3>1 DEF StoresInv, Filled, Extent, Popping
    <3>3. b'[u] \in Items
      BY <2>t, <3>1, <3>2, MaxItemsAssumption DEF Items
    <3> QED
      BY <3>1, <3>3 DEF OwnInv
  <2>2. CASE PopEnd(u)
    <3>1. pc'[u] \in {"process", "steal_top"}
      BY <2>t, <2>2 DEF PopEnd, Goto
    <3> QED
      BY <3>1 DEF OwnInv, Popping
  <2>3. CASE ~ PopBegin(u) /\ ~ PopEnd(u)
    <3>1. Own(u)' = Own(u)
      BY <1>5, <2>3, NoStore
    <3> USE <1>u, <2>t, <3>1 DEF OwnInv, Popping, Goto, dequeVars
    <3>2. CASE PopTakes(u)
      BY <3>2 DEF PopTakes
    <3>3. CASE PopFindsEmpty(u) \/ PopFindsLast(u)
      BY <3>3 DEF PopFindsEmpty, PopFindsLast
    <3>4. CASE PopCas(u)
      BY <3>4 DEF PopCas
    <3>5. CASE \/ LoopStops(u) \/ StealTop(u) \/ StealBottom(u)
               \/ StealCas(u) \/ Process(u) \/ ScanBottom(u) \/ ScanTop(u) \/ Exit(u)
      <4>1. pc'[u] \notin Popping
        BY <3>5, OutsidePop
      <4> QED
        BY <4>1
    <3> QED
      BY <1>5, <2>3, <3>2, <3>3, <3>4, <3>5 DEF Worker
  <2> QED
    BY <2>1, <2>2, <2>3
<1>6. ASSUME NEW w \in Workers, Flush(w) PROVE OwnInv(u)'
  <2>1. Own(u)' = Own(u) /\ UNCHANGED <<top, b, t, pc>>
    BY <1>6, FlushSeen, FlushFrame
  <2> QED
    BY <1>u, <2>1 DEF OwnInv
<1>7. CASE (\E len \in 0 .. MaxItems : Run(len)) \/ SequentialItem
  <2>1. UNCHANGED <<bottom, buffer, top, b, t, pc>>
    BY <1>7 DEF Run, SequentialItem, localVars
  <2> QED
    BY <1>1, <2>1
<1>8. CASE Quiet
  BY <1>1, <1>8, QuietFrame
<1> QED
  BY <1>2, <1>3, <1>4, <1>5, <1>6, <1>7, <1>8, StepKinds

(* Every step keeps what a thief knows of its victim.                        *)
LEMMA ThiefStep ==
  ASSUME Core, TypeOK', [Next]_vars, NEW u \in Workers
  PROVE  ThiefInv(u)'
<1> USE DEF Core
<1> DEFINE v == victim[u]
<1>u. ThiefInv(u) /\ v \in Workers
  BY DEF LocalInv, TypeOK, LocalTypes
<1>1. CASE UNCHANGED <<array, top, t, victim, pc>>
  BY <1>1, <1>u DEF ThiefInv
<1>2. CASE Push
  <2>1. pc'[u] = "unspawned"
    BY <1>2 DEF Push, PhaseInv
  <2> QED
    BY <2>1 DEF ThiefInv
<1>3. CASE Spawn
  <2>1. /\ pc'[u] = pc[u] \/ (pc[u] = "unspawned" /\ pc'[u] = "loop")
        /\ UNCHANGED <<array, top, t, victim>>
    BY <1>3, SpawnFrame
  <2> QED
    BY <2>1, <1>u DEF ThiefInv
<1>4. ASSUME NEW w \in Workers, Worker(w), u # w PROVE ThiefInv(u)'
  <2>1. pc'[u] = pc[u] /\ t'[u] = t[u] /\ v' = v /\ array' = array
    BY <1>4, OthersUntouched
  <2>2. top'[v] >= top[v] /\ top[v] \in Nat /\ top'[v] \in Nat /\ t[u] \in Nat
    BY <1>4, <1>u, TopGrows DEF TypeOK, DequeTypes, LocalTypes
  <2> QED
    BY <1>u, <2>1, <2>2 DEF ThiefInv
<1>5. CASE StealTop(u)
  <2>1. CASE WorkerCount = 1
    <3>1. pc'[u] = "scan_bottom"
      BY <1>5, <2>1 DEF StealTop, StartScan, Goto, TypeOK
    <3> QED
      BY <3>1 DEF ThiefInv
  <2>2. CASE WorkerCount # 1
    BY <1>5, <2>2 DEF StealTop, ThiefInv, Goto, dequeVars, TypeOK, DequeTypes, LocalTypes
  <2> QED
    BY <2>1, <2>2
<1>6. CASE StealBottom(u)
  <2>1. CASE t[u] < bottom[v] /\ pc' = [pc EXCEPT ![u] = "steal_cas"]
    <3>1. pc[u] = "steal_bottom" /\ t[u] <= top[v] /\ t[u] \in Nat /\ bottom[v] \in Nat
      BY <1>6, <1>u DEF StealBottom, ThiefInv, TypeOK, LocalTypes, DequeTypes
    <3>2. Filled(v, bottom[v])
      BY <1>u DEF StoresInv
    <3>3. t[u] \in Items
      BY <2>1, <3>1, <3>2, MaxItemsAssumption DEF Filled, Items
    <3>4. array[v][t[u]] # NoItem
      BY <2>1, <3>2, <3>3 DEF Filled
    <3>5. UNCHANGED <<array, top, t, victim>>
      <4>1. pc'[u] = "steal_cas"
        BY <2>1 DEF TypeOK
      <4> QED
        BY <1>6, <4>1 DEF StealBottom, StartScan, dequeVars, Goto, TypeOK
    <3> QED
      BY <3>1, <3>3, <3>4, <3>5 DEF ThiefInv
  <2>2. CASE pc' = [pc EXCEPT ![u] = "scan_bottom"]
    BY <2>2 DEF ThiefInv, TypeOK
  <2> QED
    BY <1>6, <2>1, <2>2 DEF StealBottom, StartScan, Goto
<1>7. CASE Worker(u) /\ ~ StealTop(u) /\ ~ StealBottom(u)
  <2>1. pc'[u] \notin {"steal_bottom", "steal_cas"}
    BY <1>7 DEF Worker, PopBegin, LoopStops, PopTakes, PopFindsEmpty, PopFindsLast,
       PopCas, PopEnd, StealCas, Process, ScanBottom, ScanTop, Exit,
       StartScan, Goto, TypeOK
  <2> QED
    BY <2>1 DEF ThiefInv
<1>8. ASSUME NEW w \in Workers, Flush(w) PROVE ThiefInv(u)'
  BY <1>1, <1>8, FlushFrame
<1>9. CASE \E len \in 0 .. MaxItems : Run(len)
  BY <1>1, <1>9 DEF Run, localVars
<1>10. CASE SequentialItem
  BY <1>1, <1>10 DEF SequentialItem, localVars
<1>11. CASE Quiet
  BY <1>1, <1>11, QuietFrame
<1> QED
  BY <1>2, <1>3, <1>4, <1>5, <1>6, <1>7, <1>8, <1>9, <1>10, <1>11, StepKinds

(* Only a push writes an array, and what it writes is in no slot yet.        *)
LEMMA DistinctStep ==
  ASSUME TypeOK, PhaseInv, DistinctInv, [Next]_vars
  PROVE  DistinctInv'
<1>1. CASE array' = array
  BY <1>1 DEF DistinctInv
<1>2. CASE Push
  <2> DEFINE w == next % WorkerCount
  <2>1. \A v \in Workers : \A k \in Items :
           /\ array[v][k] < next /\ array[v][k] \in Items \cup {NoItem}
           /\ IF v = w /\ k = bottom[v] THEN array'[v][k] = next
              ELSE array'[v][k] \in {array[v][k], NoItem}
    <3> TAKE v \in Workers
    <3> TAKE k \in Items
    <3>1. array[v][k] < next
      BY <1>2 DEF Push, PhaseInv
    <3>2. array[v][k] \in Items \cup {NoItem}
      BY DEF TypeOK, DequeTypes
    <3> QED
      BY <1>2, <3>1, <3>2, PushedSlots, Zenon
  <2>2. next \in Nat
    BY DEF TypeOK, MainTypes
  <2> HIDE DEF w
  <2> SUFFICES ASSUME NEW v \in Workers, NEW u \in Workers,
                      NEW k \in Items, NEW j \in Items,
                      array'[v][k] = array'[u][j], array'[v][k] # NoItem
               PROVE  v = u /\ k = j
    BY DEF DistinctInv
  <2>3. array[v][k] # next /\ array[u][j] # next
    BY <2>1, <2>2 DEF Items, NoItem
  <2>4. CASE (v = w /\ k = bottom[v]) /\ (u = w /\ j = bottom[u])
    BY <2>4
  <2>5. CASE ~(v = w /\ k = bottom[v]) /\ ~(u = w /\ j = bottom[u])
    <3>1. array'[v][k] = array[v][k] /\ array'[u][j] = array[u][j]
      <4>1. array'[v][k] \in {array[v][k], NoItem} /\ array'[u][j] \in {array[u][j], NoItem}
        BY <2>1, <2>5, Zenon
      <4> QED
        BY <4>1
    <3>2. array[v][k] = array[u][j] /\ array[v][k] # NoItem
      BY <3>1, Zenon
    <3> QED
      <4>1. \A v_1, u_1 \in Workers : \A k_1, j_1 \in Items :
               array[v_1][k_1] = array[u_1][j_1] /\ array[v_1][k_1] # NoItem
                  => v_1 = u_1 /\ k_1 = j_1
        BY Zenon DEF DistinctInv
      <4>2. \A j_1 \in Items :
               array[v][k] = array[u][j_1] /\ array[v][k] # NoItem => v = u /\ k = j_1
        BY <4>1
      <4> QED
        BY <3>2, <4>2
  <2>6. CASE (v = w /\ k = bottom[v]) /\ ~(u = w /\ j = bottom[u])
    BY <2>1, <2>3, <2>6
  <2>7. CASE ~(v = w /\ k = bottom[v]) /\ (u = w /\ j = bottom[u])
    BY <2>1, <2>3, <2>7
  <2> QED
    BY <2>4, <2>5, <2>6, <2>7
<1>3. ASSUME NEW w \in Workers, Worker(w) PROVE array' = array
  BY <1>3 DEF Worker, PopBegin, LoopStops, PopTakes, PopFindsEmpty, PopFindsLast,
     PopCas, PopEnd, StealTop, StealBottom, StealCas, Process,
     ScanBottom, ScanTop, Exit, mainVars, dequeVars
<1>4. ASSUME NEW w \in Workers, Flush(w) PROVE array' = array
  BY <1>4, FlushFrame
<1>5. CASE \/ \E len \in 0 .. MaxItems : Run(len)
           \/ SequentialItem \/ SequentialReturn \/ PushOutOfMemory \/ AllocThreads
           \/ Spawn \/ SpawnDone \/ Join \/ JoinUndefinedHandle \/ Return \/ UNCHANGED vars
  <2>1. array' = array
    BY <1>5 DEF Run, SequentialItem, SequentialReturn, PushOutOfMemory, AllocThreads,
       Spawn, SpawnDone, Join, JoinUndefinedHandle, Return, dequeVars, localVars, vars
  <2> QED
    BY <1>1, <2>1
<1> QED
  BY <1>1, <1>2, <1>3, <1>4, <1>5 DEF Next, Main, Stopped

-----------------------------------------------------------------------------
(* Before a worker runs, its deque is as the main thread filled it.          *)
LEMMA PushKeeps ==
  ASSUME TypeOK, PhaseInv, Push
  PROVE  /\ bottom' = [bottom EXCEPT ![next % WorkerCount] = @ + 1]
         /\ \A v \in Workers : top'[v] = 0
         /\ \A v \in Workers : \A k \in Items :
              /\ v = next % WorkerCount /\ k = bottom[v] => array'[v][k] = next
              /\ k < bottom[v] => array'[v][k] = array[v][k]
<1> DEFINE w == next % WorkerCount
           size == bottom[w] - top[w]
           moved == [k \in Items |-> IF k < size /\ k + top[w] \in Items
                                     THEN array[w][k + top[w]] ELSE NoItem]
           base == IF size >= capacity[w] THEN moved ELSE array[w]
<1>1. w \in Workers
  BY DequeIndex DEF TypeOK, MainTypes
<1>2. array' = [array EXCEPT ![w] = [base EXCEPT ![bottom[w]] = next]]
  BY DEF Push
<1>3. \A v \in Workers : top[v] = 0
  BY DEF Push, PhaseInv
<1>3a. \A v \in Workers : top'[v] = 0
  BY <1>1, <1>3 DEF Push, TypeOK, DequeTypes
<1>4. bottom' = [bottom EXCEPT ![w] = @ + 1]
  BY DEF Push
<1>5. \A k \in Items : k < bottom[w] => moved[k] = array[w][k]
  BY <1>1, <1>3 DEF Items, TypeOK, DequeTypes
<1>6. array[w] \in [Items -> Items \cup {NoItem}] /\ DOMAIN moved = Items
  BY <1>1 DEF TypeOK, DequeTypes
<1>7. DOMAIN base = Items /\ \A k \in Items : k < bottom[w] => base[k] = array[w][k]
  BY <1>5, <1>6
<1>8. array \in [Workers -> [Items -> Items \cup {NoItem}]] /\ bottom[w] \in Nat
  BY <1>1 DEF TypeOK, DequeTypes
<1> HIDE DEF w, size, moved, base
<1>9. array'[w] = [base EXCEPT ![bottom[w]] = next]
  BY <1>1, <1>2, <1>8
<1>10. \A v \in Workers : v # w => array'[v] = array[v]
  BY <1>2, <1>8
<1>11. \A k \in Items : /\ k = bottom[w] => array'[w][k] = next
                        /\ k < bottom[w] => array'[w][k] = array[w][k]
  BY <1>7, <1>8, <1>9 DEF Items
<1>12. \A v \in Workers : \A k \in Items :
          /\ v = w /\ k = bottom[v] => array'[v][k] = next
          /\ k < bottom[v] => array'[v][k] = array[v][k]
  BY <1>10, <1>11
<1> QED
  BY <1>3a, <1>4, <1>12 DEF w

(* Before the workers run memory is what the owner sees.                     *)
LEMMA Unspawned ==
  ASSUME TypeOK, PhaseInv, mpc \in {"start", "sequential", "push"}
  PROVE  \A w \in Workers : /\ OwnerBottom(w) = bottom[w] /\ Extent(w) = bottom[w]
                            /\ Own(w) = bottom[w] /\ DOMAIN buffer[w] = {}
BY DEF PhaseInv, OwnerBottom, ReadBottom, Extent, Popping, Own

(* Every step keeps StockInv.                                                *)
LEMMA StockStep ==
  ASSUME Core, TypeOK', PhaseInv', [Next]_vars
  PROVE  StockInv'
<1> USE WorkerCountAssumption DEF Core, StockInv
<1>t. \A w \in Workers : bottom[w] \in Nat /\ bottom'[w] \in Nat /\ Own(w) \in Nat
  BY OwnType DEF TypeOK, DequeTypes
<1>1. ASSUME NEW len \in 0 .. MaxItems, Run(len) PROVE StockInv'
  <2>1. UNCHANGED <<bottom, pc>> /\ next' = 0 /\ n' = len
    BY <1>1 DEF Run, PhaseInv
  <2>2. mpc' = "push" => WorkerCount <= len
    <3>1. \A c \in Nat \ {0} : WorkerCount <= WorkerCount * c
      OBVIOUS
    <3>2. mpc' = "push" => len >= WorkerCount * MinPerWorker
      BY <1>1 DEF Run
    <3>3. WorkerCount <= WorkerCount * MinPerWorker /\ WorkerCount * MinPerWorker \in Int
      BY <3>1, MinPerWorkerAssumption
    <3> HIDE DEF StockInv
    <3> QED
      BY <3>2, <3>3
  <2>3. mpc' # "spawn" /\ mpc = "start"
    BY <1>1 DEF Run
  <2>4. \A w \in Workers : ~(w < next')
    BY <2>1 DEF Workers
  <2>5. \A w \in Workers : pc'[w] = "unspawned"
    BY <2>1, <2>3 DEF PhaseInv
  <2> QED
    BY <2>1, <2>2, <2>3, <2>4, <2>5
<1>2. CASE SequentialItem
  <2>1. mpc = "sequential" /\ mpc' = "sequential" /\ pc' = pc
    BY <1>2 DEF SequentialItem
  <2>2. \A w \in Workers : pc'[w] = "unspawned"
    BY <2>1 DEF PhaseInv
  <2> QED
    BY <2>1, <2>2
<1>3. CASE Push
  <2> DEFINE v == next % WorkerCount
  <2>1. mpc = "push" /\ mpc' = "push" /\ next' = next + 1 /\ n' = n /\ pc' = pc
    BY <1>3 DEF Push
  <2>2. v \in Workers /\ next \in Nat
    BY DequeIndex DEF TypeOK, MainTypes
  <2>3. bottom' = [bottom EXCEPT ![v] = @ + 1]
    BY <1>3, PushKeeps
  <2>4. \A w \in Workers : w < next + 1 => w < next \/ w = v
    BY <2>2, SMT DEF Workers
  <2>5. bottom'[v] >= 1
    BY <1>t, <2>2, <2>3 DEF TypeOK, DequeTypes
  <2> HIDE DEF v
  <2>6. \A w \in Workers : bottom'[w] >= bottom[w]
    BY <1>t, <2>2, <2>3 DEF TypeOK, DequeTypes
  <2>7. \A w \in Workers : w < next' => bottom'[w] >= 1
    BY <1>t, <2>1, <2>4, <2>5, <2>6
  <2>8. \A w \in Workers : pc'[w] = "unspawned"
    BY <2>1 DEF PhaseInv
  <2> QED
    BY <2>1, <2>7, <2>8
<1>4. CASE Spawn
  <2>1. /\ mpc = "spawn" /\ mpc' = "spawn"
        /\ \A v \in Workers : /\ pc'[v] = pc[v] \/ (pc[v] = "unspawned" /\ pc'[v] = "loop")
                              /\ Own(v)' = Own(v)
    BY <1>4, SpawnFrame
  <2> QED
    BY <2>1 DEF Popping
<1>5. CASE Quiet
  <2>1. UNCHANGED <<n, bottom, pc>> /\ \A w \in Workers : Own(w)' = Own(w)
    BY <1>5, QuietFrame DEF Own, ReadBottom
  <2>2. mpc' = "push" => mpc = "push" /\ next' = next
    BY <1>5 DEF Quiet, SequentialReturn, PushOutOfMemory, AllocThreads, SpawnDone,
                Join, JoinUndefinedHandle, Return, Stopped, vars, Ended
  <2>3. mpc' = "spawn" => mpc = "spawn" \/ (mpc = "push" /\ next = n)
    BY <1>5 DEF Quiet, SequentialReturn, PushOutOfMemory, AllocThreads, SpawnDone,
                Join, JoinUndefinedHandle, Return, Stopped, vars, Ended
  <2>4. mpc = "push" /\ next = n => \A w \in Workers : w < next
    BY DEF Workers, TypeOK, MainTypes
  <2>5. mpc = "push" => \A w \in Workers : Own(w) = bottom[w]
    BY Unspawned
  <2> QED
    BY <2>1, <2>2, <2>3, <2>4, <2>5
<1>6. ASSUME NEW w \in Workers, Worker(w) PROVE StockInv'
  <2>1. mpc' = mpc /\ mpc # "push" /\ pc'[w] # "unspawned" /\ pc[w] # "unspawned"
    BY <1>6, WorkerFrame DEF mainVars
  <2>2. \A u \in Workers : u # w => pc'[u] = pc[u] /\ Own(u)' = Own(u)
    BY <1>6, OthersUntouched
  <2>3. SUFFICES pc'[w] \notin Popping => Own(w)' >= 1
    BY <2>1, <2>2
  <2>4. OwnInv(w) /\ top[w] \in Nat /\ b[w] \in Nat /\ pc \in [Workers -> Labels]
    BY DEF LocalInv, TypeOK, DequeTypes, LocalTypes
  <2>5. CASE Own(w)' = Own(w) + 1 \/ pc'[w] = "pop_top"
    BY <1>t, <2>5 DEF Popping
  <2>6. CASE Own(w)' = Own(w) /\ ~ PopBegin(w) /\ ~ PopEnd(w)
    <3>1. CASE PopTakes(w)
      BY <2>4, <2>6, <3>1, <1>t DEF PopTakes, OwnInv, Popping
    <3>2. CASE PopFindsEmpty(w) \/ PopFindsLast(w) \/ PopCas(w)
      BY <2>4, <3>2 DEF PopFindsEmpty, PopFindsLast, PopCas, Goto, Popping
    <3>3. CASE \/ LoopStops(w) \/ StealTop(w) \/ StealBottom(w)
               \/ StealCas(w) \/ Process(w) \/ ScanBottom(w) \/ ScanTop(w) \/ Exit(w)
      <4>1. pc[w] \notin Popping
        BY <3>3, OutsidePop
      <4> QED
        BY <2>1, <2>6, <4>1
    <3> QED
      BY <1>6, <2>6, <3>1, <3>2, <3>3 DEF Worker
  <2> QED
    BY <1>6, <2>4, <2>5, <2>6, OwnMoves
<1>7. ASSUME NEW w \in Workers, Flush(w) PROVE StockInv'
  <2>1. /\ UNCHANGED <<mpc, pc>> /\ mpc \notin {"start", "sequential", "push"}
        /\ \A u \in Workers : Own(u)' = Own(u)
    BY <1>7, FlushFrame, FlushSeen
  <2> QED
    BY <2>1
<1> QED
  BY <1>1, <1>2, <1>3, <1>4, <1>5, <1>6, <1>7, StepKinds

(* Every step keeps StoresInv: a store is of no more than the extent, and the *)
(* extent moves up over a written slot only.                                 *)
LEMMA StoresStep ==
  ASSUME Core, TypeOK', PhaseInv', [Next]_vars
  PROVE  StoresInv'
<1> USE DEF Core
<1> DEFINE Ok(v, x) == x <= MaxItems /\ \A k \in Items : k < x => array'[v][k] # NoItem
<1>s. SUFFICES \A v \in Workers : /\ Ok(v, Extent(v)') /\ Ok(v, bottom'[v])
                                  /\ \A j \in DOMAIN buffer'[v] : Ok(v, buffer'[v][j])
  BY DEF StoresInv, Filled
<1>i. \A k \in Items : k \in Nat
  BY DEF Items
<1>b. \A v \in Workers : /\ Own(v) \in Nat /\ Own(v)' \in Nat
                         /\ Extent(v) \in Nat /\ Extent(v)' \in Nat
  BY OwnType, OwnTypePrimed DEF Extent
<1>f. \A v \in Workers : /\ Filled(v, Extent(v)) /\ Filled(v, bottom[v])
                         /\ \A j \in DOMAIN buffer[v] : Filled(v, buffer[v][j])
  BY DEF StoresInv
<1>0. ASSUME array' = array
      PROVE  \A v \in Workers : \A x : Filled(v, x) => Ok(v, x)
  BY <1>0 DEF Filled
<1>m. ASSUME array' = array, NEW v \in Workers, NEW x \in Nat, NEW y \in Nat,
             Filled(v, x), y <= x
      PROVE  Ok(v, y)
  BY <1>m, <1>i, MaxItemsAssumption DEF Filled
<1>1. CASE UNCHANGED <<array, bottom, buffer, pc>>
  <2>1. \A v \in Workers : Extent(v)' = Extent(v)
    BY <1>1 DEF Extent, Own, ReadBottom
  <2>2. \A v \in Workers : \A x : Filled(v, x) => Ok(v, x)
    BY <1>0, <1>1
  <2> HIDE DEF Ok
  <2> QED
    BY <1>1, <1>f, <2>1, <2>2
<1>3. CASE Push
  <2>1. /\ mpc = "push" /\ mpc' = "push" /\ next \in Nat /\ next < MaxItems
    BY <1>3, MaxItemsAssumption DEF Push, TypeOK, MainTypes
  <2>2. \A v \in Workers : /\ Extent(v) = bottom[v] /\ Extent(v)' = bottom'[v]
                           /\ DOMAIN buffer'[v] = {}
    BY <2>1 DEF PhaseInv, Extent, Popping, Own, ReadBottom
  <2>3. \A v \in Workers : bottom'[v] = IF v = next % WorkerCount THEN bottom[v] + 1 ELSE bottom[v]
    BY <1>3, PushKeeps DEF TypeOK, DequeTypes
  <2>4. \A v \in Workers : \A k \in Items :
          /\ v = next % WorkerCount /\ k = bottom[v] => array'[v][k] # NoItem
          /\ k < bottom[v] => array'[v][k] = array[v][k]
    BY <1>3, <2>1, PushKeeps DEF NoItem
  <2>5. SUFFICES ASSUME NEW v \in Workers PROVE Ok(v, bottom'[v])
    BY <2>2
  <2>6. bottom'[v] <= next + 1 /\ bottom[v] \in Nat /\ bottom'[v] \in Nat
    BY <1>3, <2>1 DEF PhaseInv, TypeOK, DequeTypes, Push
  <2>7. bottom'[v] <= MaxItems
    BY <2>1, <2>6, MaxItemsAssumption
  <2>8. ASSUME NEW k \in Items, k < bottom'[v] PROVE array'[v][k] # NoItem
    <3>1. k < bottom[v] \/ (v = next % WorkerCount /\ k = bottom[v])
      BY <1>i, <2>3, <2>6, <2>8
    <3>2. k < bottom[v] => array[v][k] # NoItem
      BY <1>f, <2>2 DEF Filled
    <3> QED
      BY <2>4, <3>1, <3>2
  <2> QED
    BY <2>7, <2>8
<1>4. CASE Spawn
  <2>1. /\ UNCHANGED <<array, bottom, buffer>>
        /\ \A v \in Workers : /\ pc'[v] = pc[v] \/ (pc[v] = "unspawned" /\ pc'[v] = "loop")
                              /\ Own(v)' = Own(v)
    BY <1>4, SpawnFrame
  <2>2. \A v \in Workers : Extent(v)' = Extent(v)
    BY <2>1 DEF Extent, Popping
  <2>3. \A v \in Workers : \A x : Filled(v, x) => Ok(v, x)
    BY <1>0, <2>1
  <2> HIDE DEF Ok
  <2> QED
    BY <1>f, <2>1, <2>2, <2>3
<1>5. ASSUME NEW w \in Workers, Flush(w)
      PROVE  \A v \in Workers : /\ Ok(v, Extent(v)') /\ Ok(v, bottom'[v])
                                /\ \A j \in DOMAIN buffer'[v] : Ok(v, buffer'[v][j])
  <2>1. UNCHANGED <<array, pc>>
    BY <1>5, FlushFrame
  <2>2. /\ \A u \in Workers : Own(u)' = Own(u)
        /\ \A u \in Workers : \/ bottom'[u] = bottom[u]
                               \/ \E j \in DOMAIN buffer[u] : bottom'[u] = buffer[u][j]
        /\ \A u \in Workers : \A j \in DOMAIN buffer'[u] :
              \E i \in DOMAIN buffer[u] : buffer'[u][j] = buffer[u][i]
    BY <1>5, FlushSeen
  <2>3. \A v \in Workers : Extent(v)' = Extent(v)
    BY <2>1, <2>2 DEF Extent
  <2>4. \A v \in Workers : \A x : Filled(v, x) => Ok(v, x)
    BY <1>0, <2>1
  <2> HIDE DEF Ok
  <2>5. \A v \in Workers : Ok(v, bottom'[v])
    BY <1>f, <2>2, <2>4
  <2>6. \A v \in Workers : \A j \in DOMAIN buffer'[v] : Ok(v, buffer'[v][j])
    BY <1>f, <2>2, <2>4
  <2> QED
    BY <1>f, <2>3, <2>4, <2>5, <2>6
<1>6. ASSUME NEW w \in Workers, Worker(w)
      PROVE  \A v \in Workers : /\ Ok(v, Extent(v)') /\ Ok(v, bottom'[v])
                                /\ \A j \in DOMAIN buffer'[v] : Ok(v, buffer'[v][j])
  <2>1. array' = array
    BY <1>6, WorkerFrame
  <2>2. \A u \in Workers : u # w => /\ pc'[u] = pc[u] /\ Own(u)' = Own(u)
                                    /\ bottom'[u] = bottom[u] /\ buffer'[u] = buffer[u]
    BY <1>6, OthersUntouched
  <2>3. \A u \in Workers : u # w => Extent(u)' = Extent(u)
    BY <2>2 DEF Extent
  <2>4. \A v \in Workers : \A x : Filled(v, x) => Ok(v, x)
    BY <1>0, <2>1
  <2>5. OwnInv(w) /\ pc \in [Workers -> Labels]
    BY DEF LocalInv, TypeOK
  <2>6. /\ Extent(w)' <= Extent(w)
        /\ \/ UNCHANGED <<bottom, buffer>>
           \/ \E x \in Nat : x <= Extent(w) /\ StoreBottom(w, x)
    <3>1. CASE PopBegin(w)
      <4>1. PICK x \in Nat : StoreBottom(w, x)
        BY <3>1, PopStores
      <4>2. Own(w)' = x
        BY <4>1, StoreSeen
      <4>3. pc[w] = "loop" /\ pc'[w] = "pop_top" /\ Own(w)' = Own(w) - 1
        <5>1. pc[w] = "loop"
          BY <3>1 DEF PopBegin
        <5> QED
          BY <1>6, <2>5, <3>1, <5>1, OwnMoves
      <4>4. Extent(w)' = Own(w) /\ Extent(w) = Own(w) /\ x <= Own(w)
        BY <1>b, <4>2, <4>3 DEF Extent, Popping
      <4> QED
        BY <1>b, <4>1, <4>4
    <3>2. CASE PopEnd(w)
      <4>1. b[w] + 1 \in Nat /\ StoreBottom(w, b[w] + 1)
        BY <3>2, PopStores
      <4>2. Own(w)' = b[w] + 1
        BY <4>1, StoreSeen
      <4>3. pc[w] \in {"pop_restore", "pop_advance"} /\ pc'[w] \in {"process", "steal_top"}
        BY <2>5, <3>2 DEF PopEnd, Goto
      <4>4. Extent(w)' = b[w] + 1 /\ Extent(w) = b[w] + 1
        BY <2>5, <4>2, <4>3 DEF Extent, Popping, OwnInv
      <4> QED
        BY <1>b, <4>1, <4>4
    <3>3. CASE ~ PopBegin(w) /\ ~ PopEnd(w)
      <4>1. Own(w)' = Own(w) /\ UNCHANGED <<bottom, buffer>>
        BY <1>6, <3>3, NoStore
      <4>2. pc[w] \notin Popping => pc'[w] \notin Popping
        <5>1. CASE PopTakes(w) \/ PopFindsEmpty(w) \/ PopFindsLast(w) \/ PopCas(w)
          BY <5>1 DEF PopTakes, PopFindsEmpty, PopFindsLast, PopCas, Popping
        <5>2. CASE \/ LoopStops(w) \/ StealTop(w) \/ StealBottom(w)
                   \/ StealCas(w) \/ Process(w) \/ ScanBottom(w) \/ ScanTop(w) \/ Exit(w)
          BY <5>2, OutsidePop
        <5> QED
          BY <1>6, <3>3, <5>1, <5>2 DEF Worker
      <4> QED
        BY <1>b, <4>1, <4>2 DEF Extent
    <3> QED
      BY <3>1, <3>2, <3>3
  <2>7. Ok(w, Extent(w)')
    BY <1>b, <1>f, <1>m, <2>1, <2>6
  <2>8. CASE UNCHANGED <<bottom, buffer>>
    <3> HIDE DEF Ok
    <3> QED
      BY <1>f, <2>2, <2>3, <2>4, <2>7, <2>8
  <2>9. ASSUME NEW x \in Nat, x <= Extent(w), StoreBottom(w, x)
        PROVE  \A v \in Workers : /\ Ok(v, Extent(v)') /\ Ok(v, bottom'[v])
                                  /\ \A j \in DOMAIN buffer'[v] : Ok(v, buffer'[v][j])
    <3>1. Ok(w, x)
      BY <1>b, <1>f, <1>m, <2>1, <2>9
    <3>2. /\ bottom'[w] \in {bottom[w], x}
          /\ \A j \in DOMAIN buffer'[w] :
              buffer'[w][j] = x \/ (j \in DOMAIN buffer[w] /\ buffer'[w][j] = buffer[w][j])
      BY <2>9, StoreSeen
    <3> HIDE DEF Ok
    <3>3. Ok(w, bottom'[w]) /\ \A j \in DOMAIN buffer'[w] : Ok(w, buffer'[w][j])
      BY <1>f, <2>4, <3>1, <3>2
    <3> QED
      BY <1>f, <2>2, <2>3, <2>4, <2>7, <3>3
  <2> QED
    BY <2>6, <2>8, <2>9
<1>7. CASE (\E len \in 0 .. MaxItems : Run(len)) \/ SequentialItem \/ Quiet
  <2>1. UNCHANGED <<array, bottom, buffer, pc>>
    BY <1>7, QuietFrame DEF Run, SequentialItem
  <2> HIDE DEF Ok
  <2> QED
    BY <1>1, <2>1
<1> QED
  BY <1>3, <1>4, <1>5, <1>6, <1>7, StepKinds

(* Core holds before run() is called.                                        *)
LEMMA InitCore == Init => Core
<1> SUFFICES ASSUME Init PROVE Core
  OBVIOUS
<1> USE WorkerCountAssumption, MaxItemsAssumption, CapacityAssumption DEF Init
<1>1. TypeOK
  <2>1. MainTypes
    <3>1. n \in 0 .. MaxItems /\ next \in Nat
      OBVIOUS
    <3> QED
      BY <3>1, Zenon DEF MainTypes
  <2>1a. array \in [Workers -> [Items -> Items \cup {NoItem}]]
    OBVIOUS
  <2>1b. DequeTypes
    BY <2>1a DEF DequeTypes
  <2>2. 0 \in Workers /\ Zero \in Result
    BY DEF Workers, Zero, Result
  <2>3. LocalTypes /\ CountTypes /\ pc \in [Workers -> Labels]
    BY <2>2 DEF LocalTypes, CountTypes, Labels
  <2> QED
    BY <2>1, <2>1b, <2>3 DEF TypeOK
<1>2. PhaseInv
  BY BufferDepthAssumption DEF PhaseInv, NoItem
<1>3. \A w \in Workers : Own(w) = 0 /\ Extent(w) = 0
  BY DEF Own, ReadBottom, Extent, Popping
<1>4. \A w \in Workers : LocalInv(w)
  BY DEF LocalInv, OwnInv, ThiefInv, Popping
<1>5. StoresInv
  <2>1. \A v \in Workers : Filled(v, 0)
    BY DEF Filled, Items
  <2>2. \A v \in Workers : bottom[v] = 0 /\ DOMAIN buffer[v] = {}
    OBVIOUS
  <2> QED
    BY <1>3, <2>1, <2>2 DEF StoresInv
<1>6. StockInv /\ DistinctInv
  BY DEF StockInv, DistinctInv
<1> QED
  BY <1>1, <1>2, <1>4, <1>5, <1>6 DEF Core

(* Core is inductive.                                                        *)
LEMMA NextCore ==
  ASSUME Core, [Next]_vars
  PROVE  Core'
<1>1. TypeOK'
  BY TypeStep DEF Core
<1>2. PhaseInv'
  BY PhaseStep DEF Core
<1>3. \A w \in Workers : LocalInv(w)'
  BY <1>1, <1>2, OwnStep, ThiefStep DEF LocalInv
<1>4. StockInv' /\ StoresInv'
  BY <1>1, <1>2, StockStep, StoresStep
<1>5. DistinctInv'
  BY DistinctStep DEF Core
<1> QED
  BY <1>1, <1>2, <1>3, <1>4, <1>5 DEF Core

(* The variables have their types, however many stores a thread may have in   *)
(* flight: in particular no pop and no steal reads outside the array of its   *)
(* deque.                                                                    *)
THEOREM TypeCorrect == Spec => []TypeOK
<1>1. Init => Core
  BY InitCore
<1>2. Core /\ [Next]_vars => Core'
  BY NextCore
<1>3. Core => TypeOK
  BY DEF Core
<1> QED
  BY <1>1, <1>2, <1>3, PTL DEF Spec

-----------------------------------------------------------------------------
(* A slot from top on and below the owner's end is one nobody has claimed.   *)
InRange(v, k) == top[v] <= k /\ k < OwnerBottom(v)

(* Only the items of the run are handed out.                                 *)
BoundInv ==
  /\ mpc \in {"sequential", "push"} => next <= n
  /\ \A v \in Workers : \A k \in Items : array[v][k] < n
  /\ \A w \in Workers : item[w] < n
  /\ \A i \in Items : i >= n => calls[i] = 0

(* A worker has an item from the claim to the call.                          *)
HoldingInv ==
  \A w \in Workers : item[w] # NoItem <=> pc[w] \in {"process", "pop_advance"}

(* Every item the main thread has pushed is in a deque, with a worker or done. *)
Covered(i) ==
  \/ \E v \in Workers : \E k \in Items : InRange(v, k) /\ array[v][k] = i
  \/ \E w \in Workers : item[w] = i
  \/ calls[i] >= 1
CoverInv ==
  /\ mpc = "sequential" => \A i \in Items : i < next => calls[i] >= 1
  /\ mpc = "push" => \A i \in Items : i < next => Covered(i)
  /\ mpc \in {"spawn", "join"} => \A i \in Items : i < n => Covered(i)

(* A worker that has found its own deque empty on its way out leaves it so.  *)
DrainInv ==
  /\ mpc \in {"push", "spawn", "join"} => active
  /\ mpc = "join" => \A w \in Workers :
       pc[w] # "unspawned" /\ (w < next => pc[w] = "exited")
  /\ mpc = "returned" => \A w \in Workers : pc[w] \in {"unspawned", "exited"}
  /\ \A w \in Workers :
       /\ pc[w] = "scan_top" /\ victim[w] = w => b[w] = Own(w)
       /\ pc[w] \in {"scan_bottom", "scan_top"} /\ victim[w] > w => top[w] >= Own(w)
       /\ pc[w] \in {"exit", "exited"} /\ mpc \in {"spawn", "join"} => top[w] >= Own(w)

(* The counters, before they are handed over and after, add up to the calls. *)
Total(r) == SumFunction([w \in Workers |-> SumFunction(r[w])])
CountInv ==
  /\ mpc \in {"start", "push", "spawn", "join"} =>
       /\ Total(local) = SumFunction(calls)
       /\ \A w \in Workers : results[w] = IF pc[w] = "exited" THEN local[w] ELSE Zero
  /\ mpc \in {"sequential", "returned"} => Total(results) = SumFunction(calls)

ResultInv == /\ BoundInv /\ HoldingInv /\ CoverInv
             /\ DrainInv /\ CountInv /\ NoItemLost

-----------------------------------------------------------------------------
(* A slot in range holds an item.                                            *)
LEMMA SlotWritten ==
  ASSUME Core, NEW v \in Workers, NEW k \in Int, InRange(v, k)
  PROVE  k \in Items /\ array[v][k] \in Items
<1>1. /\ top[v] \in Nat /\ Own(v) \in Nat /\ OwnInv(v)
      /\ OwnerBottom(v) = IF pc[v] \in Popping \ {"pop_advance"}
                          THEN Own(v) + 1 ELSE Own(v)
  BY OwnerBottomValue, OwnType DEF Core, LocalInv, TypeOK, DequeTypes
<1>2. OwnerBottom(v) <= Extent(v) /\ Extent(v) \in Nat /\ OwnerBottom(v) \in Nat
  BY <1>1 DEF Extent
<1>3. Filled(v, Extent(v))
  BY DEF Core, StoresInv
<1>4. k \in Items /\ k < Extent(v)
  BY <1>1, <1>2, <1>3, MaxItemsAssumption DEF InRange, Items, Filled
<1>5. array[v][k] \in Items \cup {NoItem} /\ array[v][k] # NoItem
  BY <1>3, <1>4 DEF Core, TypeOK, DequeTypes, Filled
<1> QED
  BY <1>4, <1>5

(* So does the slot a worker is about to claim, in range or not.             *)
LEMMA ClaimReady ==
  ASSUME Core, NEW w \in Workers
  PROVE  /\ PopTakes(w) \/ PopCas(w) => b[w] \in Items /\ array[w][b[w]] \in Items
         /\ StealCas(w) => t[w] \in Items /\ array[victim[w]][t[w]] \in Items
<1>1. /\ OwnInv(w) /\ ThiefInv(w) /\ victim[w] \in Workers /\ Own(w) \in Nat
      /\ \A v \in Workers : \A k \in Items : array[v][k] \in Items \cup {NoItem}
      /\ \A k \in Items : k \in Nat
      /\ Filled(w, Extent(w))
  <2>1. OwnInv(w) /\ ThiefInv(w) /\ Own(w) \in Nat /\ Filled(w, Extent(w))
    BY OwnType DEF Core, LocalInv, StoresInv
  <2>2. victim[w] \in Workers
    BY DEF Core, TypeOK, LocalTypes
  <2>3. \A v \in Workers : \A k \in Items : array[v][k] \in Items \cup {NoItem}
    BY DEF Core, TypeOK, DequeTypes
  <2> QED
    BY <2>1, <2>2, <2>3 DEF Items
<1>2. CASE PopTakes(w) \/ PopCas(w)
  <2>1. pc[w] \in {"pop_top", "pop_cas"}
    BY <1>2 DEF PopTakes, PopCas
  <2>2. Own(w) = b[w] /\ b[w] \in Items /\ Extent(w) = Own(w) + 1
    BY <1>1, <2>1 DEF OwnInv, Popping, Extent
  <2>3. b[w] < Extent(w)
    BY <1>1, <2>2
  <2>4. array[w][b[w]] # NoItem
    BY <1>1, <2>2, <2>3 DEF Filled
  <2>5. ~ StealCas(w)
    BY <2>1 DEF StealCas
  <2> QED
    BY <1>1, <2>2, <2>4, <2>5
<1>3. CASE StealCas(w)
  <2>1. pc[w] = "steal_cas"
    BY <1>3 DEF StealCas
  <2>2. ~ PopTakes(w) /\ ~ PopCas(w)
    BY <2>1 DEF PopTakes, PopCas
  <2> QED
    BY <1>1, <2>1, <2>2 DEF ThiefInv
<1> QED
  BY <1>2, <1>3

(* A worker's step takes nothing, processes what it has, or takes the item of *)
(* some slot.                                                                *)
LEMMA StepTakes ==
  ASSUME Core, NEW w \in Workers, Worker(w)
  PROVE  \/ UNCHANGED <<item, calls>>
         \/ Process(w)
         \/ \E v \in Workers : \E k \in Items :
              /\ array[v][k] \in Items
              /\ item' = [item EXCEPT ![w] = array[v][k]] /\ calls' = calls
<1>1. CASE PopTakes(w)
  <2>1. item' = [item EXCEPT ![w] = array[w][b[w]]] /\ calls' = calls
    BY <1>1 DEF PopTakes
  <2> QED
    BY <1>1, <2>1, ClaimReady
<1>2. CASE PopCas(w)
  <2>1. calls' = calls /\ (item' = [item EXCEPT ![w] = array[w][b[w]]] \/ item' = item)
    BY <1>2 DEF PopCas
  <2> QED
    BY <1>2, <2>1, ClaimReady
<1>3. CASE StealCas(w)
  <2>1. calls' = calls /\ (item' = [item EXCEPT ![w] = array[victim[w]][t[w]]] \/ item' = item)
    BY <1>3 DEF StealCas
  <2>2. victim[w] \in Workers
    BY DEF Core, TypeOK, LocalTypes
  <2> QED
    BY <1>3, <2>1, <2>2, ClaimReady
<1>4. CASE ~ PopTakes(w) /\ ~ PopCas(w) /\ ~ StealCas(w) /\ ~ Process(w)
  BY <1>4 DEF Worker, PopBegin, LoopStops, PopFindsEmpty, PopFindsLast,
     PopEnd, StealTop, StealBottom,
     ScanBottom, ScanTop, Exit, localVars
<1> QED
  BY <1>1, <1>2, <1>3, <1>4

(* Every step keeps HoldingInv.                                              *)
LEMMA HoldingStep ==
  ASSUME Core, HoldingInv, [Next]_vars
  PROVE  HoldingInv'
<1> DEFINE Holds(w) == item[w] # NoItem <=> pc[w] \in {"process", "pop_advance"}
<1> USE DEF HoldingInv
<1>0. NoItem \notin Items /\ pc \in [Workers -> Labels] /\ item \in [Workers -> Items \cup {NoItem}]
  BY DEF Core, TypeOK, LocalTypes, NoItem, Items
<1>1. CASE (\E len \in 0 .. MaxItems : Run(len)) \/ SequentialItem \/ Push
  BY <1>1 DEF Run, SequentialItem, Push, localVars
<1>2. CASE Spawn
  <2>1. item' = item
        /\ \A w \in Workers : pc'[w] = pc[w] \/ (pc[w] = "unspawned" /\ pc'[w] = "loop")
    BY <1>2, SpawnFrame DEF Core
  <2> QED
    BY <2>1
<1>3. CASE Quiet
  BY <1>3, QuietFrame
<1>4. ASSUME NEW w \in Workers, Worker(w) PROVE HoldingInv'
  <2>1. \A u \in Workers : u # w => item'[u] = item[u] /\ pc'[u] = pc[u]
    BY <1>4, OthersUntouched DEF Core
  <2>2. SUFFICES Holds(w)'
    BY <2>1
  <2> USE <1>0 DEF Goto, StartScan
  <2>3. CASE PopTakes(w)
    BY <2>3, ClaimReady DEF PopTakes
  <2>4. CASE PopCas(w)
    <3>1. CASE top[w] = t[w]
      BY <2>4, <3>1, ClaimReady DEF PopCas
    <3>2. CASE top[w] # t[w]
      BY <2>4, <3>2 DEF PopCas
    <3> QED
      BY <3>1, <3>2
  <2>5. CASE StealCas(w)
    <3>1. CASE top[victim[w]] = t[w]
      BY <2>5, <3>1, ClaimReady DEF StealCas
    <3>2. CASE top[victim[w]] # t[w]
      BY <2>5, <3>2 DEF StealCas
    <3> QED
      BY <3>1, <3>2
  <2>6. CASE Process(w)
    BY <2>6 DEF Process
  <2>7. CASE PopEnd(w)
    BY <2>7 DEF PopEnd, localVars
  <2>8. CASE StealTop(w)
    BY <2>8 DEF StealTop
  <2>9. CASE StealBottom(w)
    BY <2>9 DEF StealBottom
  <2>10. CASE PopBegin(w) \/ LoopStops(w) \/ PopFindsEmpty(w) \/ PopFindsLast(w)
    BY <2>10 DEF PopBegin, LoopStops, PopFindsEmpty, PopFindsLast, localVars
  <2>11. CASE ScanBottom(w) \/ ScanTop(w) \/ Exit(w)
    BY <2>11 DEF ScanBottom, ScanTop, Exit, localVars
  <2> QED
    BY <1>4, <2>3, <2>4, <2>5, <2>6, <2>7, <2>8, <2>9, <2>10, <2>11 DEF Worker
<1>5. ASSUME NEW w \in Workers, Flush(w) PROVE HoldingInv'
  BY <1>5, FlushFrame
<1> QED
  BY <1>1, <1>2, <1>3, <1>4, <1>5, StepKinds

(* Every step keeps BoundInv.                                                *)
LEMMA BoundStep ==
  ASSUME Core, BoundInv, [Next]_vars
  PROVE  BoundInv'
<1> USE DEF BoundInv
<1>t. /\ next \in Nat /\ n \in Nat /\ n <= MaxItems /\ NoItem = -1
      /\ \A i \in Items : i \in Nat
      /\ \A v \in Workers : \A k \in Items : array[v][k] \in Items \cup {NoItem}
      /\ item \in [Workers -> Items \cup {NoItem}] /\ calls \in [Items -> Nat]
      /\ array \in [Workers -> [Items -> Items \cup {NoItem}]]
  BY MaxItemsAssumption DEF Core, TypeOK, MainTypes, DequeTypes, LocalTypes, CountTypes,
     Items, NoItem
<1>1. ASSUME NEW len \in 0 .. MaxItems, Run(len) PROVE BoundInv'
  <2>1. /\ mpc = "start" /\ n' = len /\ next' = 0 /\ UNCHANGED <<array, item, calls>>
    BY <1>1 DEF Run, localVars, Core, PhaseInv
  <2>2. /\ \A v \in Workers : \A k \in Items : array[v][k] < 0
        /\ \A w \in Workers : item[w] = NoItem
        /\ \A i \in Items : calls[i] = 0
    BY <2>1 DEF Core, PhaseInv
  <2>3. \A v \in Workers : \A k \in Items : array[v][k] < len
    BY <1>t, <2>2
  <2> QED
    BY <1>t, <2>1, <2>2, <2>3
<1>2. CASE SequentialItem
  <2>1. /\ mpc' = mpc /\ next < n /\ next' = next + 1 /\ UNCHANGED <<n, array, item>>
        /\ calls' = [calls EXCEPT ![next] = @ + 1]
    BY <1>2 DEF SequentialItem, localVars
  <2>2. \A i \in Items : i >= n => calls'[i] = calls[i]
    BY <1>t, <2>1
  <2>3. next' <= n'
    BY <1>t, <2>1
  <2> QED
    BY <2>1, <2>2, <2>3
<1>3. CASE Push
  <2>1. /\ mpc = "push" /\ next < n /\ next' = next + 1 /\ UNCHANGED <<n, item, calls>>
    BY <1>3 DEF Push, localVars
  <2>2. \A v \in Workers : \A k \in Items : array'[v][k] \in {next, array[v][k], NoItem}
    <3> TAKE v \in Workers
    <3> TAKE k \in Items
    <3> QED
      BY <1>3, PushedSlots, Zenon DEF Core
  <2>3. \A v \in Workers : \A k \in Items : array'[v][k] < n
    BY <1>t, <2>1, <2>2
  <2>4. next' <= n'
    BY <1>t, <2>1
  <2> QED
    BY <2>1, <2>3, <2>4
<1>4. CASE Spawn \/ Quiet
  <2>1. UNCHANGED <<n, array, item, calls>>
    BY <1>4, QuietFrame DEF Spawn, dequeVars, localVars
  <2>2. mpc' \in {"sequential", "push"} => mpc' = mpc /\ next' = next
    BY <1>4 DEF Spawn, Quiet, SequentialReturn, PushOutOfMemory, AllocThreads, SpawnDone,
                Join, JoinUndefinedHandle, Return, Stopped, vars, Ended
  <2> QED
    BY <2>1, <2>2
<1>5. ASSUME NEW w \in Workers, Worker(w) PROVE BoundInv'
  <2>1. UNCHANGED <<mpc, n, next, array>> /\ mpc \notin {"sequential", "push"}
    BY <1>5, WorkerFrame DEF mainVars, Core
  <2>2. CASE UNCHANGED <<item, calls>>
    BY <2>1, <2>2
  <2>3. CASE Process(w)
    <3>1. /\ calls' = [calls EXCEPT ![item[w]] = @ + 1]
          /\ item' = [item EXCEPT ![w] = NoItem]
      BY <2>3 DEF Process
    <3>2. \A i \in Items : i >= n => i # item[w]
      BY <1>t
    <3>3. \A i \in Items : i >= n => calls'[i] = calls[i]
      BY <1>t, <3>1, <3>2
    <3>4. \A u \in Workers : item'[u] < n
      BY <1>t, <3>1
    <3> QED
      BY <2>1, <3>3, <3>4
  <2>4. ASSUME NEW v \in Workers, NEW k \in Items, calls' = calls,
               item' = [item EXCEPT ![w] = array[v][k]]
        PROVE  BoundInv'
    <3>1. \A u \in Workers : item'[u] < n
      BY <1>t, <2>4
    <3> QED
      BY <2>1, <2>4, <3>1
  <2> QED
    BY <1>5, <2>2, <2>3, <2>4, StepTakes
<1>6. ASSUME NEW w \in Workers, Flush(w) PROVE BoundInv'
  BY <1>6, FlushFrame
<1> QED
  BY <1>1, <1>2, <1>3, <1>4, <1>5, <1>6, StepKinds

(* A slot leaves the range only when the worker takes the item in it.        *)
LEMMA LeavesClaimed ==
  ASSUME Core, Core', NEW w \in Workers, Worker(w),
         NEW v \in Workers, NEW k \in Items, InRange(v, k), ~ InRange(v, k)'
  PROVE  item' = [item EXCEPT ![w] = array[v][k]] /\ calls' = calls
<1>1. /\ OwnInv(v) /\ OwnInv(v)' /\ TypeOK /\ TypeOK' /\ PhaseInv /\ StockInv
  BY DEF Core, LocalInv
<1>2. /\ top[v] \in Nat /\ top'[v] \in Nat /\ Own(v) \in Nat /\ Own(v)' \in Nat
      /\ k \in Nat /\ b[v] \in Nat /\ t[v] \in Nat /\ t[w] \in Nat /\ victim[w] \in Workers
  <2>1. Own(v) \in Nat /\ Own(v)' \in Nat
    BY <1>1, OwnType, OwnTypePrimed
  <2>2. /\ top[v] \in Nat /\ top'[v] \in Nat /\ k \in Nat
        /\ b[v] \in Nat /\ t[v] \in Nat /\ t[w] \in Nat /\ victim[w] \in Workers
    BY <1>1 DEF TypeOK, DequeTypes, LocalTypes, Items
  <2> QED
    BY <2>1, <2>2
<1>3. OwnerBottom(v) = IF pc[v] \in Popping \ {"pop_advance"} THEN Own(v) + 1 ELSE Own(v)
  BY <1>1, OwnerBottomValue
<1>4. OwnerBottom(v)' = IF pc'[v] \in Popping \ {"pop_advance"} THEN Own(v)' + 1 ELSE Own(v)'
  BY <1>1, OwnerBottomValuePrimed
<1>5. /\ top[v] <= k /\ k < OwnerBottom(v)
      /\ ~ (top'[v] <= k /\ k < OwnerBottom(v)')
  BY DEF InRange
<1>6. CASE StealCas(w)
  <2>1. OwnerBottom(v)' = OwnerBottom(v)
    <3>1. v # w => pc'[v] = pc[v] /\ Own(v)' = Own(v)
      BY <1>1, OthersUntouched
    <3>2. v = w => pc[v] \notin Popping /\ pc'[v] \notin Popping /\ Own(v)' = Own(v)
      BY <1>1, <1>6, OutsidePop
    <3> QED
      BY <1>3, <1>4, <3>1, <3>2
  <2>2. top'[v] # top[v]
    BY <1>5, <2>1
  <2>3. victim[w] = v /\ top[v] = t[w] /\ top'[v] = t[w] + 1
    BY <1>1, <1>2, <1>6, <2>2 DEF StealCas, TypeOK, DequeTypes
  <2>4. k = t[w]
    BY <1>2, <1>5, <2>1, <2>3
  <2> QED
    BY <1>6, <2>3, <2>4 DEF StealCas
<1>7. CASE ~ StealCas(w) /\ v # w
  <2>1. pc'[v] = pc[v] /\ Own(v)' = Own(v)
    BY <1>1, <1>7, OthersUntouched
  <2>2. top'[v] = top[v]
    <3>1. CASE PopCas(w)
      BY <1>1, <1>7, <3>1 DEF PopCas, TypeOK, DequeTypes
    <3>2. CASE ~ PopCas(w)
      BY <1>7, <3>2 DEF Worker, PopBegin, LoopStops, PopTakes, PopFindsEmpty, PopFindsLast,
         PopEnd, StealTop, StealBottom, Process, ScanBottom, ScanTop, Exit, dequeVars
    <3> QED
      BY <3>1, <3>2
  <2> QED
    BY <1>3, <1>4, <1>5, <2>1, <2>2
<1>8. CASE ~ StealCas(w) /\ v = w
  <2> USE <1>1, <1>2, <1>3, <1>4, <1>5, <1>8 DEF Popping
  <2>t. pc \in [Workers -> Labels] /\ top \in [Workers -> Nat]
    BY DEF TypeOK, DequeTypes
  <2>1. CASE pc[w] = "loop" /\ pc'[w] = "pop_top" /\ top' = top /\ Own(w)' = Own(w) - 1
    BY <2>1
  <2>2. CASE /\ pc[w] \in {"pop_restore", "pop_advance"} /\ pc'[w] \in {"process", "steal_top"}
             /\ top' = top /\ Own(w)' = Own(w) + 1
    BY <2>2
  <2>3. CASE Own(w)' = Own(w) /\ ~ PopBegin(w) /\ ~ PopEnd(w)
    <3>1. CASE PopTakes(w)
      <4>1. pc[w] = "pop_top" /\ pc'[w] = "process" /\ top' = top /\ b[w] = Own(w)
        BY <2>t, <3>1 DEF PopTakes, dequeVars, OwnInv, Goto
      <4>2. k = b[w]
        BY <2>3, <4>1
      <4> QED
        BY <3>1, <4>2 DEF PopTakes
    <3>2. CASE PopFindsEmpty(w) \/ PopFindsLast(w)
      <4>1. pc[w] = "pop_top" /\ pc'[w] \in {"pop_restore", "pop_cas"} /\ top' = top
        BY <2>t, <3>2 DEF PopFindsEmpty, PopFindsLast, dequeVars, Goto
      <4> QED
        BY <2>3, <4>1
    <3>3. CASE PopCas(w)
      <4>1. pc[w] = "pop_cas" /\ b[w] = Own(w) /\ t[w] = b[w]
        BY <3>3 DEF PopCas, OwnInv
      <4>2. CASE top[w] = t[w]
        <5>1. k = b[w]
          BY <4>1, <4>2
        <5> QED
          BY <3>3, <4>2, <5>1 DEF PopCas
      <4>3. CASE top[w] # t[w]
        <5>1. pc'[w] = "pop_restore" /\ top' = top
          BY <2>t, <3>3, <4>3 DEF PopCas, Goto
        <5> QED
          BY <2>3, <4>1, <5>1
      <4> QED
        BY <4>2, <4>3
    <3>4. CASE \/ LoopStops(w) \/ StealTop(w) \/ StealBottom(w)
               \/ Process(w) \/ ScanBottom(w) \/ ScanTop(w) \/ Exit(w)
      <4>1. pc[w] \notin Popping /\ pc'[w] \notin Popping
        BY <3>4, OutsidePop
      <4>2. top' = top
        BY <3>4 DEF LoopStops, StealTop, StealBottom, Process, ScanBottom, ScanTop, Exit,
           dequeVars
      <4> QED
        BY <2>3, <4>1, <4>2
    <3> QED
      BY <2>3, <3>1, <3>2, <3>3, <3>4 DEF Worker
  <2> QED
    BY <2>1, <2>2, <2>3, OwnMoves
<1> QED
  BY <1>6, <1>7, <1>8

(* An item that was covered still is after a worker's step: in its slot, with *)
(* the worker that claimed it, or done.                                      *)
LEMMA StaysCovered ==
  ASSUME Core, Core', HoldingInv,
         NEW w \in Workers, Worker(w), NEW i \in Items, Covered(i)
  PROVE  Covered(i)'
<1>1. /\ array' = array /\ \A j \in Items : calls[j] \in Nat /\ calls'[j] \in Nat
      /\ NoItem \notin Items
  BY WorkerFrame DEF Core, TypeOK, CountTypes, NoItem, Items
<1>2. /\ item \in [Workers -> Items \cup {NoItem}] /\ calls \in [Items -> Nat]
  BY DEF Core, TypeOK, LocalTypes, CountTypes
<1>3. ASSUME NEW v \in Workers, NEW k \in Items, InRange(v, k), array[v][k] = i
      PROVE  Covered(i)'
  <2>1. CASE InRange(v, k)'
    BY <1>1, <1>3, <2>1 DEF Covered
  <2>2. CASE ~ InRange(v, k)'
    <3>1. item' = [item EXCEPT ![w] = array[v][k]]
      BY <1>3, <2>2, LeavesClaimed
    <3>2. item'[w] = i
      BY <1>2, <1>3, <3>1
    <3> QED
      BY <3>2 DEF Covered
  <2> QED
    BY <2>1, <2>2
<1>4. CASE Process(w)
  <2>1. /\ calls' = [calls EXCEPT ![item[w]] = @ + 1] /\ item' = [item EXCEPT ![w] = NoItem]
    BY <1>4 DEF Process
  <2>2. \A j \in Items : calls'[j] >= calls[j] /\ (j = item[w] => calls'[j] >= 1)
    BY <1>2, <2>1
  <2>3. \A u \in Workers : u # w => item'[u] = item[u]
    BY <1>2, <2>1
  <2>4. calls[i] >= 1 => calls'[i] >= 1
    BY <1>1, <2>2
  <2>5. \A u \in Workers : item[u] = i => item'[u] = i \/ calls'[i] >= 1
    BY <2>2, <2>3
  <2> QED
    BY <1>3, <2>4, <2>5 DEF Covered
<1>5. CASE ~ Process(w)
  <2>1. calls' = calls
    BY <1>5 DEF Worker, PopBegin, LoopStops, PopTakes, PopFindsEmpty, PopFindsLast,
       PopCas, PopEnd, StealTop, StealBottom, StealCas,
       ScanBottom, ScanTop, Exit, localVars
  <2>2. pc[w] = "process" => FALSE
    BY <1>5 DEF Worker, PopBegin, LoopStops, PopTakes, PopFindsEmpty, PopFindsLast,
       PopCas, PopEnd, StealTop, StealBottom, StealCas,
       ScanBottom, ScanTop, Exit
  <2>3. item[w] = i => item'[w] = i
    <3>1. item[w] = i => pc[w] = "pop_advance"
      BY <1>1, <2>2 DEF HoldingInv
    <3>2. pc[w] = "pop_advance" => item' = item
      BY DEF Worker, PopBegin, LoopStops, PopTakes, PopFindsEmpty, PopFindsLast,
       PopCas, PopEnd, StealTop, StealBottom, StealCas, Process,
       ScanBottom, ScanTop, Exit, localVars
    <3> QED
      BY <3>1, <3>2
  <2>4. \A u \in Workers : u # w => item'[u] = item[u]
    BY OthersUntouched DEF Core
  <2>5. \A u \in Workers : item[u] = i => item'[u] = i
    BY <2>3, <2>4
  <2> QED
    BY <1>3, <2>1, <2>5 DEF Covered
<1> QED
  BY <1>4, <1>5

(* Every step keeps CoverInv.                                                *)
LEMMA CoverStep ==
  ASSUME Core, Core', HoldingInv, CoverInv, [Next]_vars
  PROVE  CoverInv'
<1> USE DEF CoverInv
<1>t. /\ next \in Nat /\ n \in Nat /\ n <= MaxItems /\ NoItem \notin Items
      /\ \A i \in Items : i \in Nat /\ i < MaxItems
      /\ calls \in [Items -> Nat]
  BY MaxItemsAssumption DEF Core, TypeOK, MainTypes, CountTypes, Items, NoItem
<1>1. ASSUME NEW len \in 0 .. MaxItems, Run(len) PROVE CoverInv'
  <2>1. next' = 0 /\ mpc' \notin {"spawn", "join"}
    BY <1>1 DEF Run, Core, PhaseInv
  <2>2. \A i \in Items : ~ (i < next')
    BY <1>t, <2>1
  <2> QED
    BY <2>1, <2>2
<1>2. CASE SequentialItem
  <2>1. /\ mpc = "sequential" /\ mpc' = "sequential" /\ next' = next + 1
        /\ calls' = [calls EXCEPT ![next] = @ + 1]
    BY <1>2 DEF SequentialItem
  <2>2. \A i \in Items : i < next + 1 => i < next \/ i = next
    BY <1>t
  <2>3. \A i \in Items : i < next => calls[i] >= 1
    BY <2>1
  <2>4. \A i \in Items : i < next + 1 => calls'[i] >= 1
    BY <1>t, <2>1, <2>2, <2>3
  <2> QED
    BY <2>1, <2>4
<1>3. CASE Push
  <2> HIDE DEF CoverInv
  <2>1. mpc = "push" /\ mpc' = "push" /\ next' = next + 1 /\ next \in Items
    BY <1>3, MaxItemsAssumption DEF Push, Core, TypeOK, MainTypes, Items
  <2>2. PICK w \in Workers : w = next % WorkerCount
    BY <1>t, DequeIndex
  <2>3. /\ \A v \in Workers : OwnerBottom(v) = bottom[v] /\ OwnerBottom(v)' = bottom'[v]
        /\ \A v \in Workers : item[v] = NoItem /\ top[v] = 0
        /\ \A i \in Items : calls[i] = 0
    <3>1. \A v \in Workers : OwnerBottom(v) = bottom[v] /\ OwnerBottom(v)' = bottom'[v]
      BY <2>1 DEF Core, PhaseInv, OwnerBottom, ReadBottom
    <3> QED
      BY <2>1, <3>1 DEF Core, PhaseInv
  <2>4. /\ bottom' = [bottom EXCEPT ![w] = @ + 1]
        /\ \A v \in Workers : top'[v] = 0
        /\ \A v \in Workers : \A k \in Items :
             /\ v = w /\ k = bottom[v] => array'[v][k] = next
             /\ k < bottom[v] => array'[v][k] = array[v][k]
    BY <1>3, <2>2, PushKeeps DEF Core
  <2>5. \A v \in Workers : bottom[v] \in Nat /\ bottom[v] <= next
    BY <2>1 DEF Core, PhaseInv, TypeOK, DequeTypes
  <2>6. \A v \in Workers : bottom'[v] = IF v = w THEN bottom[v] + 1 ELSE bottom[v]
    BY <2>2, <2>4 DEF Core, TypeOK, DequeTypes
  <2>7. ASSUME NEW v \in Workers, NEW k \in Items, InRange(v, k)
        PROVE  InRange(v, k)' /\ array'[v][k] = array[v][k]
    <3>1. k < bottom[v]
      BY <2>3, <2>7 DEF InRange
    <3>2. 0 <= k /\ k < bottom'[v]
      BY <1>t, <2>5, <2>6, <3>1
    <3> QED
      BY <2>3, <2>4, <3>1, <3>2 DEF InRange
  <2>8. ASSUME NEW i \in Items, i = next PROVE Covered(i)'
    <3>1. bottom[w] \in Items
      BY <2>1, <2>2, <2>5, MaxItemsAssumption DEF Items
    <3>2. PICK k \in Items : k = bottom[w]
      BY <3>1
    <3>3. InRange(w, k)'
      <4>1. 0 <= k /\ k < bottom'[w]
        BY <2>2, <2>5, <2>6, <3>2
      <4>2. top'[w] = 0 /\ OwnerBottom(w)' = bottom'[w]
        BY <2>2, <2>3, <2>4
      <4> QED
        BY <4>1, <4>2 DEF InRange
    <3>4. array'[w][k] = i
      BY <2>2, <2>4, <2>8, <3>2
    <3>5. \E v \in Workers : \E j \in Items : InRange(v, j)' /\ array'[v][j] = i
      BY <2>2, <3>3, <3>4, Zenon
    <3> QED
      BY <3>5, Zenon DEF Covered
  <2>9. ASSUME NEW i \in Items, i < next PROVE Covered(i)'
    <3>1. Covered(i)
      BY <2>1, <2>9 DEF CoverInv
    <3>a. calls[i] = 0 /\ \A v \in Workers : item[v] # i
      BY <1>t, <2>3
    <3>2. PICK v \in Workers, k \in Items : InRange(v, k) /\ array[v][k] = i
      BY <3>1, <3>a DEF Covered
    <3>3. InRange(v, k)' /\ array'[v][k] = i
      BY <2>7, <3>2
    <3> QED
      BY <3>3 DEF Covered
  <2>10. \A i \in Items : i < next + 1 => i < next \/ i = next
    BY <1>t
  <2>11. \A i \in Items : i < next + 1 => Covered(i)'
    BY <2>8, <2>9, <2>10
  <2> QED
    BY <2>1, <2>11 DEF CoverInv
<1>4. CASE Spawn
  <2>1. /\ mpc = "spawn" /\ mpc' = "spawn" /\ UNCHANGED <<array, top, item, calls, n>>
        /\ \A v \in Workers : OwnerBottom(v)' = OwnerBottom(v)
    BY <1>4, SpawnFrame DEF Core
  <2>2. \A i \in Items : Covered(i) => Covered(i)'
    BY <2>1 DEF Covered, InRange
  <2> HIDE DEF CoverInv
  <2>3. \A i \in Items : i < n' => Covered(i)'
    BY <2>1, <2>2 DEF CoverInv
  <2> QED
    BY <2>1, <2>3 DEF CoverInv
<1>5. CASE Quiet
  <2>1. UNCHANGED <<n, array, bottom, top, buffer, pc, b, item, calls>>
    BY <1>5, QuietFrame
  <2>2. \A i \in Items : Covered(i) => Covered(i)'
    BY <2>1 DEF Covered, InRange, OwnerBottom, ReadBottom
  <2>3. mpc' \in {"sequential", "push"} => mpc' = mpc /\ next' = next
    BY <1>5 DEF Quiet, SequentialReturn, PushOutOfMemory, AllocThreads, SpawnDone,
                Join, JoinUndefinedHandle, Return, Stopped, vars, Ended
  <2>4. mpc' \in {"spawn", "join"} => mpc \in {"spawn", "join"} \/ (mpc = "push" /\ next = n)
    BY <1>5 DEF Quiet, SequentialReturn, PushOutOfMemory, AllocThreads, SpawnDone,
                Join, JoinUndefinedHandle, Return, Stopped, vars, Ended
  <2>5. mpc' = "sequential" => \A i \in Items : i < next' => calls'[i] >= 1
    BY <2>1, <2>3
  <2>6. mpc' = "push" => \A i \in Items : i < next' => Covered(i)'
    BY <2>2, <2>3
  <2>7. mpc' \in {"spawn", "join"} => \A i \in Items : i < n' => Covered(i)'
    BY <2>1, <2>2, <2>4
  <2> QED
    BY <2>5, <2>6, <2>7
<1>6. ASSUME NEW w \in Workers, Worker(w) PROVE CoverInv'
  <2>1. UNCHANGED <<mpc, n, next>> /\ mpc \notin {"sequential", "push"}
    BY <1>6, WorkerFrame DEF mainVars, Core
  <2>2. \A i \in Items : Covered(i) => Covered(i)'
    BY <1>6, StaysCovered
  <2> QED
    BY <2>1, <2>2
<1>7. ASSUME NEW w \in Workers, Flush(w) PROVE CoverInv'
  <2>1. /\ UNCHANGED <<mpc, n, next, array, top, pc, b, item, calls>>
        /\ \A u \in Workers : Own(u)' = Own(u)
    BY <1>7, FlushFrame, FlushSeen DEF Core
  <2>2. \A v \in Workers : OwnerBottom(v)' = OwnerBottom(v)
    BY <2>1 DEF OwnerBottom, Own
  <2>3. \A i \in Items : Covered(i) => Covered(i)'
    BY <2>1, <2>2 DEF Covered, InRange
  <2> QED
    BY <2>1, <2>3
<1> QED
  BY <1>1, <1>2, <1>3, <1>4, <1>5, <1>6, <1>7, StepKinds

(* Every step keeps DrainInv.                                                *)
LEMMA DrainStep ==
  ASSUME Core, Core', DrainInv, [Next]_vars
  PROVE  DrainInv'
<1> DEFINE Scanned(w) ==
       /\ pc[w] = "scan_top" /\ victim[w] = w => b[w] = Own(w)
       /\ pc[w] \in {"scan_bottom", "scan_top"} /\ victim[w] > w => top[w] >= Own(w)
       /\ pc[w] \in {"exit", "exited"} /\ mpc \in {"spawn", "join"} => top[w] >= Own(w)
<1>d. /\ mpc \in {"push", "spawn", "join"} => active
      /\ mpc = "join" => \A w \in Workers :
           pc[w] # "unspawned" /\ (w < next => pc[w] = "exited")
      /\ mpc = "returned" => \A w \in Workers : pc[w] \in {"unspawned", "exited"}
      /\ \A w \in Workers : Scanned(w)
  BY DEF DrainInv
<1>s. SUFFICES
      /\ mpc' \in {"push", "spawn", "join"} => active'
      /\ mpc' = "join" => \A w \in Workers :
           pc'[w] # "unspawned" /\ (w < next' => pc'[w] = "exited")
      /\ mpc' = "returned" => \A w \in Workers : pc'[w] \in {"unspawned", "exited"}
      /\ \A w \in Workers : Scanned(w)'
  BY DEF DrainInv
<1>t. /\ next \in Nat /\ \A w \in Workers : w \in Nat /\ w < WorkerCount
      /\ pc \in [Workers -> Labels]
  BY WorkerCountAssumption DEF Core, TypeOK, MainTypes, Workers
<1>1. CASE (\E len \in 0 .. MaxItems : Run(len)) \/ SequentialItem \/ Push
  <2>1. /\ mpc \in {"start", "sequential", "push"} /\ pc' = pc
        /\ mpc' \notin {"join", "returned", "spawn"}
        /\ mpc' = "push" => active'
    BY <1>1, <1>d DEF Run, SequentialItem, Push
  <2>2. \A w \in Workers : pc'[w] = "unspawned"
    BY <2>1 DEF Core, PhaseInv
  <2> QED
    BY <2>1, <2>2
<1>2. CASE Spawn
  <2>1. /\ mpc = "spawn" /\ mpc' = "spawn" /\ UNCHANGED <<active, top, b, victim>>
        /\ \A w \in Workers : /\ pc'[w] = pc[w] \/ (pc[w] = "unspawned" /\ pc'[w] = "loop")
                              /\ Own(w)' = Own(w)
    BY <1>2, SpawnFrame DEF Core
  <2>2. \A w \in Workers : Scanned(w)'
    BY <1>d, <2>1
  <2> QED
    BY <1>d, <2>1, <2>2
<1>3. CASE Quiet
  <2>1. UNCHANGED <<top, pc, b, victim>> /\ \A w \in Workers : Own(w)' = Own(w)
    BY <1>3, QuietFrame DEF Own, ReadBottom
  <2>2. mpc' \in {"spawn", "join"} =>
          mpc \in {"spawn", "join"} \/ (mpc = "push" /\ mpc' = "spawn")
    BY <1>3 DEF Quiet, SequentialReturn, PushOutOfMemory, AllocThreads, SpawnDone,
                Join, JoinUndefinedHandle, Return, Stopped, vars, Ended
  <2>3. mpc = "push" => \A w \in Workers : pc[w] = "unspawned"
    BY DEF Core, PhaseInv
  <2>4. \A w \in Workers : Scanned(w)'
    BY <1>d, <2>1, <2>2, <2>3
  <2>5. mpc' \in {"push", "spawn", "join"} => active'
    <3>1. mpc' \in {"push", "spawn", "join"} =>
            mpc \in {"push", "spawn", "join"} /\ active' = active
      BY <1>3 DEF Quiet, SequentialReturn, PushOutOfMemory, AllocThreads, SpawnDone,
                Join, JoinUndefinedHandle, Return, Stopped, vars, Ended
    <3> QED
      BY <1>d, <3>1
  <2>6. mpc' = "join" => \A w \in Workers :
          pc'[w] # "unspawned" /\ (w < next' => pc'[w] = "exited")
    <3>1. mpc' = "join" => \/ /\ mpc = "spawn" /\ next' = 0
                              /\ \A w \in Workers : pc[w] # "unspawned"
                           \/ mpc = "join" /\ next' = next
                           \/ mpc = "join" /\ next' = next + 1 /\ pc[next] = "exited"
      BY <1>3 DEF Quiet, SequentialReturn, PushOutOfMemory, AllocThreads, SpawnDone,
                Join, JoinUndefinedHandle, Return, Stopped, vars, Ended
    <3>2. \A w \in Workers : w < next + 1 => w < next \/ w = next
      BY <1>t
    <3>3. \A w \in Workers : ~ (w < 0)
      BY <1>t
    <3> QED
      BY <1>d, <2>1, <3>1, <3>2, <3>3
  <2>7. mpc' = "returned" => \A w \in Workers : pc'[w] \in {"unspawned", "exited"}
    <3>1. mpc' = "returned" => mpc = "returned" \/ mpc = "sequential"
                               \/ (mpc = "join" /\ next = WorkerCount)
      BY <1>3 DEF Quiet, SequentialReturn, PushOutOfMemory, AllocThreads, SpawnDone,
                Join, JoinUndefinedHandle, Return, Stopped, vars
    <3>2. mpc = "sequential" => \A w \in Workers : pc[w] = "unspawned"
      BY DEF Core, PhaseInv
    <3>3. mpc = "join" /\ next = WorkerCount => \A w \in Workers : pc[w] = "exited"
      BY <1>d, <1>t
    <3> QED
      BY <1>d, <2>1, <3>1, <3>2, <3>3
  <2> QED
    BY <2>4, <2>5, <2>6, <2>7
<1>4. ASSUME NEW w \in Workers, Worker(w)
      PROVE  /\ mpc' \in {"push", "spawn", "join"} => active'
             /\ mpc' = "join" => \A u \in Workers :
                  pc'[u] # "unspawned" /\ (u < next' => pc'[u] = "exited")
             /\ mpc' = "returned" => \A u \in Workers : pc'[u] \in {"unspawned", "exited"}
             /\ \A u \in Workers : Scanned(u)'
  <2>1. /\ UNCHANGED <<mpc, next, active>> /\ pc[w] \notin {"unspawned", "exited"}
        /\ pc'[w] # "unspawned" /\ mpc # "push"
    BY <1>4, WorkerFrame DEF mainVars, Core
  <2>2. \A u \in Workers : u # w =>
          /\ pc'[u] = pc[u] /\ b'[u] = b[u] /\ victim'[u] = victim[u]
          /\ Own(u)' = Own(u)
    BY <1>4, OthersUntouched DEF Core
  <2>3. \A u \in Workers : /\ top'[u] >= top[u] /\ top[u] \in Nat /\ top'[u] \in Nat
                           /\ Own(u) \in Nat
    BY <1>4, TopGrows, OwnType DEF Core, TypeOK, DequeTypes
  <2>4. \A u \in Workers : u # w => Scanned(u)'
    BY <1>d, <2>1, <2>2, <2>3
  <2>5. Scanned(w)'
    <3> USE <1>d, <1>t, <2>1, <2>3 DEF Goto, StartScan
    <3>0. /\ victim \in [Workers -> Workers] /\ b \in [Workers -> Nat]
          /\ victim[w] \in Nat /\ b[w] \in Nat
      BY DEF Core, TypeOK, LocalTypes
    <3>t. b[w] \in Nat /\ top[victim[w]] \in Nat
      BY <2>3, <3>0
    <3>1. CASE StealTop(w)
      BY <3>0, <3>1 DEF StealTop
    <3>2. CASE StealBottom(w)
      BY <3>0, <3>2 DEF StealBottom
    <3>3. CASE StealCas(w)
      BY <3>0, <3>3 DEF StealCas
    <3>4. CASE ScanBottom(w)
      <4>1. pc' = [pc EXCEPT ![w] = "scan_top"] /\ UNCHANGED <<top, victim>>
            /\ pc[w] = "scan_bottom" /\ Own(w)' = Own(w)
        BY <3>4 DEF ScanBottom, dequeVars, Own, ReadBottom
      <4>2. victim[w] = w => b'[w] = Own(w)
        BY <3>0, <3>4 DEF ScanBottom, Own
      <4> QED
        BY <4>1, <4>2
    <3>5. CASE ScanTop(w)
      <4>1. UNCHANGED <<top, b>> /\ pc[w] = "scan_top" /\ Own(w)' = Own(w)
        BY <3>5 DEF ScanTop, dequeVars, Own, ReadBottom
      <4>2. CASE b[w] > top[victim[w]]
        <5>1. pc'[w] = "loop"
          BY <3>0, <3>5, <4>2 DEF ScanTop
        <5> QED
          BY <5>1
      <4>3. CASE b[w] <= top[victim[w]]
        <5>0. Scanned(w)
          BY <1>d
        <5>1. victim[w] >= w => top[w] >= Own(w)
          <6>1. victim[w] > w => top[w] >= Own(w)
            BY <4>1, <5>0
          <6>2. victim[w] = w => top[w] >= Own(w)
            BY <3>0, <4>1, <4>3, <5>0
          <6> QED
            BY <3>0, <6>1, <6>2
        <5>2. /\ pc'[w] \in {"scan_bottom", "exit"}
              /\ pc'[w] = "scan_bottom" => victim'[w] = victim[w] + 1
              /\ pc'[w] = "exit" => victim[w] = WorkerCount - 1
          <6>1. ~ (b[w] > top[victim[w]])
            BY <3>t, <4>3
          <6>2. \/ /\ victim' = [victim EXCEPT ![w] = @ + 1]
                   /\ pc' = [pc EXCEPT ![w] = "scan_bottom"]
                \/ /\ victim[w] = WorkerCount - 1
                   /\ pc' = [pc EXCEPT ![w] = "exit"]
            BY <3>5, <6>1 DEF ScanTop
          <6> QED
            BY <3>0, <6>2
        <5>3. pc'[w] = "scan_bottom" /\ victim'[w] > w => victim[w] >= w
          BY <3>0, <5>2
        <5>4. pc'[w] = "exit" => victim[w] >= w
          BY <3>0, <5>2, WorkerCountAssumption
        <5> QED
          BY <4>1, <5>1, <5>2, <5>3, <5>4
      <4> QED
        BY <3>t, <4>2, <4>3
    <3>6. CASE Exit(w)
      BY <3>6 DEF Exit, dequeVars, localVars, Own, ReadBottom
    <3>7. CASE LoopStops(w)
      <4>1. ~active /\ pc'[w] = "exit"
        BY <3>7 DEF LoopStops
      <4>2. mpc \notin {"spawn", "join"}
        BY <4>1
      <4> QED
        BY <4>1, <4>2
    <3>8. CASE \/ PopBegin(w) \/ PopTakes(w) \/ PopFindsEmpty(w) \/ PopFindsLast(w)
               \/ PopCas(w) \/ PopEnd(w) \/ Process(w)
      <4>1. pc'[w] \notin {"scan_bottom", "scan_top", "exit", "exited"}
        BY <3>8 DEF PopBegin, PopTakes, PopFindsEmpty, PopFindsLast, PopCas, PopEnd, Process
      <4> QED
        BY <4>1
    <3> QED
      BY <1>4, <3>1, <3>2, <3>3, <3>4, <3>5, <3>6, <3>7, <3>8 DEF Worker
  <2>6. mpc' = "join" => \A u \in Workers :
          pc'[u] # "unspawned" /\ (u < next' => pc'[u] = "exited")
    BY <1>d, <2>1, <2>2
  <2>7. mpc' # "returned"
    BY <1>d, <2>1
  <2> QED
    BY <1>d, <2>1, <2>4, <2>5, <2>6, <2>7
<1>5. ASSUME NEW w \in Workers, Flush(w)
      PROVE  /\ UNCHANGED <<mpc, next, active, pc>> /\ \A u \in Workers : Scanned(u)'
  <2>1. /\ UNCHANGED <<mpc, next, active, top, pc, b, victim>>
        /\ \A u \in Workers : Own(u)' = Own(u)
    BY <1>5, FlushFrame, FlushSeen DEF Core
  <2> QED
    BY <1>d, <2>1
<1> QED
  BY <1>d, <1>1, <1>2, <1>3, <1>4, <1>5, StepKinds

-----------------------------------------------------------------------------
(* The counters: one more counted is one more in the sum.                    *)
LEMMA Finite == IsFiniteSet(Workers) /\ IsFiniteSet(Items) /\ IsFiniteSet(AllOutcomes)
<1>1. IsFiniteSet(Workers)
  BY FS_Interval, WorkerCountAssumption DEF Workers
<1>2. IsFiniteSet(Items)
  BY FS_Interval, MaxItemsAssumption DEF Items
<1>3. IsFiniteSet({}) /\ AllOutcomes = (({} \cup {"analyzed"}) \cup {"skipped"}) \cup {"errored"}
  BY FS_EmptySet DEF AllOutcomes
<1> QED
  BY <1>1, <1>2, <1>3, FS_AddElement

(* One more in one place is one more in the sum.                             *)
LEMMA SumBump ==
  ASSUME NEW S, IsFiniteSet(S), NEW f \in [S -> Nat], NEW x \in S
  PROVE  /\ SumFunction([f EXCEPT ![x] = @ + 1]) = SumFunction(f) + 1
         /\ SumFunction(f) \in Nat
<1> DEFINE g == [f EXCEPT ![x] = @ + 1]
<1>1. g \in [S -> Nat] /\ g[x] = f[x] + 1 /\ \A y \in S \ {x} : f[y] = g[y]
  OBVIOUS
<1>2. \A y \in S : f[y] \in Nat /\ g[y] \in Nat
  BY <1>1
<1> HIDE DEF g
<1>3. /\ SumFunctionOnSet(g, S) + f[x] = SumFunctionOnSet(f, S) + g[x]
      /\ SumFunctionOnSet(f, S) \in Nat /\ SumFunctionOnSet(g, S) \in Nat
  BY <1>1, <1>2, SumChange
<1>4. SumFunction(g) = SumFunctionOnSet(g, S) /\ SumFunction(f) = SumFunctionOnSet(f, S)
  BY <1>1 DEF SumFunction
<1>5. f[x] \in Nat
  OBVIOUS
<1>6. SumFunction(g) = SumFunction(f) + 1 /\ SumFunction(f) \in Nat
  BY <1>1, <1>3, <1>4, <1>5
<1> QED
  BY <1>6 DEF g

(* One more in one counter of one worker is one more in all.                 *)
LEMMA TotalTally ==
  ASSUME NEW r \in [Workers -> Result], NEW w \in Workers, NEW o \in Outcomes
  PROVE  /\ Total([r EXCEPT ![w] = Tally(@, o)]) = Total(r) + 1
         /\ Total(r) \in Nat
<1> DEFINE s == [r EXCEPT ![w] = Tally(@, o)]
           f == [u \in Workers |-> SumFunction(r[u])]
           g == [u \in Workers |-> SumFunction(s[u])]
<1>1. o \in AllOutcomes
  BY OutcomesAssumption
<1>2. \A u \in Workers : r[u] \in [AllOutcomes -> Nat]
  BY DEF Result
<1>3. /\ s[w] = [r[w] EXCEPT ![o] = @ + 1]
      /\ \A u \in Workers \ {w} : s[u] = r[u]
  BY DEF Tally
<1> HIDE DEF s
<1>4. \A u \in Workers : SumFunction(r[u]) \in Nat
  BY <1>1, <1>2, Finite, SumBump
<1>5. SumFunction(s[w]) = SumFunction(r[w]) + 1
  BY <1>1, <1>2, <1>3, Finite, SumBump
<1>6. f \in [Workers -> Nat]
  BY <1>4
<1>7. g = [f EXCEPT ![w] = @ + 1]
  BY <1>3, <1>5
<1> HIDE DEF f, g
<1>8. SumFunction(g) = SumFunction(f) + 1 /\ SumFunction(f) \in Nat
  BY <1>6, <1>7, Finite, SumBump
<1> QED
  BY <1>8 DEF Total, f, g, s

(* Counters at zero add up to zero.                                          *)
LEMMA TotalZero ==
  ASSUME NEW r, r = [w \in Workers |-> Zero]
  PROVE  Total(r) = 0
<1> DEFINE f == [w \in Workers |-> SumFunction(r[w])]
<1>1. \A x \in AllOutcomes : Zero[x] = 0
  BY DEF Zero
<1>2. SumFunctionOnSet(Zero, AllOutcomes) = 0
  BY <1>1, Finite, SumZero
<1>3. SumFunction(Zero) = 0
  BY <1>2 DEF SumFunction, Zero
<1>4. DOMAIN f = Workers /\ \A w \in Workers : f[w] = 0
  BY <1>3
<1> HIDE DEF f
<1>5. SumFunctionOnSet(f, Workers) = 0
  BY <1>4, Finite, SumZero
<1> QED
  BY <1>4, <1>5 DEF Total, SumFunction, f

(* No calls add up to zero.                                                  *)
LEMMA NoCalls ==
  ASSUME TypeOK, \A i \in Items : calls[i] = 0
  PROVE  SumFunction(calls) = 0
<1>1. SumFunctionOnSet(calls, Items) = 0
  BY Finite, SumZero
<1>2. DOMAIN calls = Items
  BY DEF TypeOK, CountTypes
<1> QED
  BY <1>1, <1>2 DEF SumFunction

(* Every step keeps CountInv.                                                *)
LEMMA CountStep ==
  ASSUME Core, Core', HoldingInv, DrainInv, DrainInv', CountInv, [Next]_vars
  PROVE  CountInv'
<1>c. /\ mpc \in {"start", "push", "spawn", "join"} =>
           /\ Total(local) = SumFunction(calls)
           /\ \A w \in Workers : results[w] = IF pc[w] = "exited" THEN local[w] ELSE Zero
      /\ mpc \in {"sequential", "returned"} => Total(results) = SumFunction(calls)
  BY DEF CountInv
<1>t. /\ local \in [Workers -> Result] /\ results \in [Workers -> Result]
      /\ results' \in [Workers -> Result] /\ local' \in [Workers -> Result]
      /\ calls \in [Items -> Nat] /\ pc \in [Workers -> Labels] /\ next \in Nat
  BY DEF Core, TypeOK, LocalTypes, CountTypes, MainTypes
<1>1. ASSUME NEW len \in 0 .. MaxItems, Run(len) PROVE CountInv'
  <2>1. /\ mpc = "start" /\ results' = [w \in Workers |-> Zero]
        /\ UNCHANGED <<pc, local, calls>> /\ mpc' # "returned"
    BY <1>1 DEF Run, localVars
  <2>2. (\A w \in Workers : pc[w] = "unspawned") /\ \A i \in Items : calls[i] = 0
    BY <2>1 DEF Core, PhaseInv
  <2>3. Total(results') = 0 /\ SumFunction(calls) = 0
    BY <2>1, <2>2, TotalZero, NoCalls DEF Core
  <2>4. Total(results)' = Total(results') /\ Total(local)' = Total(local)
    BY <2>1 DEF Total
  <2> QED
    BY <1>c, <2>1, <2>2, <2>3, <2>4 DEF CountInv
<1>2. CASE SequentialItem
  <2>1. PICK o \in Outcomes : results' = [results EXCEPT ![0] = Tally(@, o)]
    BY <1>2 DEF SequentialItem
  <2>2. /\ mpc = "sequential" /\ mpc' = "sequential" /\ next \in Items
        /\ calls' = [calls EXCEPT ![next] = @ + 1]
    BY <1>2, MaxItemsAssumption DEF SequentialItem, Core, TypeOK, MainTypes, Items
  <2>3. 0 \in Workers
    BY FirstWorker
  <2>4. Total(results') = Total(results) + 1
    BY <1>t, <2>1, <2>3, TotalTally
  <2>5. SumFunction(calls') = SumFunction(calls) + 1
    BY <1>t, <2>2, Finite, SumBump
  <2>6. Total(results)' = Total(results')
    BY DEF Total
  <2> QED
    BY <1>c, <2>2, <2>4, <2>5, <2>6 DEF CountInv
<1>3. CASE Push
  <2>1. mpc = "push" /\ mpc' = "push" /\ UNCHANGED <<pc, local, results, calls>>
    BY <1>3 DEF Push, localVars
  <2> QED
    BY <1>c, <2>1 DEF CountInv, Total
<1>4. CASE Spawn
  <2>1. /\ mpc = "spawn" /\ mpc' = "spawn" /\ UNCHANGED <<local, results, calls>>
        /\ \A w \in Workers : pc'[w] = pc[w] \/ (pc[w] = "unspawned" /\ pc'[w] = "loop")
    BY <1>4, SpawnFrame DEF Core
  <2>2. \A w \in Workers : results'[w] = IF pc'[w] = "exited" THEN local'[w] ELSE Zero
    BY <1>c, <2>1
  <2>3. Total(local)' = SumFunction(calls)'
    BY <1>c, <2>1 DEF Total
  <2> QED
    BY <2>1, <2>2, <2>3 DEF CountInv
<1>5. CASE Quiet
  <2>1. UNCHANGED <<pc, local, results, calls>>
    BY <1>5, QuietFrame
  <2>2. Total(local)' = Total(local) /\ Total(results)' = Total(results)
        /\ SumFunction(calls)' = SumFunction(calls)
    BY <2>1 DEF Total
  <2>3. mpc' \in {"start", "push", "spawn", "join"} => mpc \in {"start", "push", "spawn", "join"}
    BY <1>5 DEF Quiet, SequentialReturn, PushOutOfMemory, AllocThreads, SpawnDone,
                Join, JoinUndefinedHandle, Return, Stopped, vars, Ended
  <2>4. mpc' \in {"sequential", "returned"} =>
          mpc \in {"sequential", "returned"} \/ (mpc = "join" /\ next = WorkerCount)
    BY <1>5 DEF Quiet, SequentialReturn, PushOutOfMemory, AllocThreads, SpawnDone,
                Join, JoinUndefinedHandle, Return, Stopped, vars, Ended
  <2>5. mpc = "join" /\ next = WorkerCount => Total(results) = SumFunction(calls)
    <3>1. SUFFICES ASSUME mpc = "join", next = WorkerCount
                   PROVE  Total(results) = SumFunction(calls)
      OBVIOUS
    <3>2. \A w \in Workers : w < next
      BY <3>1, WorkerCountAssumption DEF Workers
    <3>3. \A w \in Workers : pc[w] = "exited"
      BY <3>1, <3>2 DEF DrainInv
    <3>4. results = local
      BY <1>c, <1>t, <3>1, <3>3
    <3> QED
      BY <1>c, <3>1, <3>4
  <2> QED
    BY <1>c, <2>1, <2>2, <2>3, <2>4, <2>5 DEF CountInv
<1>6. ASSUME NEW w \in Workers, Worker(w) PROVE CountInv'
  <2>1. /\ mpc' = mpc /\ mpc \notin {"start", "sequential", "push", "returned"}
        /\ pc[w] \notin {"unspawned", "exited"}
    <3>1. /\ mpc' = mpc /\ mpc \notin {"start", "sequential", "push"}
          /\ pc[w] \notin {"unspawned", "exited"}
      BY <1>6, WorkerFrame DEF mainVars, Core
    <3> QED
      BY <3>1 DEF DrainInv
  <2>2. CASE Process(w)
    <3>1. PICK o \in Outcomes : local' = [local EXCEPT ![w] = Tally(@, o)]
      BY <2>2 DEF Process
    <3>2. /\ calls' = [calls EXCEPT ![item[w]] = @ + 1] /\ results' = results
          /\ pc' = [pc EXCEPT ![w] = "loop"]
      BY <2>2 DEF Process, Goto
    <3>3. item[w] \in Items
      <4>1. item[w] # NoItem
        BY <2>2 DEF Process, HoldingInv
      <4> QED
        BY <4>1 DEF Core, TypeOK, LocalTypes
    <3>4. Total(local') = Total(local) + 1
      BY <1>t, <3>1, TotalTally
    <3>5. SumFunction(calls') = SumFunction(calls) + 1
      BY <1>t, <3>2, <3>3, Finite, SumBump
    <3>6. Total(local)' = Total(local')
      BY DEF Total
    <3>7. mpc \in {"spawn", "join"} => \A u \in Workers :
            results'[u] = IF pc'[u] = "exited" THEN local'[u] ELSE Zero
      BY <1>c, <1>t, <2>1, <3>1, <3>2
    <3> QED
      BY <1>c, <2>1, <3>4, <3>5, <3>6, <3>7 DEF CountInv
  <2>3. CASE ~ Process(w)
    <3>1. calls' = calls /\ local' = local
      BY <1>6, <2>3 DEF Worker, PopBegin, LoopStops, PopTakes, PopFindsEmpty, PopFindsLast,
         PopCas, PopEnd, StealTop, StealBottom, StealCas,
         ScanBottom, ScanTop, Exit, localVars
    <3>2. Total(local)' = Total(local) /\ SumFunction(calls)' = SumFunction(calls)
      BY <3>1 DEF Total
    <3>3. mpc \in {"spawn", "join"} => \A u \in Workers :
            results'[u] = IF pc'[u] = "exited" THEN local'[u] ELSE Zero
      <4>1. CASE Exit(w)
        <5>1. results' = [results EXCEPT ![w] = local[w]]
              /\ pc' = [pc EXCEPT ![w] = "exited"]
          BY <4>1 DEF Exit, Goto
        <5> QED
          BY <1>c, <1>t, <2>1, <3>1, <5>1
      <4>2. CASE ~ Exit(w)
        <5>1. results' = results
          BY <1>6, <4>2 DEF Worker, PopBegin, LoopStops, PopTakes, PopFindsEmpty,
             PopFindsLast, PopCas, PopEnd, StealTop, StealBottom, StealCas, Process,
             ScanBottom, ScanTop
        <5>2. \E label \in Labels \ {"exited"} : pc' = [pc EXCEPT ![w] = label]
          BY <1>6, <4>2 DEF Worker, PopBegin, LoopStops, PopTakes, PopFindsEmpty,
             PopFindsLast, PopCas, PopEnd, StealTop, StealBottom, StealCas, Process,
             ScanBottom, ScanTop, StartScan, Goto, Labels
        <5> QED
          BY <1>c, <1>t, <2>1, <3>1, <5>1, <5>2
      <4> QED
        BY <4>1, <4>2
    <3> QED
      BY <1>c, <2>1, <3>2, <3>3 DEF CountInv
  <2> QED
    BY <2>2, <2>3
<1>7. ASSUME NEW w \in Workers, Flush(w) PROVE CountInv'
  <2>1. UNCHANGED <<mpc, pc, local, results, calls>>
    BY <1>7, FlushFrame
  <2> QED
    BY <2>1 DEF CountInv, Total
<1> QED
  BY <1>1, <1>2, <1>3, <1>4, <1>5, <1>6, <1>7, StepKinds

-----------------------------------------------------------------------------
(* When every worker has left, having found every deque empty, nothing is    *)
(* left in a deque or with a worker.                                         *)
LEMMA NothingLeft ==
  ASSUME Core, HoldingInv, DrainInv, mpc = "join", next = WorkerCount
  PROVE  \A w \in Workers : item[w] = NoItem /\ \A k \in Items : ~ InRange(w, k)
<1>1. \A w \in Workers : w < next
  BY WorkerCountAssumption DEF Workers
<1>2. \A w \in Workers : pc[w] = "exited" /\ top[w] >= Own(w)
  BY <1>1 DEF DrainInv
<1>3. \A w \in Workers : OwnerBottom(w) = Own(w) /\ Own(w) \in Nat
  BY <1>2, OwnType DEF OwnerBottom, Own, Core
<1>4. \A w \in Workers : \A k \in Items : ~ InRange(w, k)
  BY <1>2, <1>3 DEF InRange, Core, TypeOK, DequeTypes, Items
<1>5. \A w \in Workers : item[w] = NoItem
  BY <1>2 DEF HoldingInv
<1> QED
  BY <1>4, <1>5

(* So an item that is covered can only be done.                              *)
LEMMA AllDone ==
  ASSUME Core, HoldingInv, CoverInv, DrainInv,
         mpc = "join", next = WorkerCount, NEW i \in Items, i < n
  PROVE  calls[i] >= 1
<1>1. Covered(i) /\ i # NoItem
  BY DEF CoverInv, Items, NoItem
<1> QED
  BY <1>1, NothingLeft DEF Covered

(* run() returns only when every item is done.                               *)
LEMMA NoLossStep ==
  ASSUME Core, Core', BoundInv, HoldingInv, CoverInv, DrainInv, NoItemLost,
         [Next]_vars
  PROVE  NoItemLost'
<1>1. SUFFICES ASSUME mpc' = "returned", NEW i \in 0 .. (n' - 1) PROVE calls'[i] >= 1
  BY DEF NoItemLost
<1>2. CASE Quiet
  <2>1. UNCHANGED <<n, calls>>
    BY <1>2, QuietFrame
  <2>2. i \in Items /\ i < n /\ i \in 0 .. (n - 1)
    BY <1>1, <2>1, MaxItemsAssumption DEF Items, Core, TypeOK, MainTypes
  <2>3. \/ mpc = "returned" \/ (mpc = "sequential" /\ next = n)
        \/ (mpc = "join" /\ next = WorkerCount)
    BY <1>1, <1>2 DEF Quiet, SequentialReturn, PushOutOfMemory, AllocThreads, SpawnDone,
              Join, JoinUndefinedHandle, Return, Stopped, vars
  <2>4. calls[i] >= 1
    BY <2>2, <2>3, AllDone DEF NoItemLost, CoverInv
  <2> QED
    BY <2>1, <2>4
<1>3. CASE (\E len \in 0 .. MaxItems : Run(len)) \/ SequentialItem \/ Push \/ Spawn
  BY <1>1, <1>3 DEF Run, SequentialItem, Push, Spawn
<1>4. ASSUME NEW w \in Workers, Worker(w) PROVE FALSE
  <2>1. mpc = "returned" /\ pc[w] \notin {"unspawned", "exited"}
    BY <1>1, <1>4, WorkerFrame DEF mainVars, Core
  <2> QED
    BY <2>1 DEF DrainInv
<1>5. ASSUME NEW w \in Workers, Flush(w) PROVE calls'[i] >= 1
  BY <1>1, <1>5, FlushFrame DEF NoItemLost
<1> QED
  BY <1>2, <1>3, <1>4, <1>5, StepKinds

Base == Core /\ ResultInv

(* Base holds before run() is called.                                        *)
LEMMA InitBase == Init => Base
<1> SUFFICES ASSUME Init PROVE Base
  OBVIOUS
<1> USE DEF Init
<1>1. Core
  BY InitCore
<1>3. BoundInv /\ HoldingInv
  BY DEF BoundInv, HoldingInv, NoItem
<1>4. CoverInv /\ DrainInv /\ NoItemLost
  BY DEF CoverInv, DrainInv, NoItemLost
<1>5. CountInv
  <2>1. SumFunction(calls) = 0
    BY <1>1, NoCalls DEF Core
  <2>2. Total(local) = 0
    BY TotalZero
  <2> QED
    BY <2>1, <2>2 DEF CountInv
<1> QED
  BY <1>1, <1>3, <1>4, <1>5 DEF Base, ResultInv

(* Base is inductive.                                                        *)
LEMMA NextBase ==
  ASSUME Base, [Next]_vars
  PROVE  Base'
<1>1. Core /\ ResultInv /\ Core'
  BY NextCore DEF Base
<1>2. /\ BoundInv /\ HoldingInv /\ CoverInv /\ DrainInv /\ CountInv /\ NoItemLost
  BY <1>1 DEF ResultInv
<1>3. BoundInv' /\ HoldingInv'
  BY <1>1, <1>2, BoundStep, HoldingStep
<1>4. CoverInv' /\ DrainInv'
  BY <1>1, <1>2, CoverStep, DrainStep
<1>5. CountInv' /\ NoItemLost'
  BY <1>1, <1>2, <1>4, CountStep, NoLossStep
<1> QED
  BY <1>1, <1>3, <1>4, <1>5 DEF Base, ResultInv

(* run() returns results only when process_fn has been called on every item, *)
(* however many stores a thread may have in flight: no worker leaves while an *)
(* item is left in a deque that no other worker will find.                   *)
THEOREM NothingLost == Spec => []NoItemLost
<1>1. Init => Base
  BY InitBase
<1>2. Base /\ [Next]_vars => Base'
  BY NextBase
<1>3. Base => NoItemLost
  BY DEF Base, ResultInv
<1> QED
  BY <1>1, <1>2, <1>3, PTL DEF Spec

(* What run() returns: at least one call counted for every work item.        *)
CountsCover == mpc = "returned" => Total(results) >= n

(* The counters are those of the calls, and every item has had one.          *)
LEMMA CallsCover == Base => CountsCover
<1> SUFFICES ASSUME Base, mpc = "returned" PROVE Total(results) >= n
  BY DEF CountsCover
<1> DEFINE T == 0 .. (n - 1)
<1>1. /\ CountInv /\ NoItemLost /\ calls \in [Items -> Nat]
      /\ n \in Nat /\ n <= MaxItems
  BY MaxItemsAssumption DEF Base, Core, ResultInv, TypeOK, CountTypes, MainTypes
<1>2. T \in SUBSET Items /\ \A i \in T : calls[i] >= 1
  BY <1>1, MaxItemsAssumption DEF Items, NoItemLost
<1>3. Cardinality(T) = n
  BY <1>1, FS_Interval
<1> HIDE DEF T
<1>4. SumFunctionOnSet(calls, Items) >= Cardinality(T)
  BY <1>1, <1>2, Finite, SumAtLeast
<1>5. SumFunctionOnSet(calls, Items) = SumFunction(calls)
  BY <1>1 DEF SumFunction
<1> QED
  BY <1>1, <1>3, <1>4, <1>5 DEF CountInv

(* However many stores are in flight, the results never come short of the    *)
(* number of work items: the counters the workers hand over when they exit   *)
(* are all in, and a call they count twice can only add to the sum.          *)
THEOREM CountsNeverShort == Spec => []CountsCover
<1>1. Init => Base
  BY InitBase
<1>2. Base /\ [Next]_vars => Base'
  BY NextBase
<1>3. Base => CountsCover
  BY CallsCover
<1> QED
  BY <1>1, <1>2, <1>3, PTL DEF Spec

-----------------------------------------------------------------------------
(* An item is handed out once for each call made on it and for each worker    *)
(* that is about to make one.  When stores to bottom are late it can be      *)
(* handed out twice, but never a third time: an owner and thieves disagree   *)
(* on how far the deque goes, never thieves among themselves on its top.     *)
HandedOut(i) == calls[i] + Cardinality({w \in Workers : item[w] = i})
AtMostTwice == \A i \in Items : HandedOut(i) <= 2

(* How often the slot of a deque can have been taken: once over its top, by a *)
(* compare-and-swap, and once over its bottom, by its owner.                 *)
Gone(v, k) == (IF k < top[v] THEN 1 ELSE 0) + (IF k >= Extent(v) THEN 1 ELSE 0)

(* An item has not been handed out more often than its slot can be gone.     *)
SlotInv ==
  \A v \in Workers : \A k \in Items :
     array[v][k] # NoItem => HandedOut(array[v][k]) <= Gone(v, k)
TwiceInv == SlotInv /\ AtMostTwice

(* A slot is gone never, once or twice.                                      *)
LEMMA GoneType == \A v \in Workers : \A k \in Items : Gone(v, k) \in 0 .. 2
  BY DEF Gone

(* The items are handed out a number of times.                               *)
LEMMA HandedOutType ==
  ASSUME TypeOK
  PROVE  \A i \in Items : /\ HandedOut(i) \in Nat /\ calls[i] \in Nat
                          /\ IsFiniteSet({w \in Workers : item[w] = i})
                          /\ Cardinality({w \in Workers : item[w] = i}) \in Nat
<1> TAKE i \in Items
<1>1. IsFiniteSet({w \in Workers : item[w] = i})
  BY Finite, FS_Subset
<1>2. Cardinality({w \in Workers : item[w] = i}) \in Nat
  BY <1>1, FS_CardinalityType
<1>3. calls[i] \in Nat
  BY DEF TypeOK, CountTypes
<1> QED
  BY <1>1, <1>2, <1>3 DEF HandedOut

(* While no worker has an item, what is handed out is done.                  *)
LEMMA NobodyHolds ==
  ASSUME \A w \in Workers : item[w] = NoItem
  PROVE  \A i \in Items : HandedOut(i) = calls[i] + 0
<1> TAKE i \in Items
<1>1. {w \in Workers : item[w] = i} = {}
  BY DEF NoItem, Items
<1> QED
  BY <1>1, FS_EmptySet DEF HandedOut

(* A worker that takes an item hands it out once more.                       *)
LEMMA TakingCounts ==
  ASSUME TypeOK, NEW w \in Workers, NEW x \in Items, item[w] = NoItem,
         item' = [item EXCEPT ![w] = x], calls' = calls
  PROVE  \A i \in Items : HandedOut(i)' = HandedOut(i) + (IF i = x THEN 1 ELSE 0)
<1> TAKE i \in Items
<1> DEFINE H == {u \in Workers : item[u] = i}
           G == {u \in Workers : item'[u] = i}
<1>1. /\ IsFiniteSet(H) /\ Cardinality(H) \in Nat /\ calls[i] \in Nat /\ NoItem # i
  BY HandedOutType DEF NoItem, Items
<1>2. \A u \in Workers : item'[u] = IF u = w THEN x ELSE item[u]
  BY DEF TypeOK, LocalTypes
<1>3. w \notin H /\ G = IF i = x THEN H \cup {w} ELSE H
  BY <1>1, <1>2
<1> HIDE DEF H, G
<1>4. Cardinality(G) = Cardinality(H) + (IF i = x THEN 1 ELSE 0)
  BY <1>1, <1>3, FS_AddElement
<1>5. HandedOut(i)' = calls[i] + Cardinality(G) /\ HandedOut(i) = calls[i] + Cardinality(H)
  BY DEF HandedOut, H, G
<1> QED
  BY <1>1, <1>4, <1>5

(* A call on the item a worker has hands out nothing.                        *)
LEMMA CallingKeeps ==
  ASSUME TypeOK, NEW w \in Workers, NEW x \in Items, item[w] = x,
         item' = [item EXCEPT ![w] = NoItem], calls' = [calls EXCEPT ![x] = @ + 1]
  PROVE  \A i \in Items : HandedOut(i)' = HandedOut(i)
<1> TAKE i \in Items
<1> DEFINE H == {u \in Workers : item[u] = i}
           G == {u \in Workers : item'[u] = i}
<1>1. /\ IsFiniteSet(H) /\ Cardinality(H) \in Nat /\ calls[i] \in Nat /\ NoItem # i
  BY HandedOutType DEF NoItem, Items
<1>2. \A u \in Workers : item'[u] = IF u = w THEN NoItem ELSE item[u]
  BY DEF TypeOK, LocalTypes
<1>3. G = H \ {w} /\ (w \in H <=> i = x)
  BY <1>1, <1>2
<1>4. calls'[i] = IF i = x THEN calls[i] + 1 ELSE calls[i]
  BY DEF TypeOK, CountTypes
<1> HIDE DEF H, G
<1>5. Cardinality(G) = IF i = x THEN Cardinality(H) - 1 ELSE Cardinality(H)
  BY <1>1, <1>3, FS_RemoveElement
<1>6. HandedOut(i)' = calls'[i] + Cardinality(G) /\ HandedOut(i) = calls[i] + Cardinality(H)
  BY DEF HandedOut, H, G
<1> QED
  BY <1>1, <1>4, <1>5, <1>6

(* No step of a worker moves the end of a deque up: what pop() adds to        *)
(* bottom at its end it had taken away at its beginning.                     *)
LEMMA ExtentShrinks ==
  ASSUME Core, NEW w \in Workers, Worker(w), NEW v \in Workers
  PROVE  Extent(v) \in Nat /\ Extent(v)' \in Int /\ Extent(v)' <= Extent(v)
<1>1. /\ TypeOK /\ PhaseInv /\ StockInv /\ OwnInv(w) /\ Own(v) \in Nat
      /\ pc \in [Workers -> Labels]
  BY OwnType DEF Core, LocalInv, TypeOK
<1>2. CASE v # w
  <2>1. pc'[v] = pc[v] /\ Own(v)' = Own(v)
    BY <1>1, <1>2, OthersUntouched
  <2> QED
    BY <1>1, <2>1 DEF Extent
<1>3. CASE v = w
  <2>1. CASE PopBegin(w) \/ PopEnd(w)
    <3>1. \/ /\ pc[w] = "loop" /\ pc'[w] = "pop_top" /\ Own(w)' = Own(w) - 1
          \/ /\ pc[w] \in {"pop_restore", "pop_advance"} /\ pc'[w] \in {"process", "steal_top"}
             /\ Own(w)' = Own(w) + 1
      BY <1>1, <2>1, OwnMoves
    <3> QED
      BY <1>1, <1>3, <3>1 DEF Extent, Popping
  <2>2. CASE \/ LoopStops(w) \/ StealTop(w) \/ StealBottom(w) \/ StealCas(w)
             \/ Process(w) \/ ScanBottom(w) \/ ScanTop(w) \/ Exit(w)
    <3>1. Own(w)' = Own(w) /\ pc[w] \notin Popping /\ pc'[w] \notin Popping
      BY <1>1, <2>2, OutsidePop
    <3> QED
      BY <1>1, <1>3, <3>1 DEF Extent
  <2>3. CASE PopTakes(w) \/ PopFindsEmpty(w) \/ PopFindsLast(w) \/ PopCas(w)
    <3>1. pc[w] \in Popping
      BY <2>3 DEF PopTakes, PopFindsEmpty, PopFindsLast, PopCas, Popping
    <3>2. Own(w)' = Own(w)
      <4>1. ~ PopBegin(w) /\ ~ PopEnd(w)
        BY <2>3 DEF PopTakes, PopFindsEmpty, PopFindsLast, PopCas, PopBegin, PopEnd
      <4> QED
        BY <4>1, NoStore
    <3> QED
      BY <1>1, <1>3, <3>1, <3>2 DEF Extent
  <2> QED
    BY <2>1, <2>2, <2>3 DEF Worker
<1> QED
  BY <1>2, <1>3

(* So a slot that is gone stays gone.                                        *)
LEMMA GoneGrows ==
  ASSUME Core, Core', NEW w \in Workers, Worker(w), NEW v \in Workers, NEW k \in Items
  PROVE  Gone(v, k)' >= Gone(v, k)
<1>1. /\ top'[v] >= top[v] /\ top[v] \in Nat /\ top'[v] \in Nat /\ k \in Nat
  BY TopGrows DEF Core, TypeOK, DequeTypes, Items
<1>2. Extent(v) \in Nat /\ Extent(v)' \in Int /\ Extent(v)' <= Extent(v)
  BY ExtentShrinks
<1> QED
  BY <1>1, <1>2 DEF Gone

(* A worker's step takes nothing, processes what the worker has, or takes an  *)
(* item out of a slot that is gone once more afterwards.                     *)
LEMMA TakesOnce ==
  ASSUME Core, Core', HoldingInv, NEW w \in Workers, Worker(w)
  PROVE  \/ UNCHANGED <<item, calls>>
         \/ Process(w)
         \/ \E v \in Workers : \E k \in Items :
              /\ array[v][k] \in Items /\ item[w] = NoItem
              /\ item' = [item EXCEPT ![w] = array[v][k]] /\ calls' = calls
              /\ Gone(v, k)' >= Gone(v, k) + 1
<1>1. /\ OwnInv(w) /\ TypeOK /\ pc \in [Workers -> Labels] /\ Own(w) \in Nat
      /\ b[w] \in Nat /\ t[w] \in Nat /\ victim[w] \in Workers
      /\ top \in [Workers -> Nat] /\ \A v \in Workers : top[v] \in Nat /\ top'[v] \in Nat
  BY OwnType DEF Core, LocalInv, TypeOK, LocalTypes, DequeTypes
<1>2. \A v \in Workers : Extent(v) \in Nat /\ Extent(v)' \in Int /\ Extent(v)' <= Extent(v)
  BY ExtentShrinks
<1>3. CASE PopTakes(w)
  <2>1. /\ pc[w] = "pop_top" /\ pc'[w] = "process" /\ item[w] = NoItem /\ top' = top
        /\ item' = [item EXCEPT ![w] = array[w][b[w]]] /\ calls' = calls /\ b' = b
    BY <1>1, <1>3 DEF PopTakes, HoldingInv, Goto, dequeVars
  <2>2. b[w] \in Items /\ array[w][b[w]] \in Items
    BY <1>3, ClaimReady
  <2>3. Own(w) = b[w] /\ Own(w)' = Own(w)
    BY <1>1, <1>3, <2>1 DEF OwnInv, Popping, PopTakes, dequeVars, Own, ReadBottom
  <2>4. Extent(w) = b[w] + 1 /\ Extent(w)' = b[w]
    BY <2>1, <2>3 DEF Extent, Popping
  <2>5. Gone(w, b[w])' = (IF b[w] < top[w] THEN 1 ELSE 0) + 1
    <3>1. b[w] >= b[w]
      BY <1>1
    <3> QED
      BY <2>1, <2>4, <3>1 DEF Gone
  <2>6. Gone(w, b[w]) = (IF b[w] < top[w] THEN 1 ELSE 0) + 0
    <3>1. ~ (b[w] >= b[w] + 1)
      BY <1>1
    <3> QED
      BY <2>4, <3>1 DEF Gone
  <2>7. Gone(w, b[w])' >= Gone(w, b[w]) + 1
    BY <2>5, <2>6
  <2>8. \E k \in Items : /\ array[w][k] \in Items /\ item' = [item EXCEPT ![w] = array[w][k]]
                         /\ Gone(w, k)' >= Gone(w, k) + 1
    BY <2>1, <2>2, <2>7 DEF Gone
  <2> QED
    BY <2>1, <2>8
<1>4. ASSUME NEW v \in Workers, NEW k \in Items, top[v] = k, top'[v] = k + 1
      PROVE  Gone(v, k)' >= Gone(v, k) + 1
  <2>1. k \in Nat
    BY DEF Items
  <2> QED
    BY <1>2, <1>4, <2>1 DEF Gone
<1>5. CASE PopCas(w)
  <2>1. CASE top[w] # t[w]
    BY <1>5, <2>1 DEF PopCas
  <2>2. CASE top[w] = t[w]
    <3>1. /\ pc[w] = "pop_cas" /\ item[w] = NoItem /\ top'[w] = t[w] + 1
          /\ item' = [item EXCEPT ![w] = array[w][b[w]]] /\ calls' = calls
      BY <1>1, <1>5, <2>2 DEF PopCas, HoldingInv
    <3>2. b[w] \in Items /\ array[w][b[w]] \in Items /\ t[w] = b[w]
      BY <1>1, <1>5, <3>1, ClaimReady DEF OwnInv
    <3>3. PICK k \in Items : k = b[w]
      BY <3>2
    <3>4. Gone(w, k)' >= Gone(w, k) + 1
      BY <1>4, <2>2, <3>1, <3>2, <3>3
    <3>5. array[w][k] \in Items /\ item' = [item EXCEPT ![w] = array[w][k]]
      BY <3>1, <3>2, <3>3
    <3> QED
      BY <3>1, <3>4, <3>5
  <2> QED
    BY <2>1, <2>2
<1>6. CASE StealCas(w)
  <2> DEFINE v == victim[w]
  <2>1. CASE top[v] # t[w]
    BY <1>6, <2>1 DEF StealCas
  <2>2. CASE top[v] = t[w]
    <3>1. /\ pc[w] = "steal_cas" /\ item[w] = NoItem /\ top'[v] = t[w] + 1
          /\ item' = [item EXCEPT ![w] = array[v][t[w]]] /\ calls' = calls
          /\ UNCHANGED <<victim, t>>
      BY <1>1, <1>6, <2>2 DEF StealCas, HoldingInv
    <3>2. t[w] \in Items /\ array[v][t[w]] \in Items
      BY <1>6, ClaimReady
    <3>3. PICK u \in Workers : u = v
      BY <1>1
    <3>4. PICK k \in Items : k = t[w]
      BY <3>2
    <3>5. Gone(u, k)' >= Gone(u, k) + 1
      BY <1>4, <2>2, <3>1, <3>3, <3>4
    <3>6. array[u][k] \in Items /\ item' = [item EXCEPT ![w] = array[u][k]]
      BY <3>1, <3>2, <3>3, <3>4
    <3> QED
      BY <3>1, <3>5, <3>6
  <2> QED
    BY <2>1, <2>2
<1>7. CASE ~ PopTakes(w) /\ ~ PopCas(w) /\ ~ StealCas(w) /\ ~ Process(w)
  BY <1>7 DEF Worker, PopBegin, LoopStops, PopFindsEmpty, PopFindsLast,
     PopEnd, StealTop, StealBottom,
     ScanBottom, ScanTop, Exit, localVars
<1> QED
  BY <1>3, <1>5, <1>6, <1>7

(* The slots are as gone as before, and nothing was handed out.              *)
LEMMA TwiceFrame ==
  ASSUME TwiceInv, TypeOK, UNCHANGED array,
         \A i \in Items : HandedOut(i)' = HandedOut(i),
         \A v \in Workers : \A k \in Items : Gone(v, k)' >= Gone(v, k)
  PROVE  TwiceInv'
<1>1. AtMostTwice'
  BY DEF TwiceInv, AtMostTwice
<1>2. SlotInv'
  <2> SUFFICES ASSUME NEW v \in Workers, NEW k \in Items, array[v][k] # NoItem
               PROVE  HandedOut(array[v][k])' <= Gone(v, k)'
    BY DEF SlotInv
  <2> DEFINE x == array[v][k]
  <2>1. x \in Items /\ HandedOut(x) \in Nat /\ HandedOut(x) <= Gone(v, k)
    <3>1. x \in Items
      BY DEF TypeOK, DequeTypes
    <3>2. HandedOut(x) <= Gone(v, k)
      BY DEF TwiceInv, SlotInv
    <3> QED
      BY <3>1, <3>2, HandedOutType
  <2>2. HandedOut(array[v][k])' = HandedOut(x)
    BY <2>1 DEF HandedOut
  <2>3. Gone(v, k)' >= Gone(v, k) /\ Gone(v, k) \in Int /\ Gone(v, k)' \in Int
    BY GoneType DEF Gone
  <2> QED
    BY <2>1, <2>2, <2>3
<1> QED
  BY <1>1, <1>2 DEF TwiceInv

(* What a worker takes was handed out less often than its slot is gone now.  *)
LEMMA WorkerHandsOut ==
  ASSUME Base, Base', TwiceInv, NEW w \in Workers, Worker(w)
  PROVE  TwiceInv'
<1>1. /\ Core /\ Core' /\ HoldingInv /\ TypeOK /\ PhaseInv /\ DistinctInv
      /\ item \in [Workers -> Items \cup {NoItem}]
  BY DEF Base, ResultInv, Core, TypeOK, LocalTypes
<1>2. UNCHANGED array
  BY <1>1, WorkerFrame
<1>3. \A v \in Workers : \A k \in Items : Gone(v, k)' >= Gone(v, k)
  BY <1>1, GoneGrows
<1>4. CASE UNCHANGED <<item, calls>>
  <2>1. \A i \in Items : HandedOut(i)' = HandedOut(i)
    BY <1>4 DEF HandedOut
  <2> QED
    BY <1>1, <1>2, <1>3, <2>1, TwiceFrame
<1>5. CASE Process(w)
  <2>1. item' = [item EXCEPT ![w] = NoItem] /\ calls' = [calls EXCEPT ![item[w]] = @ + 1]
    BY <1>5 DEF Process
  <2>2. item[w] \in Items
    BY <1>1, <1>5 DEF Process, HoldingInv
  <2>3. \A i \in Items : HandedOut(i)' = HandedOut(i)
    BY <1>1, <2>1, <2>2, CallingKeeps
  <2> QED
    BY <1>1, <1>2, <1>3, <2>3, TwiceFrame
<1>6. ASSUME NEW v \in Workers, NEW k \in Items,
             array[v][k] \in Items, item[w] = NoItem,
             item' = [item EXCEPT ![w] = array[v][k]], calls' = calls,
             Gone(v, k)' >= Gone(v, k) + 1
      PROVE  TwiceInv'
  <2> DEFINE x == array[v][k]
  <2>1. \A i \in Items : HandedOut(i)' = HandedOut(i) + (IF i = x THEN 1 ELSE 0)
    BY <1>1, <1>6, TakingCounts
  <2>2. \A i \in Items : HandedOut(i) \in Nat
    BY <1>1, HandedOutType
  <2>3. \A u \in Workers : \A j \in Items : Gone(u, j) \in 0 .. 2 /\ Gone(u, j)' \in 0 .. 2
    BY GoneType DEF Gone
  <2>4. HandedOut(x)' <= Gone(v, k)'
    <3>1. HandedOut(x) <= Gone(v, k) /\ HandedOut(x) \in Nat
      BY <1>6, <2>2 DEF TwiceInv, SlotInv, NoItem, Items
    <3>2. HandedOut(x)' = HandedOut(x) + 1
      <4>1. x \in Items
        BY <1>6
      <4>2. PICK i \in Items : i = x
        BY <4>1
      <4>3. HandedOut(i)' = HandedOut(i) + 1
        BY <2>1, <4>2
      <4> QED
        BY <1>2, <4>2, <4>3 DEF HandedOut
    <3> QED
      BY <1>6, <2>3, <3>1, <3>2
  <2>5. SlotInv'
    <3> SUFFICES ASSUME NEW u \in Workers, NEW j \in Items, array[u][j] # NoItem
                 PROVE  HandedOut(array[u][j])' <= Gone(u, j)'
      BY <1>2 DEF SlotInv
    <3>1. PICK y \in Items : y = array[u][j]
      BY <1>1 DEF TypeOK, DequeTypes
    <3>2. CASE y = x
      <4>1. u = v /\ j = k
        <5>1. array[u][j] = array[v][k] /\ array[u][j] # NoItem
          BY <3>1, <3>2
        <5> QED
          BY <1>1, <5>1 DEF DistinctInv
      <4> QED
        BY <2>4, <4>1
    <3>3. CASE y # x
      <4>1. HandedOut(y)' = HandedOut(y)
        BY <2>1, <2>2, <3>3
      <4>2. HandedOut(y) <= Gone(u, j)
        BY <3>1 DEF TwiceInv, SlotInv
      <4>3. HandedOut(y)' <= Gone(u, j)'
        BY <1>3, <2>2, <2>3, <4>1, <4>2
      <4> QED
        BY <1>2, <3>1, <4>3 DEF HandedOut
    <3> QED
      BY <3>2, <3>3
  <2>6. AtMostTwice'
    <3> SUFFICES ASSUME NEW i \in Items PROVE HandedOut(i)' <= 2
      BY DEF AtMostTwice
    <3>1. CASE i = x
      <4>1. HandedOut(i)' <= Gone(v, k)'
        BY <1>2, <2>4, <3>1 DEF HandedOut
      <4>2. HandedOut(i)' \in Nat
        BY <2>1, <2>2
      <4> QED
        BY <2>3, <4>1, <4>2
    <3>2. CASE i # x
      BY <2>1, <2>2, <3>2 DEF TwiceInv, AtMostTwice
    <3> QED
      BY <3>1, <3>2
  <2> QED
    BY <2>5, <2>6 DEF TwiceInv
<1> QED
  BY <1>1, <1>4, <1>5, <1>6, TakesOnce

(* Every step keeps TwiceInv.                                                *)
LEMMA TwiceStep ==
  ASSUME Base, TwiceInv, [Next]_vars
  PROVE  TwiceInv'
<1>c. Base' /\ Core /\ Core' /\ TypeOK /\ TypeOK' /\ PhaseInv /\ StockInv
  BY NextBase DEF Base, Core
<1>g. \A v \in Workers : \A k \in Items : Gone(v, k) \in 0 .. 2 /\ Gone(v, k)' \in 0 .. 2
  BY GoneType DEF Gone
<1>1. ASSUME UNCHANGED <<array, top, item, calls>>,
             \A v \in Workers : Extent(v)' = Extent(v)
      PROVE  TwiceInv'
  <2>1. \A i \in Items : HandedOut(i)' = HandedOut(i)
    BY <1>1 DEF HandedOut
  <2>2. \A v \in Workers : \A k \in Items : Gone(v, k)' = Gone(v, k)
    BY <1>1 DEF Gone
  <2>3. \A v \in Workers : \A k \in Items : Gone(v, k)' >= Gone(v, k)
    BY <1>g, <2>2
  <2> QED
    BY <1>1, <1>c, <2>1, <2>3, TwiceFrame
<1>2. CASE (\E len \in 0 .. MaxItems : Run(len)) \/ Quiet
  <2>1. UNCHANGED <<array, top, item, calls, pc, bottom, buffer>>
    BY <1>2, QuietFrame DEF Run, localVars
  <2> QED
    BY <1>1, <2>1 DEF Extent, Own, ReadBottom
<1>3. CASE Spawn
  <2>1. /\ UNCHANGED <<array, top, item, calls>>
        /\ \A v \in Workers : /\ pc'[v] = pc[v] \/ (pc[v] = "unspawned" /\ pc'[v] = "loop")
                              /\ Own(v)' = Own(v)
    BY <1>3, <1>c, SpawnFrame
  <2>2. \A v \in Workers : Extent(v)' = Extent(v)
    BY <2>1 DEF Extent, Popping
  <2> QED
    BY <1>1, <2>1, <2>2
<1>4. ASSUME NEW w \in Workers, Flush(w) PROVE TwiceInv'
  <2>1. UNCHANGED <<array, top, item, calls, pc>>
    BY <1>4, FlushFrame
  <2>2. \A v \in Workers : Own(v)' = Own(v)
    BY <1>4, <1>c, FlushSeen
  <2> QED
    BY <1>1, <2>1, <2>2 DEF Extent
<1>5. CASE Push
  <2>1. /\ calls' = calls /\ item' = item
        /\ \A w \in Workers : item[w] = NoItem
        /\ \A i \in Items : calls[i] = 0
    BY <1>5, <1>c DEF Push, localVars, PhaseInv
  <2>2. \A i \in Items : HandedOut(i)' = 0
    <3>1. \A i \in Items : HandedOut(i) = 0
      BY <2>1, NobodyHolds
    <3> QED
      BY <2>1, <3>1 DEF HandedOut
  <2>3. SlotInv'
    <3> SUFFICES ASSUME NEW v \in Workers, NEW k \in Items, array'[v][k] # NoItem
                 PROVE  HandedOut(array[v][k])' <= Gone(v, k)'
      BY DEF SlotInv
    <3>1. PICK y \in Items : y = array'[v][k]
      BY <1>c DEF TypeOK, DequeTypes
    <3>2. HandedOut(array[v][k])' = HandedOut(y)'
      BY <3>1 DEF HandedOut
    <3> QED
      BY <1>g, <2>2, <3>2
  <2>4. AtMostTwice'
    BY <2>2 DEF AtMostTwice
  <2> QED
    BY <2>3, <2>4 DEF TwiceInv
<1>6. CASE SequentialItem
  <2>1. /\ mpc = "sequential" /\ calls' = [calls EXCEPT ![next] = @ + 1] /\ next \in Items
        /\ UNCHANGED <<array, top, bottom, buffer, pc, item>>
    BY <1>6, <1>c, MaxItemsAssumption
    DEF SequentialItem, localVars, TypeOK, MainTypes, Items
  <2>2. /\ \A w \in Workers : /\ item[w] = NoItem /\ top[w] = 0 /\ pc[w] = "unspawned"
                              /\ buffer[w] = <<>> /\ bottom[w] = 0
        /\ calls[next] = 0
    <3>1. next >= next
      BY <2>1 DEF Items
    <3> QED
      BY <2>1, <1>c, <3>1 DEF PhaseInv
  <2>3. \A i \in Items : HandedOut(i) = calls[i] + 0 /\ calls[i] \in Nat
    BY <1>c, <2>2, NobodyHolds, HandedOutType
  <2>4. \A i \in Items : HandedOut(i)' = calls'[i] + 0
    <3>1. \A i \in Items : {w \in Workers : item[w] = i} = {}
      BY <2>2 DEF NoItem, Items
    <3>2. Cardinality({}) = 0
      BY FS_EmptySet
    <3> QED
      BY <2>1, <3>1, <3>2 DEF HandedOut
  <2>5. \A i \in Items : calls'[i] = IF i = next THEN 1 ELSE calls[i]
    BY <1>c, <2>1, <2>2 DEF TypeOK, CountTypes
  <2>6. \A v \in Workers : \A k \in Items : Gone(v, k) = 1 /\ Gone(v, k)' = 1
    <3> TAKE v \in Workers
    <3> TAKE k \in Items
    <3>1. Extent(v) = 0 /\ Extent(v)' = 0
      BY <2>1, <2>2 DEF Extent, Own, ReadBottom, Popping
    <3>2. k \in Nat /\ top[v] = 0 /\ top'[v] = 0
      BY <2>1, <2>2 DEF Items
    <3> QED
      BY <3>1, <3>2 DEF Gone
  <2>7. SlotInv'
    <3> SUFFICES ASSUME NEW v \in Workers, NEW k \in Items, array[v][k] # NoItem
                 PROVE  HandedOut(array[v][k])' <= Gone(v, k)'
      BY <2>1 DEF SlotInv
    <3>1. PICK y \in Items : y = array[v][k]
      BY <1>c DEF TypeOK, DequeTypes
    <3>2. HandedOut(y) <= 1
      BY <2>6, <3>1 DEF TwiceInv, SlotInv
    <3>3. HandedOut(y)' <= 1
      BY <2>3, <2>4, <2>5, <3>2
    <3>4. HandedOut(array[v][k])' = HandedOut(y)'
      BY <2>1, <3>1 DEF HandedOut
    <3> QED
      BY <2>6, <3>3, <3>4
  <2>8. AtMostTwice'
    <3> SUFFICES ASSUME NEW i \in Items PROVE HandedOut(i)' <= 2
      BY DEF AtMostTwice
    <3>1. HandedOut(i) <= 2
      BY DEF TwiceInv, AtMostTwice
    <3> QED
      BY <2>3, <2>4, <2>5, <3>1
  <2> QED
    BY <2>7, <2>8 DEF TwiceInv
<1>7. ASSUME NEW w \in Workers, Worker(w) PROVE TwiceInv'
  BY <1>7, <1>c, WorkerHandsOut
<1> QED
  BY <1>2, <1>3, <1>4, <1>5, <1>6, <1>7, StepKinds

(* Nothing is handed out before run() is called.                             *)
LEMMA InitTwice == Init => TwiceInv
<1> SUFFICES ASSUME Init PROVE TwiceInv
  OBVIOUS
<1>1. \A i \in Items : HandedOut(i) = 0
  <2>1. \A i \in Items : calls[i] = 0
    BY DEF Init
  <2>2. \A w \in Workers : item[w] = NoItem
    BY DEF Init
  <2> QED
    BY <2>1, <2>2, NobodyHolds
<1>2. AtMostTwice
  BY <1>1 DEF AtMostTwice
<1>3. SlotInv
  BY DEF SlotInv, Init
<1> QED
  BY <1>2, <1>3 DEF TwiceInv

(* However many stores to bottom are in flight, no item is handed out a third *)
(* time: a slot is passed once by top, which moves only by compare-and-swap, *)
(* and once by its owner, whose view of bottom only goes down.               *)
THEOREM ItemsAtMostTwice == Spec => []AtMostTwice
<1>1. Init => Base /\ TwiceInv
  BY InitBase, InitTwice
<1>2. Base /\ TwiceInv /\ [Next]_vars => (Base /\ TwiceInv)'
  BY NextBase, TwiceStep
<1>3. TwiceInv => AtMostTwice
  BY DEF TwiceInv
<1> QED
  BY <1>1, <1>2, <1>3, PTL DEF Spec

(* What run() returns: at most two calls counted for a work item.            *)
CountsBounded == mpc = "returned" => Total(results) <= 2 * n

(* The counters are those of the calls, and no item has had three.           *)
LEMMA CallsBounded == Base /\ TwiceInv => CountsBounded
<1> SUFFICES ASSUME Base, TwiceInv, mpc = "returned" PROVE Total(results) <= 2 * n
  BY DEF CountsBounded
<1> DEFINE T == 0 .. (n - 1)
<1>1. /\ CountInv /\ BoundInv /\ TypeOK /\ calls \in [Items -> Nat]
      /\ n \in Nat /\ n <= MaxItems
  BY MaxItemsAssumption DEF Base, Core, ResultInv, TypeOK, CountTypes, MainTypes
<1>2. T \in SUBSET Items
  BY <1>1, MaxItemsAssumption DEF Items
<1>3. \A i \in T : calls[i] \in Nat /\ calls[i] <= 2
  <2> TAKE i \in T
  <2>1. i \in Items
    BY <1>2
  <2>2. /\ HandedOut(i) <= 2 /\ calls[i] \in Nat
        /\ Cardinality({w \in Workers : item[w] = i}) \in Nat
    BY <1>1, <2>1, HandedOutType DEF TwiceInv, AtMostTwice
  <2> QED
    BY <2>2 DEF HandedOut
<1>4. \A i \in Items \ T : calls[i] = 0
  BY <1>1 DEF BoundInv, Items
<1>5. \A i \in Items : calls[i] \in Nat
  BY <1>1
<1>6. Cardinality(T) = n /\ IsFiniteSet(T)
  BY <1>1, FS_Interval
<1> HIDE DEF T
<1>7. SumFunctionOnSet(calls, Items) = SumFunctionOnSet(calls, T)
  BY <1>2, <1>4, <1>5, Finite, SumPart
<1>8. SumFunctionOnSet(calls, T) <= 2 * Cardinality(T)
  BY <1>3, <1>6, SumOfTwos
<1>9. SumFunction(calls) <= 2 * n
  BY <1>1, <1>6, <1>7, <1>8 DEF SumFunction
<1> QED
  BY <1>1, <1>9 DEF CountInv

(* So a late store can make the results too large, never by more than the     *)
(* number of work items.                                                     *)
THEOREM CountsAtMostDouble == Spec => []CountsBounded
<1>1. Init => Base /\ TwiceInv
  BY InitBase, InitTwice
<1>2. Base /\ TwiceInv /\ [Next]_vars => (Base /\ TwiceInv)'
  BY NextBase, TwiceStep
<1>3. Base /\ TwiceInv => CountsBounded
  BY CallsBounded
<1> QED
  BY <1>1, <1>2, <1>3, PTL DEF Spec

-----------------------------------------------------------------------------
(* With a store in flight a thief may read a bottom its owner has already     *)
(* taken back, and both get the last item.  From here on nothing is in        *)
(* flight: BufferDepth = 0.                                                  *)
(*                                                                           *)
(* A thief at its compare-and-swap either has an old top, and fails, or its  *)
(* slot is still in range.                                                   *)
RaceInv(w) ==
  pc[w] = "steal_cas" =>
    (t[w] = top[victim[w]] => t[w] < OwnerBottom(victim[w]))

(* An item in a slot in range is nobody's yet.                               *)
UnclaimedInv ==
  \A v \in Workers : \A k \in Items :
     InRange(v, k) /\ array[v][k] # NoItem =>
        /\ calls[array[v][k]] = 0
        /\ \A w \in Workers : item[w] # array[v][k]

Inv == Base /\ (\A w \in Workers : RaceInv(w)) /\ UnclaimedInv /\ AtMostOnce

(* Then memory is what the owner sees.                                       *)
LEMMA NothingInFlight ==
  ASSUME BufferDepth = 0, TypeOK, PhaseInv, NEW w \in Workers
  PROVE  Own(w) = bottom[w] /\ ~ Flush(w)
<1>1. buffer[w] \in Seq(Nat) /\ Len(buffer[w]) <= 0
  BY DEF TypeOK, DequeTypes, PhaseInv
<1>2. buffer[w] = <<>>
  BY <1>1
<1> QED
  BY <1>2 DEF Own, ReadBottom, Flush

(* A worker's step leaves the top slot of a deque unclaimed unless it moves   *)
(* that top: an owner gives up a slot without a compare-and-swap only when    *)
(* another one is left below it.                                              *)
LEMMA TopSlotStays ==
  ASSUME Core, Core', NEW w \in Workers, Worker(w), NEW v \in Workers,
         top'[v] = top[v], top[v] < OwnerBottom(v)
  PROVE  top[v] < OwnerBottom(v)'
<1>1. /\ OwnInv(v) /\ OwnInv(v)' /\ TypeOK /\ TypeOK' /\ PhaseInv /\ StockInv
      /\ pc \in [Workers -> Labels]
  BY DEF Core, LocalInv, TypeOK
<1>2. top[v] \in Nat /\ Own(v) \in Nat /\ Own(v)' \in Nat
  BY <1>1, OwnType, OwnTypePrimed DEF TypeOK, DequeTypes
<1>3. OwnerBottom(v) = IF pc[v] \in Popping \ {"pop_advance"} THEN Own(v) + 1 ELSE Own(v)
  BY <1>1, OwnerBottomValue
<1>4. OwnerBottom(v)' = IF pc'[v] \in Popping \ {"pop_advance"} THEN Own(v)' + 1 ELSE Own(v)'
  BY <1>1, OwnerBottomValuePrimed
<1>5. CASE v # w
  <2>1. pc'[v] = pc[v] /\ Own(v)' = Own(v)
    BY <1>1, <1>5, OthersUntouched
  <2> QED
    BY <1>3, <1>4, <2>1
<1>6. CASE v = w
  <2> USE <1>2, <1>3, <1>4, <1>6 DEF Popping
  <2>1. CASE pc[w] = "loop" /\ pc'[w] = "pop_top" /\ Own(w)' = Own(w) - 1
    BY <2>1
  <2>2. CASE /\ pc[w] \in {"pop_restore", "pop_advance"} /\ pc'[w] \in {"process", "steal_top"}
             /\ Own(w)' = Own(w) + 1
    BY <2>2
  <2>3. CASE Own(w)' = Own(w) /\ ~ PopBegin(w) /\ ~ PopEnd(w)
    <3>1. CASE PopTakes(w)
      <4>1. pc'[w] = "process" /\ top[w] < b[w] /\ b[w] = Own(w)
        BY <1>1, <3>1 DEF PopTakes, OwnInv, Goto
      <4> QED
        BY <2>3, <4>1
    <3>2. CASE PopFindsEmpty(w) \/ PopFindsLast(w)
      <4>1. pc[w] = "pop_top" /\ pc'[w] \in {"pop_restore", "pop_cas"}
        BY <1>1, <3>2 DEF PopFindsEmpty, PopFindsLast, Goto
      <4> QED
        BY <2>3, <4>1
    <3>3. CASE PopCas(w)
      <4>1. pc[w] = "pop_cas" /\ (top' = top => pc'[w] = "pop_restore")
        <5>1. t[w] \in Nat /\ top \in [Workers -> Nat]
          BY <1>1 DEF TypeOK, LocalTypes, DequeTypes
        <5> QED
          BY <1>1, <3>3, <5>1 DEF PopCas, Goto
      <4>2. top' = top
        BY <1>1, <3>3 DEF PopCas, TypeOK, DequeTypes, LocalTypes
      <4> QED
        BY <2>3, <4>1, <4>2
    <3>4. CASE \/ LoopStops(w) \/ StealTop(w) \/ StealBottom(w)
               \/ StealCas(w) \/ Process(w) \/ ScanBottom(w) \/ ScanTop(w) \/ Exit(w)
      <4>1. pc[w] \notin Popping /\ pc'[w] \notin Popping
        BY <1>1, <3>4, OutsidePop
      <4> QED
        BY <2>3, <4>1
    <3> QED
      BY <2>3, <3>1, <3>2, <3>3, <3>4 DEF Worker
  <2> QED
    BY <1>1, <2>1, <2>2, <2>3, OwnMoves
<1> QED
  BY <1>5, <1>6

(* With nothing in flight every step keeps what a thief knows of its race.   *)
LEMMA RaceStep ==
  ASSUME BufferDepth = 0, Core, Core', \A w \in Workers : RaceInv(w),
         [Next]_vars, NEW u \in Workers
  PROVE  RaceInv(u)'
<1> DEFINE v == victim[u]
<1>u. /\ RaceInv(u) /\ ThiefInv(u) /\ v \in Workers /\ TypeOK /\ PhaseInv
      /\ pc \in [Workers -> Labels] /\ t[u] \in Nat /\ top[v] \in Nat /\ top'[v] \in Nat
  BY DEF Core, LocalInv, TypeOK, LocalTypes, DequeTypes
<1>1. CASE UNCHANGED <<bottom, buffer, top, b, t, victim, pc>>
  BY <1>1, <1>u DEF RaceInv, OwnerBottom, ReadBottom
<1>2. CASE Push
  <2>1. pc'[u] = "unspawned"
    BY <1>2, <1>u DEF Push, PhaseInv
  <2> QED
    BY <2>1 DEF RaceInv
<1>3. CASE Spawn
  <2>1. /\ pc'[u] = pc[u] \/ (pc[u] = "unspawned" /\ pc'[u] = "loop")
        /\ UNCHANGED <<top, t, victim>> /\ OwnerBottom(v)' = OwnerBottom(v)
    BY <1>3, <1>u, SpawnFrame
  <2> QED
    BY <2>1, <1>u DEF RaceInv
<1>4. ASSUME NEW w \in Workers, Worker(w), pc'[u] = pc[u], t'[u] = t[u], v' = v
      PROVE  RaceInv(u)'
  <2>1. top'[v] >= top[v]
    BY <1>4, <1>u, TopGrows
  <2>2. top'[v] = top[v] /\ top[v] < OwnerBottom(v) => top[v] < OwnerBottom(v)'
    BY <1>4, <1>u, TopSlotStays
  <2>3. pc[u] = "steal_cas" => t[u] <= top[v]
    BY <1>u DEF ThiefInv
  <2> QED
    BY <1>4, <1>u, <2>1, <2>2, <2>3 DEF RaceInv
<1>5. CASE StealBottom(u)
  <2>1. CASE t[u] < bottom[v] /\ pc' = [pc EXCEPT ![u] = "steal_cas"]
    <3>1. /\ bottom[v] = Own(v) /\ Own(v) \in Nat /\ OwnerBottom(v) \in {Own(v), Own(v) + 1}
      <4>1. OwnInv(v)
        BY <1>u DEF Core, LocalInv
      <4>2. OwnerBottom(v) = Own(v) + 1 \/ OwnerBottom(v) = Own(v)
        BY <1>u, <4>1, OwnerBottomValue, Zenon
      <4> QED
        BY <1>u, <4>2, OwnType, NothingInFlight
    <3>2. UNCHANGED <<bottom, buffer, b, t, victim, top>>
      <4>1. pc'[u] = "steal_cas"
        BY <1>u, <2>1
      <4> QED
        BY <1>5, <1>u, <4>1 DEF StealBottom, StartScan, dequeVars, Goto
    <3>3. pc'[v] = pc[v] \/ (pc[v] = "steal_bottom" /\ pc'[v] = "steal_cas")
      BY <1>5, <1>u, <2>1 DEF StealBottom
    <3>4. OwnerBottom(v)' = OwnerBottom(v)
      BY <3>2, <3>3 DEF OwnerBottom, ReadBottom
    <3>5. OwnerBottom(victim[u])' = OwnerBottom(v)'
      BY <3>2
    <3>6. t[u] < OwnerBottom(v)
      BY <1>u, <2>1, <3>1
    <3> QED
      BY <3>2, <3>4, <3>5, <3>6 DEF RaceInv
  <2>2. CASE pc' = [pc EXCEPT ![u] = "scan_bottom"]
    BY <1>u, <2>2 DEF RaceInv
  <2> QED
    BY <1>5, <2>1, <2>2 DEF StealBottom, StartScan, Goto
<1>6. CASE Worker(u) /\ ~ StealBottom(u)
  <2>1. pc'[u] # "steal_cas"
    BY <1>6, <1>u DEF Worker, PopBegin, LoopStops, PopTakes, PopFindsEmpty, PopFindsLast,
       PopCas, PopEnd, StealTop, StealCas, Process, ScanBottom, ScanTop, Exit,
       StartScan, Goto
  <2> QED
    BY <2>1 DEF RaceInv
<1>7. ASSUME NEW w \in Workers, Worker(w), u # w PROVE RaceInv(u)'
  <2>1. pc'[u] = pc[u] /\ t'[u] = t[u] /\ v' = v
    BY <1>7, <1>u, OthersUntouched
  <2> QED
    BY <1>4, <1>7, <2>1
<1>8. ASSUME NEW w \in Workers PROVE ~ Flush(w)
  BY <1>u, NothingInFlight
<1>9. CASE (\E len \in 0 .. MaxItems : Run(len)) \/ SequentialItem \/ Quiet
  <2>1. UNCHANGED <<bottom, buffer, top, b, t, victim, pc>>
    BY <1>9, QuietFrame DEF Run, SequentialItem, localVars
  <2> QED
    BY <1>1, <2>1
<1> QED
  BY <1>2, <1>3, <1>5, <1>6, <1>7, <1>8, <1>9, StepKinds

(* A worker's step adds no slot to those in range.                           *)
LEMMA RangeShrinks ==
  ASSUME Core, Core', NEW w \in Workers, Worker(w),
         NEW v \in Workers, NEW k \in Items, InRange(v, k)'
  PROVE  InRange(v, k)
<1>1. /\ OwnInv(v) /\ OwnInv(v)' /\ TypeOK /\ TypeOK' /\ PhaseInv /\ StockInv
      /\ pc \in [Workers -> Labels]
  BY DEF Core, LocalInv, TypeOK
<1>2. /\ top[v] \in Nat /\ top'[v] \in Nat /\ k \in Nat
      /\ Own(v) \in Nat /\ Own(v)' \in Nat
  <2>1. Own(v) \in Nat /\ Own(v)' \in Nat
    BY <1>1, OwnType, OwnTypePrimed
  <2>2. top[v] \in Nat /\ top'[v] \in Nat /\ k \in Nat
    BY <1>1 DEF TypeOK, DequeTypes, Items
  <2> QED
    BY <2>1, <2>2
<1>3. OwnerBottom(v) = IF pc[v] \in Popping \ {"pop_advance"} THEN Own(v) + 1 ELSE Own(v)
  BY <1>1, OwnerBottomValue
<1>4. OwnerBottom(v)' = IF pc'[v] \in Popping \ {"pop_advance"} THEN Own(v)' + 1 ELSE Own(v)'
  BY <1>1, OwnerBottomValuePrimed
<1>5. k < OwnerBottom(v)' /\ top'[v] <= k
  BY DEF InRange
<1>6. top[v] <= k
  <2>1. top'[v] >= top[v]
    BY <1>1, TopGrows
  <2> QED
    BY <1>2, <1>5, <2>1
<1> SUFFICES k < OwnerBottom(v)
  BY <1>6 DEF InRange
<1>7. CASE v # w
  <2>1. pc'[v] = pc[v] /\ Own(v)' = Own(v)
    BY <1>1, <1>7, OthersUntouched
  <2> QED
    BY <1>3, <1>4, <1>5, <2>1
<1>8. CASE v = w
  <2> USE <1>2, <1>3, <1>4, <1>5, <1>8 DEF Popping
  <2>1. CASE pc[w] = "loop" /\ pc'[w] = "pop_top" /\ Own(w)' = Own(w) - 1
    BY <2>1
  <2>2. CASE /\ pc[w] \in {"pop_restore", "pop_advance"} /\ pc'[w] \in {"process", "steal_top"}
             /\ Own(w)' = Own(w) + 1 /\ top' = top
    <3>1. pc[w] = "pop_advance" => top[w] > b[w] /\ b[w] = Own(w)
      BY <1>1 DEF OwnInv
    <3> QED
      BY <2>2, <3>1
  <2>3. CASE Own(w)' = Own(w) /\ ~ PopBegin(w) /\ ~ PopEnd(w)
    <3>1. CASE PopTakes(w) \/ PopFindsEmpty(w) \/ PopFindsLast(w) \/ PopCas(w)
      <4>1. pc[w] \in {"pop_top", "pop_cas"}
        BY <3>1 DEF PopTakes, PopFindsEmpty, PopFindsLast, PopCas
      <4> QED
        BY <2>3, <4>1
    <3>2. CASE \/ LoopStops(w) \/ StealTop(w) \/ StealBottom(w)
               \/ StealCas(w) \/ Process(w) \/ ScanBottom(w) \/ ScanTop(w) \/ Exit(w)
      <4>1. pc[w] \notin Popping /\ pc'[w] \notin Popping
        BY <1>1, <3>2, OutsidePop
      <4> QED
        BY <2>3, <4>1
    <3> QED
      BY <2>3, <3>1, <3>2 DEF Worker
  <2> QED
    BY <1>1, <2>1, <2>2, <2>3, OwnMoves
<1> QED
  BY <1>7, <1>8

(* A worker's step that takes an item takes it out of a slot in range, and    *)
(* that slot is no longer there afterwards.                                  *)
Claims(w, v, k) ==
  /\ InRange(v, k) /\ ~ InRange(v, k)'
  /\ item' = [item EXCEPT ![w] = array[v][k]]
  /\ calls' = calls

(* A worker takes nothing, processes what it has, or claims one slot.        *)
LEMMA StepClaims ==
  ASSUME Core, Core', NEW w \in Workers, Worker(w), RaceInv(w)
  PROVE  \/ UNCHANGED <<item, calls>>
         \/ Process(w)
         \/ \E v \in Workers : \E k \in Items : Claims(w, v, k)
<1>1. OwnInv(w) /\ OwnInv(w)' /\ TypeOK /\ pc \in [Workers -> Labels]
  BY DEF Core, LocalInv, TypeOK
<1>2. b[w] \in Nat /\ t[w] \in Nat /\ victim[w] \in Workers
  BY <1>1 DEF TypeOK, LocalTypes
<1>3. top \in [Workers -> Nat] /\ Own(w) \in Nat /\ \A v \in Workers : top'[v] \in Nat
  BY <1>1, OwnType DEF Core, TypeOK, DequeTypes
<1>4. CASE PopTakes(w)
  <2>1. b[w] \in Items /\ Own(w) = b[w] /\ top[w] < b[w] /\ Own(w)' = Own(w) /\ top' = top
    BY <1>1, <1>4 DEF PopTakes, OwnInv, Popping, dequeVars, Own, ReadBottom
  <2>2. OwnerBottom(w) = Own(w) + 1
    BY <1>1, <1>4, OwnerBottomValue DEF PopTakes, Popping
  <2>3. OwnerBottom(w)' = Own(w)
    <3>1. pc'[w] = "process"
      BY <1>1, <1>4 DEF PopTakes, Goto
    <3> QED
      BY <1>1, <2>1, <3>1, OwnerBottomValuePrimed DEF Popping
  <2>4. InRange(w, b[w]) /\ ~(top'[w] <= b[w] /\ b[w] < OwnerBottom(w)')
    BY <1>2, <1>3, <2>1, <2>2, <2>3 DEF InRange
  <2>5. item' = [item EXCEPT ![w] = array[w][b[w]]] /\ calls' = calls /\ b' = b
    BY <1>4 DEF PopTakes
  <2>6. Claims(w, w, b[w])
    BY <2>4, <2>5 DEF Claims, InRange
  <2> QED
    BY <2>1, <2>6
<1>5. CASE PopCas(w)
  <2>1. CASE top[w] # t[w]
    BY <1>5, <2>1 DEF PopCas
  <2>2. CASE top[w] = t[w]
    <3>1. b[w] \in Items /\ Own(w) = b[w] /\ t[w] = b[w]
      BY <1>1, <1>5 DEF PopCas, OwnInv, Popping
    <3>2. OwnerBottom(w) = Own(w) + 1
      BY <1>1, <1>5, OwnerBottomValue DEF PopCas, Popping
    <3>3. top'[w] = t[w] + 1
      BY <1>3, <1>5, <2>2 DEF PopCas
    <3>4. InRange(w, b[w]) /\ ~(top'[w] <= b[w])
      BY <1>2, <1>3, <2>2, <3>1, <3>2, <3>3 DEF InRange
    <3>5. item' = [item EXCEPT ![w] = array[w][b[w]]] /\ calls' = calls /\ b' = b
      BY <1>5, <2>2 DEF PopCas
    <3>6. Claims(w, w, b[w])
      BY <3>4, <3>5 DEF Claims, InRange
    <3> QED
      BY <3>1, <3>6
  <2> QED
    BY <2>1, <2>2
<1>6. CASE StealCas(w)
  <2> DEFINE v == victim[w]
  <2>1. CASE top[v] # t[w]
    BY <1>6, <2>1 DEF StealCas
  <2>2. CASE top[v] = t[w]
    <3>1. t[w] < OwnerBottom(v)
      BY <1>6, <2>2 DEF StealCas, RaceInv
    <3>2. InRange(v, t[w])
      BY <1>2, <2>2, <3>1 DEF InRange
    <3>3. t[w] \in Items
      BY <1>6, ClaimReady
    <3>4. top'[v] = t[w] + 1
      BY <1>2, <1>3, <1>6, <2>2 DEF StealCas
    <3>5. ~(top'[v] <= t[w])
      BY <1>2, <3>4
    <3>6. item' = [item EXCEPT ![w] = array[v][t[w]]] /\ calls' = calls
          /\ t' = t /\ victim' = victim
      BY <1>6, <2>2 DEF StealCas
    <3>7. Claims(w, v, t[w])
      BY <3>2, <3>5, <3>6 DEF Claims, InRange
    <3> QED
      BY <1>2, <3>3, <3>7
  <2> QED
    BY <2>1, <2>2
<1>7. CASE ~ PopTakes(w) /\ ~ PopCas(w) /\ ~ StealCas(w) /\ ~ Process(w)
  BY <1>7 DEF Worker, PopBegin, LoopStops, PopFindsEmpty, PopFindsLast,
     PopEnd, StealTop, StealBottom,
     ScanBottom, ScanTop, Exit, localVars
<1> QED
  BY <1>4, <1>5, <1>6, <1>7

(* A claim takes an item nobody has, and what is left stays unclaimed.       *)
LEMMA WorkerClaimsOnce ==
  ASSUME Inv, Core', NEW w \in Workers, Worker(w)
  PROVE  UnclaimedInv' /\ AtMostOnce'
<1> USE DEF Inv
<1>c. Core /\ DistinctInv /\ TypeOK
  BY DEF Base, Core
<1>1. array' = array
  BY DEF Worker, PopBegin, LoopStops, PopTakes, PopFindsEmpty, PopFindsLast,
     PopCas, PopEnd, StealTop, StealBottom, StealCas, Process,
     ScanBottom, ScanTop, Exit, mainVars, dequeVars
\* What the invariants say of a slot that is in range after the step.
<1>2. ASSUME NEW v \in Workers, NEW k \in Items, array[v][k] # NoItem, InRange(v, k)'
      PROVE  /\ array[v][k] \in Items /\ calls[array[v][k]] = 0
             /\ \A u \in Workers : item[u] # array[v][k]
  <2>1. InRange(v, k)
    BY <1>c, <1>2, RangeShrinks
  <2>2. array[v][k] \in Items
    BY <1>c, <1>2 DEF TypeOK, DequeTypes
  <2> QED
    BY <1>2, <2>1, <2>2 DEF InRange, UnclaimedInv
<1>3. /\ item \in [Workers -> Items \cup {NoItem}] /\ calls \in [Items -> Nat]
      /\ NoItem \notin Items
  BY <1>c DEF TypeOK, LocalTypes, CountTypes, NoItem, Items
<1>4. CASE UNCHANGED <<item, calls>>
  <2>1. UnclaimedInv'
    BY <1>1, <1>2, <1>4 DEF UnclaimedInv, InRange
  <2>2. AtMostOnce'
    BY <1>4 DEF AtMostOnce
  <2> QED
    BY <2>1, <2>2
<1>5. CASE Process(w)
  <2>1. item' = [item EXCEPT ![w] = NoItem] /\ calls' = [calls EXCEPT ![item[w]] = @ + 1]
    BY <1>5 DEF Process
  <2>2. \A i \in Items : i # item[w] => calls'[i] = calls[i]
    BY <1>3, <2>1
  <2>3. item[w] \in Items => calls'[item[w]] = 1
    <3>1. item[w] \in Items => calls[item[w]] = 0
      BY DEF AtMostOnce
    <3> QED
      BY <1>3, <2>1, <3>1
  <2>4. \A u \in Workers : item'[u] = IF u = w THEN NoItem ELSE item[u]
    BY <1>3, <2>1
  <2>5. UnclaimedInv'
    <3> SUFFICES ASSUME NEW v \in Workers, NEW k \in Items,
                        InRange(v, k)', array[v][k] # NoItem
                 PROVE  /\ calls'[array[v][k]] = 0
                        /\ \A u \in Workers : item'[u] # array[v][k]
      BY <1>1 DEF UnclaimedInv, InRange
    <3>1. array[v][k] \in Items /\ calls[array[v][k]] = 0 /\ array[v][k] # item[w]
      BY <1>2
    <3>2. \A u \in Workers : item[u] # array[v][k]
      BY <1>2
    <3>3. calls'[array[v][k]] = 0
      BY <2>2, <3>1
    <3> QED
      BY <2>4, <3>2, <3>3
  <2>6. \A i \in Items : calls'[i] <= 1
    BY <2>2, <2>3 DEF AtMostOnce
  <2>7. \A u \in Workers : item'[u] \in Items => calls'[item'[u]] = 0
    <3> SUFFICES ASSUME NEW u \in Workers, item'[u] \in Items PROVE calls'[item'[u]] = 0
      OBVIOUS
    <3>1. u # w /\ item'[u] = item[u]
      BY <1>3, <2>4
    <3>2. item[u] # item[w] /\ calls[item[u]] = 0
      BY <3>1 DEF AtMostOnce
    <3> QED
      BY <2>2, <3>1, <3>2
  <2>8. \A u, v \in Workers : item'[u] = item'[v] /\ item'[u] \in Items => u = v
    BY <1>3, <2>4 DEF AtMostOnce
  <2> QED
    BY <2>5, <2>6, <2>7, <2>8 DEF AtMostOnce
<1>6. ASSUME NEW v \in Workers, NEW k \in Items, Claims(w, v, k)
      PROVE  UnclaimedInv' /\ AtMostOnce'
  <2>1. InRange(v, k) /\ ~ InRange(v, k)' /\ calls' = calls
    BY <1>6 DEF Claims
  <2>2. \A u \in Workers : item'[u] = IF u = w THEN array[v][k] ELSE item[u]
    BY <1>3, <1>6 DEF Claims
  <2>3. array[v][k] # NoItem =>
          calls[array[v][k]] = 0 /\ \A u \in Workers : item[u] # array[v][k]
    BY <2>1 DEF UnclaimedInv, InRange
  <2>4. UnclaimedInv'
    <3> SUFFICES ASSUME NEW u \in Workers, NEW j \in Items,
                        InRange(u, j)', array[u][j] # NoItem
                 PROVE  /\ calls[array[u][j]] = 0
                        /\ \A x \in Workers : item'[x] # array[u][j]
      BY <1>1, <2>1 DEF UnclaimedInv, InRange
    <3>1. calls[array[u][j]] = 0 /\ \A x \in Workers : item[x] # array[u][j]
      BY <1>2
    <3>2. ~(u = v /\ j = k)
      BY <2>1
    <3>3. array[v][k] # array[u][j]
      BY <1>c, <3>2 DEF DistinctInv
    <3> QED
      BY <2>2, <3>1, <3>3
  <2>5. AtMostOnce'
    <3>1. \A i \in Items : calls'[i] <= 1
      BY <2>1 DEF AtMostOnce
    <3>2. \A u \in Workers : item'[u] \in Items => calls'[item'[u]] = 0
      BY <1>3, <2>1, <2>2, <2>3 DEF AtMostOnce
    <3>3. \A u, x \in Workers : item'[u] = item'[x] /\ item'[u] \in Items => u = x
      BY <1>3, <2>2, <2>3 DEF AtMostOnce
    <3> QED
      BY <3>1, <3>2, <3>3 DEF AtMostOnce
  <2> QED
    BY <2>4, <2>5
<1> QED
  BY <1>c, <1>4, <1>5, <1>6, StepClaims

(* The main thread pushes and processes before any worker runs.              *)
LEMMA MainClaimsOnce ==
  ASSUME Inv, Core', Main
  PROVE  UnclaimedInv' /\ AtMostOnce'
<1> USE DEF Inv
<1>c. Core /\ TypeOK /\ PhaseInv /\ TypeOK'
  BY DEF Base, Core
<1>1. ASSUME UNCHANGED <<array, top, item, calls>>,
             \A v \in Workers : OwnerBottom(v)' = OwnerBottom(v)
      PROVE  UnclaimedInv' /\ AtMostOnce'
  <2>1. UnclaimedInv'
    BY <1>1 DEF UnclaimedInv, InRange
  <2>2. AtMostOnce'
    BY <1>1 DEF AtMostOnce
  <2> QED
    BY <2>1, <2>2
<1>2. CASE SequentialItem
  <2>1. UNCHANGED <<array, top, bottom, buffer, pc, b, item>> /\ mpc = "sequential"
    BY <1>2 DEF SequentialItem, localVars
  <2>2. \A v \in Workers : OwnerBottom(v)' = 0 /\ top[v] = 0
    BY <1>c, <2>1 DEF OwnerBottom, ReadBottom, PhaseInv
  <2>3. UnclaimedInv'
    BY <2>1, <2>2 DEF UnclaimedInv, InRange, Items
  <2>4. calls[next] = 0 /\ calls' = [calls EXCEPT ![next] = @ + 1] /\ next \in Items
    BY <1>c, <1>2, MaxItemsAssumption DEF SequentialItem, PhaseInv, TypeOK, MainTypes, Items
  <2>5. \A i \in Items : calls'[i] <= 1
    BY <1>c, <2>4 DEF AtMostOnce, TypeOK, CountTypes
  <2>6. \A w \in Workers : item'[w] = NoItem
    BY <1>c, <2>1 DEF PhaseInv
  <2>7. AtMostOnce'
    BY <2>5, <2>6 DEF AtMostOnce, NoItem, Items
  <2> QED
    BY <2>3, <2>7
<1>3. CASE Push
  <2>1. calls' = calls /\ item' = item /\ mpc = "push"
    BY <1>3 DEF Push, localVars
  <2>2. (\A i \in Items : calls[i] = 0) /\ (\A w \in Workers : item[w] = NoItem)
    BY <1>c, <2>1 DEF PhaseInv
  <2>3. \A v \in Workers : \A k \in Items : array'[v][k] # NoItem => array'[v][k] \in Items
    BY <1>c DEF TypeOK, DequeTypes
  <2>4. UnclaimedInv'
    BY <2>1, <2>2, <2>3 DEF UnclaimedInv
  <2>5. AtMostOnce'
    BY <2>1, <2>2 DEF AtMostOnce, NoItem, Items
  <2> QED
    BY <2>4, <2>5
<1>4. CASE Spawn
  BY <1>c, <1>1, <1>4, SpawnFrame
<1>5. CASE \/ \E len \in 0 .. MaxItems : Run(len)
           \/ SequentialReturn \/ PushOutOfMemory \/ AllocThreads
           \/ SpawnDone \/ Join \/ JoinUndefinedHandle \/ Return
  <2>1. UNCHANGED <<array, top, bottom, buffer, b, item, calls, pc>>
    BY <1>5 DEF Run, SequentialReturn, PushOutOfMemory, AllocThreads,
       SpawnDone, Join, JoinUndefinedHandle, Return, dequeVars, localVars
  <2>2. \A v \in Workers : OwnerBottom(v)' = OwnerBottom(v)
    BY <2>1 DEF OwnerBottom, ReadBottom
  <2> QED
    BY <1>1, <2>1, <2>2
<1> QED
  BY <1>2, <1>3, <1>4, <1>5 DEF Main

(* Inv holds before run() is called.                                         *)
LEMMA InitInv == Init => Inv
<1> SUFFICES ASSUME Init PROVE Inv
  OBVIOUS
<1>1. Base
  BY InitBase
<1>2. (\A w \in Workers : RaceInv(w)) /\ UnclaimedInv /\ AtMostOnce
  BY DEF Init, RaceInv, UnclaimedInv, AtMostOnce, NoItem, Items
<1> QED
  BY <1>1, <1>2 DEF Inv

(* With nothing in flight Inv is inductive.                                  *)
LEMMA NextInv ==
  ASSUME BufferDepth = 0, Inv, [Next]_vars
  PROVE  Inv'
<1>1. Base /\ Base' /\ Core /\ Core' /\ TypeOK /\ PhaseInv
  BY NextBase DEF Inv, Base, Core
<1>2. \A w \in Workers : RaceInv(w)'
  BY <1>1, RaceStep DEF Inv
<1>3. UnclaimedInv' /\ AtMostOnce'
  <2>1. CASE Main
    BY <1>1, <2>1, MainClaimsOnce
  <2>2. ASSUME NEW w \in Workers, Worker(w) PROVE UnclaimedInv' /\ AtMostOnce'
    BY <1>1, <2>2, WorkerClaimsOnce
  <2>3. ASSUME NEW w \in Workers PROVE ~Flush(w)
    BY <1>1, NothingInFlight
  <2>4. CASE UNCHANGED vars
    BY <2>4 DEF vars, Inv, UnclaimedInv, AtMostOnce, InRange, OwnerBottom, ReadBottom
  <2> QED
    BY <2>1, <2>2, <2>3, <2>4 DEF Next, Stopped
<1> QED
  BY <1>1, <1>2, <1>3 DEF Inv

(* With no store in flight no work item is handed out twice, whatever the     *)
(* number of workers and of items and wherever their steps interleave: a      *)
(* pop and a steal never both succeed on a deque's last item.                 *)
THEOREM ItemsAtMostOnce == BufferDepth = 0 => (Spec => []AtMostOnce)
<1> SUFFICES ASSUME BufferDepth = 0 PROVE Spec => []AtMostOnce
  OBVIOUS
<1>1. Init => Inv
  BY InitInv
<1>2. Inv /\ [Next]_vars => Inv'
  BY NextInv
<1>3. Inv => AtMostOnce
  BY DEF Inv
<1> QED
  BY <1>1, <1>2, <1>3, PTL DEF Spec

(* Every item counted once: the calls are one each for the n items.          *)
LEMMA CountsComplete == Inv => ResultsComplete
<1> SUFFICES ASSUME Inv, mpc = "returned" PROVE Total(results) = n
  BY DEF ResultsComplete, Total
<1> DEFINE T == 0 .. (n - 1)
<1>1. /\ BoundInv /\ CountInv /\ NoItemLost /\ AtMostOnce
      /\ calls \in [Items -> Nat] /\ n \in Nat /\ n <= MaxItems
  BY MaxItemsAssumption DEF Inv, Base, Core, ResultInv, TypeOK, CountTypes, MainTypes
<1>2. T \in SUBSET Items
  BY <1>1, MaxItemsAssumption DEF Items
<1>3. \A i \in T : calls[i] = 1
  <2> TAKE i \in T
  <2>1. calls[i] >= 1 /\ calls[i] <= 1 /\ calls[i] \in Nat
    BY <1>1, <1>2 DEF NoItemLost, AtMostOnce
  <2> QED
    BY <2>1
<1>4. \A i \in Items \ T : calls[i] = 0
  BY <1>1 DEF BoundInv, Items
<1>5. \A i \in Items : calls[i] \in Nat
  BY <1>1
<1>6. Cardinality(T) = n /\ IsFiniteSet(T)
  BY <1>1, FS_Interval
<1> HIDE DEF T
<1>7. SumFunctionOnSet(calls, Items) = SumFunctionOnSet(calls, T)
  BY <1>2, <1>4, <1>5, Finite, SumPart
<1>8. SumFunctionOnSet(calls, T) = Cardinality(T)
  BY <1>3, <1>6, SumOnes
<1>9. SumFunction(calls) = n
  BY <1>1, <1>6, <1>7, <1>8 DEF SumFunction
<1> QED
  BY <1>1, <1>9 DEF CountInv

(* With no store in flight the counters of the workers, which each of them   *)
(* keeps for itself and hands over when it exits, add up to the number of    *)
(* work items when run() returns them.                                       *)
THEOREM ResultsAddUp == BufferDepth = 0 => (Spec => []ResultsComplete)
<1> SUFFICES ASSUME BufferDepth = 0 PROVE Spec => []ResultsComplete
  OBVIOUS
<1>1. Init => Inv
  BY InitInv
<1>2. Inv /\ [Next]_vars => Inv'
  BY NextInv
<1>3. Inv => ResultsComplete
  BY CountsComplete
<1> QED
  BY <1>1, <1>2, <1>3, PTL DEF Spec

-----------------------------------------------------------------------------
(* The abstract bag, and how a step of the executor moves it.                *)
Slots == {i \in Items : \E v \in Workers : \E k \in Items : InRange(v, k) /\ array[v][k] = i}
TodoSet == Unpushed \cup UNION {InDeque(w) : w \in Workers}
DoingSet == {item[w] : w \in Workers} \ {NoItem}
DoneSet == {i \in Items : calls[i] > 0}
bag == <<TodoSet, DoingSet, DoneSet, mpc = "returned">>

(* The bag holds the items of the slots in range.                            *)
LEMMA TodoIs == Core => TodoSet = Unpushed \cup Slots
<1> SUFFICES ASSUME Core PROVE TodoSet = Unpushed \cup Slots
  OBVIOUS
<1>2. \A w \in Workers : top[w] \in Nat /\ OwnerBottom(w) \in Nat
  BY OwnerBottomValue DEF Core, LocalInv, TypeOK, DequeTypes
<1>3. ASSUME NEW w \in Workers, NEW k \in top[w] .. (OwnerBottom(w) - 1)
      PROVE  k \in Items /\ array[w][k] \in Items /\ InRange(w, k)
  <2>1. InRange(w, k) /\ k \in Int
    BY <1>2 DEF InRange
  <2> QED
    BY <2>1, SlotWritten
<1>4. ASSUME NEW w \in Workers, NEW k \in Items, InRange(w, k)
      PROVE  k \in top[w] .. (OwnerBottom(w) - 1)
  BY <1>2, <1>4 DEF InRange, Items
<1>5. UNION {InDeque(w) : w \in Workers} \subseteq Slots
  BY <1>3 DEF Slots, InDeque
<1>6. Slots \subseteq UNION {InDeque(w) : w \in Workers}
  <2> SUFFICES ASSUME NEW i \in Slots PROVE \E w \in Workers : i \in InDeque(w)
    OBVIOUS
  <2>1. PICK v \in Workers, k \in Items : InRange(v, k) /\ array[v][k] = i
    BY DEF Slots
  <2>2. k \in top[v] .. (OwnerBottom(v) - 1)
    BY <1>4, <2>1
  <2>3. i \in InDeque(v)
    BY <2>1, <2>2 DEF InDeque
  <2> QED
    BY <2>3
<1> QED
  BY <1>5, <1>6 DEF TodoSet

(* And so after a step.                                                      *)
LEMMA TodoIsPrimed == Core' => (TodoSet = Unpushed \cup Slots)'
BY TodoIs, PTL

(* The steps of the bag.                                                     *)
LEMMA BagSteps ==
  /\ \A S \in SUBSET Items :
       /\ S \cap (TodoSet \cup DoingSet \cup DoneSet) = {}
       /\ TodoSet' = TodoSet \cup S /\ DoingSet' = DoingSet /\ DoneSet' = DoneSet
       /\ (mpc = "returned")' = (mpc = "returned")
       => Bag!Next
  /\ \A i \in Items :
       /\ i \in TodoSet /\ TodoSet' = TodoSet \ {i} /\ DoingSet' = DoingSet \cup {i}
       /\ DoneSet' = DoneSet /\ (mpc = "returned")' = (mpc = "returned")
       => Bag!Next
  /\ \A i \in Items :
       /\ i \in DoingSet /\ TodoSet' = TodoSet /\ DoingSet' = DoingSet \ {i}
       /\ DoneSet' = DoneSet \cup {i} /\ (mpc = "returned")' = (mpc = "returned")
       => Bag!Next
  /\ \A i \in Items :
       /\ i \in TodoSet /\ TodoSet' = TodoSet \ {i} /\ DoingSet' = DoingSet
       /\ DoneSet' = DoneSet \cup {i} /\ (mpc = "returned")' = (mpc = "returned")
       => Bag!Next
  /\ /\ TodoSet = {} /\ DoingSet = {} /\ mpc' = "returned"
     /\ TodoSet' = TodoSet /\ DoingSet' = DoingSet /\ DoneSet' = DoneSet
     => Bag!Next
<1>1. \A S \in SUBSET Items :
       /\ S \cap (TodoSet \cup DoingSet \cup DoneSet) = {}
       /\ TodoSet' = TodoSet \cup S /\ DoingSet' = DoingSet /\ DoneSet' = DoneSet
       /\ (mpc = "returned")' = (mpc = "returned")
       => Bag!Submit(S)
  BY Zenon DEF Bag!Submit, TodoSet, DoingSet, DoneSet
<1>2. \A i \in Items :
       /\ i \in TodoSet /\ TodoSet' = TodoSet \ {i} /\ DoingSet' = DoingSet \cup {i}
       /\ DoneSet' = DoneSet /\ (mpc = "returned")' = (mpc = "returned")
       => Bag!Take(i)
  BY Zenon DEF Bag!Take, TodoSet, DoingSet, DoneSet
<1>3. \A i \in Items :
       /\ i \in DoingSet /\ TodoSet' = TodoSet /\ DoingSet' = DoingSet \ {i}
       /\ DoneSet' = DoneSet \cup {i} /\ (mpc = "returned")' = (mpc = "returned")
       => Bag!Finish(i)
  BY Zenon DEF Bag!Finish, TodoSet, DoingSet, DoneSet
<1>4. \A i \in Items :
       /\ i \in TodoSet /\ TodoSet' = TodoSet \ {i} /\ DoingSet' = DoingSet
       /\ DoneSet' = DoneSet \cup {i} /\ (mpc = "returned")' = (mpc = "returned")
       => Bag!Perform(i)
  BY Zenon DEF Bag!Perform, TodoSet, DoingSet, DoneSet
<1>5. /\ TodoSet = {} /\ DoingSet = {} /\ mpc' = "returned"
      /\ TodoSet' = TodoSet /\ DoingSet' = DoingSet /\ DoneSet' = DoneSet
      => Bag!Succeed
  BY Zenon DEF Bag!Succeed, TodoSet, DoingSet, DoneSet
<1> QED
  BY <1>1, <1>2, <1>3, <1>4, <1>5, Zenon DEF Bag!Next

(* A worker's step is a Take, a Finish or nothing.                           *)
LEMMA WorkerBag ==
  ASSUME Inv, Inv', NEW w \in Workers, Worker(w)
  PROVE  Bag!Next \/ UNCHANGED bag
<1>b. /\ Core /\ Core' /\ HoldingInv /\ DistinctInv /\ DrainInv
      /\ UnclaimedInv /\ AtMostOnce /\ TypeOK /\ PhaseInv /\ RaceInv(w)
  BY DEF Inv, Base, Core, ResultInv
<1>t. /\ item \in [Workers -> Items \cup {NoItem}] /\ calls \in [Items -> Nat]
      /\ NoItem \notin Items
  BY <1>b DEF TypeOK, LocalTypes, CountTypes, NoItem, Items
<1>1. /\ array' = array /\ (mpc = "returned")' = (mpc = "returned")
      /\ Unpushed = {} /\ Unpushed' = {}
  BY <1>b, WorkerFrame DEF mainVars, Unpushed
<1>2. TodoSet = Slots /\ TodoSet' = Slots'
  BY <1>b, <1>1, TodoIs, TodoIsPrimed
<1>3. ASSUME NEW v \in Workers, NEW k \in Items, InRange(v, k)', array[v][k] \in Items
      PROVE  InRange(v, k)
  BY <1>b, <1>t, <1>3, RangeShrinks
<1>4. Slots' = {i \in Items : \E v \in Workers : \E k \in Items :
                  InRange(v, k)' /\ array[v][k] = i}
  BY <1>1 DEF Slots
<1>5. ASSUME NEW v \in Workers, NEW k \in Items, InRange(v, k), ~ InRange(v, k)'
      PROVE  calls' = calls /\ item'[w] = array[v][k] /\ item[w] # array[v][k]
  <2>1. item' = [item EXCEPT ![w] = array[v][k]] /\ calls' = calls
    BY <1>b, <1>5, LeavesClaimed
  <2>2. array[v][k] # NoItem
    BY <1>b, <1>5, <1>t, SlotWritten DEF Items
  <2>3. item[w] # array[v][k]
    BY <1>b, <1>5, <2>2 DEF UnclaimedInv, InRange
  <2> QED
    BY <1>t, <2>1, <2>3
<1>6. CASE UNCHANGED <<item, calls>>
  <2>1. \A v \in Workers : \A k \in Items : InRange(v, k) => InRange(v, k)'
    BY <1>5, <1>6
  <2>2. Slots' = Slots
    BY <1>3, <1>4, <2>1 DEF Slots
  <2>3. DoingSet' = DoingSet /\ DoneSet' = DoneSet
    BY <1>6 DEF DoingSet, DoneSet
  <2> QED
    BY <1>1, <1>2, <2>2, <2>3 DEF bag
<1>7. CASE Process(w)
  <2>1. /\ item' = [item EXCEPT ![w] = NoItem]
        /\ calls' = [calls EXCEPT ![item[w]] = @ + 1] /\ pc[w] = "process"
    BY <1>7 DEF Process
  <2>2. item[w] \in Items
    BY <1>b, <1>t, <2>1 DEF HoldingInv
  <2>3. PICK i \in Items : i = item[w]
    BY <2>2
  <2>4. calls'[i] = calls[i] + 1 /\ calls[i] \in Nat
        /\ \A j \in Items \ {i} : calls'[j] = calls[j]
    BY <1>t, <2>1, <2>3
  <2>5. \A v \in Workers : \A k \in Items : InRange(v, k) => InRange(v, k)'
    <3>1. calls' # calls
      BY <2>4
    <3> QED
      BY <1>5, <3>1
  <2>6. Slots' = Slots
    BY <1>3, <1>4, <2>5 DEF Slots
  <2>7. DoneSet' = DoneSet \cup {i}
    BY <2>4 DEF DoneSet
  <2>8. \A u \in Workers : u # w => item[u] # i
    BY <1>b, <2>3 DEF AtMostOnce
  <2>9. \A u \in Workers : item'[u] = IF u = w THEN NoItem ELSE item[u]
    BY <1>t, <2>1
  <2>10. DoingSet' = DoingSet \ {i} /\ i \in DoingSet
    <3>1. i \in DoingSet
      BY <1>t, <2>3 DEF DoingSet
    <3>2. DoingSet' \subseteq DoingSet \ {i}
      BY <2>8, <2>9 DEF DoingSet
    <3>3. DoingSet \ {i} \subseteq DoingSet'
      <4> SUFFICES ASSUME NEW u \in Workers, item[u] # NoItem, item[u] # i
                   PROVE  item[u] \in DoingSet'
        BY DEF DoingSet
      <4>1. u # w
        BY <2>3
      <4>2. item'[u] = item[u]
        BY <2>9, <4>1
      <4> QED
        BY <4>2 DEF DoingSet
    <3> QED
      BY <3>1, <3>2, <3>3
  <2> QED
    BY <1>1, <1>2, <2>6, <2>7, <2>10, BagSteps
<1>8. ASSUME NEW v \in Workers, NEW k \in Items, Claims(w, v, k)
      PROVE  Bag!Next \/ UNCHANGED bag
  <2>1. /\ InRange(v, k) /\ ~ InRange(v, k)' /\ calls' = calls
        /\ item' = [item EXCEPT ![w] = array[v][k]]
    BY <1>8 DEF Claims
  <2>2. PICK i \in Items : i = array[v][k]
    BY <1>b, <2>1, SlotWritten DEF Items
  <2>3. item[w] # i
    BY <1>5, <2>1, <2>2
  <2>4. item[w] = NoItem
    <3>1. pc[w] = "process" => FALSE
      <4>1. pc[w] = "process" => Process(w)
        BY DEF Worker, PopBegin, LoopStops, PopTakes, PopFindsEmpty, PopFindsLast,
           PopCas, PopEnd, StealTop, StealBottom, StealCas,
           ScanBottom, ScanTop, Exit
      <4>2. Process(w) => item'[w] = NoItem
        BY <1>t DEF Process
      <4>3. item'[w] = i
        BY <1>t, <2>1, <2>2
      <4> QED
        BY <1>t, <4>1, <4>2, <4>3
    <3>2. pc[w] = "pop_advance" => item' = item
      BY DEF Worker, PopBegin, LoopStops, PopTakes, PopFindsEmpty, PopFindsLast,
       PopCas, PopEnd, StealTop, StealBottom, StealCas, Process,
       ScanBottom, ScanTop, Exit, localVars
    <3>3. item'[w] = i
      BY <1>t, <2>1, <2>2
    <3> QED
      BY <1>b, <2>3, <3>1, <3>2, <3>3 DEF HoldingInv
  <2>5. \A u \in Workers : \A j \in Items : InRange(u, j) /\ array[u][j] # i => InRange(u, j)'
    <3> SUFFICES ASSUME NEW u \in Workers, NEW j \in Items, InRange(u, j), ~ InRange(u, j)'
                 PROVE  array[u][j] = i
      OBVIOUS
    <3>1. item'[w] = array[u][j]
      BY <1>5
    <3>2. item'[w] = i
      BY <1>t, <2>1, <2>2
    <3> QED
      BY <3>1, <3>2
  <2>6. \A u \in Workers : \A j \in Items : InRange(u, j)' => array[u][j] # i
    <3> SUFFICES ASSUME NEW u \in Workers, NEW j \in Items, InRange(u, j)', array[u][j] = i
                 PROVE  FALSE
      OBVIOUS
    <3>1. u = v /\ j = k
      BY <1>b, <1>t, <2>2 DEF DistinctInv
    <3> QED
      BY <2>1, <3>1
  <2>7. Slots' = Slots \ {i} /\ i \in Slots
    <3>1. i \in Slots
      BY <2>1, <2>2 DEF Slots
    <3>2. Slots' \subseteq Slots \ {i}
      BY <1>3, <1>4, <2>6 DEF Slots
    <3>3. Slots \ {i} \subseteq Slots'
      BY <1>4, <2>5 DEF Slots
    <3> QED
      BY <3>1, <3>2, <3>3
  <2>8. \A u \in Workers : item'[u] = IF u = w THEN i ELSE item[u]
    BY <1>t, <2>1, <2>2
  <2>9. DoingSet' = DoingSet \cup {i}
    <3>1. DoingSet' \subseteq DoingSet \cup {i}
      BY <2>8 DEF DoingSet
    <3>2. DoingSet \cup {i} \subseteq DoingSet'
      <4>1. i \in DoingSet'
        BY <1>t, <2>8 DEF DoingSet
      <4>2. ASSUME NEW u \in Workers, item[u] # NoItem PROVE item[u] \in DoingSet'
        <5>1. item'[u] = item[u]
          BY <2>4, <2>8, <4>2
        <5> QED
          BY <4>2, <5>1 DEF DoingSet
      <4> QED
        BY <4>1, <4>2 DEF DoingSet
    <3> QED
      BY <3>1, <3>2
  <2>10. DoneSet' = DoneSet
    BY <2>1 DEF DoneSet
  <2> QED
    BY <1>1, <1>2, <2>7, <2>9, <2>10, BagSteps
<1> QED
  BY <1>b, <1>6, <1>7, <1>8, StepClaims

(* Before the workers run the main thread submits the items, to the deques   *)
(* or to itself, and performs the latter.                                    *)
LEMMA MainBag ==
  ASSUME Core, Core',
         (\E len \in 0 .. MaxItems : Run(len)) \/ SequentialItem \/ Push \/ Spawn
  PROVE  Bag!Next \/ UNCHANGED bag
<1>b. TypeOK /\ TypeOK' /\ PhaseInv /\ PhaseInv'
  BY DEF Core
<1>t. /\ next \in Nat /\ n \in Nat /\ n <= MaxItems /\ NoItem \notin Items
      /\ \A i \in Items : i \in Nat
      /\ calls \in [Items -> Nat]
  BY <1>b, MaxItemsAssumption DEF TypeOK, MainTypes, CountTypes, Items, NoItem
<1>2. TodoSet = Unpushed \cup Slots /\ (TodoSet = Unpushed \cup Slots)'
  BY TodoIs, TodoIsPrimed
<1>e. ASSUME mpc \in {"start", "sequential"}, UNCHANGED <<top, bottom, buffer, pc>>
      PROVE  Slots = {} /\ Slots' = {}
  <2>1. \A v \in Workers : OwnerBottom(v) = 0 /\ OwnerBottom(v)' = 0
    BY <1>b, <1>e DEF PhaseInv, OwnerBottom, ReadBottom
  <2>2. \A v \in Workers : \A k \in Items : ~ InRange(v, k) /\ ~ InRange(v, k)'
    BY <1>t, <2>1 DEF InRange
  <2> QED
    BY <2>2 DEF Slots
<1>1. ASSUME NEW len \in 0 .. MaxItems, Run(len) PROVE Bag!Next \/ UNCHANGED bag
  <2>1. /\ mpc = "start" /\ mpc' # "returned" /\ n' = len /\ next' = 0
        /\ UNCHANGED <<top, bottom, buffer, pc, item, calls>>
    BY <1>1, <1>b DEF Run, localVars, PhaseInv
  <2>2. DoingSet = {} /\ DoneSet = {} /\ UNCHANGED <<DoingSet, DoneSet>>
    BY <1>b, <2>1 DEF DoingSet, DoneSet, PhaseInv
  <2>3. Slots = {} /\ Slots' = {} /\ Unpushed = {}
    BY <1>e, <2>1 DEF Unpushed
  <2>4. PICK S \in SUBSET Items : S = Unpushed'
    <3>1. Unpushed' \subseteq Items
      BY <1>t, <2>1, MaxItemsAssumption DEF Unpushed, Items
    <3> QED
      BY <3>1
  <2>5. TodoSet = {} /\ TodoSet' = S
    BY <1>2, <2>3, <2>4
  <2> QED
    BY <2>1, <2>2, <2>5, BagSteps
<1>3. CASE SequentialItem
  <2>1. /\ mpc = "sequential" /\ mpc' = mpc /\ n' = n /\ next' = next + 1 /\ next < n
        /\ UNCHANGED <<top, bottom, buffer, pc, item>>
        /\ calls' = [calls EXCEPT ![next] = @ + 1]
    BY <1>3 DEF SequentialItem, localVars
  <2>2. PICK i \in Items : i = next
    BY <1>t, <2>1, MaxItemsAssumption DEF Items
  <2>3. Slots = {} /\ Slots' = {}
    BY <1>e, <2>1
  <2>4. i \in Unpushed /\ Unpushed' = Unpushed \ {i}
    BY <1>t, <2>1, <2>2 DEF Unpushed
  <2>5. DoingSet' = DoingSet
    BY <2>1 DEF DoingSet
  <2>6. DoneSet' = DoneSet \cup {i}
    <3>1. calls'[i] = calls[i] + 1 /\ calls[i] \in Nat
          /\ \A j \in Items \ {i} : calls'[j] = calls[j]
      BY <1>t, <2>1, <2>2
    <3> QED
      BY <3>1 DEF DoneSet
  <2>7. i \in TodoSet /\ TodoSet' = TodoSet \ {i}
    BY <1>2, <2>3, <2>4
  <2> QED
    BY <2>1, <2>5, <2>6, <2>7, BagSteps
<1>4. CASE Push
  <2>1. /\ mpc = "push" /\ mpc' = "push" /\ next < n
        /\ UNCHANGED <<item, calls>>
    BY <1>4 DEF Push, localVars
  <2>2. PICK i \in Items : i = next
    BY <1>t, <2>1, MaxItemsAssumption DEF Items
  <2>3. PICK w \in Workers : w = next % WorkerCount
    BY <1>t, DequeIndex
  <2>4. /\ bottom' = [bottom EXCEPT ![w] = @ + 1]
        /\ \A v \in Workers : top'[v] = 0
        /\ \A v \in Workers : \A k \in Items :
             /\ v = w /\ k = bottom[v] => array'[v][k] = i
             /\ k < bottom[v] => array'[v][k] = array[v][k]
    BY <1>4, <1>b, <2>2, <2>3, PushKeeps
  <2>5. /\ \A v \in Workers : OwnerBottom(v) = bottom[v] /\ OwnerBottom(v)' = bottom'[v]
        /\ \A v \in Workers : top[v] = 0 /\ item[v] = NoItem
        /\ \A j \in Items : calls[j] = 0
        /\ \A v \in Workers : \A k \in Items : array[v][k] < i
        /\ \A v \in Workers : bottom[v] <= i /\ bottom[v] \in Nat
    <3>1. \A v \in Workers : OwnerBottom(v) = bottom[v] /\ OwnerBottom(v)' = bottom'[v]
      BY <1>b, <2>1 DEF PhaseInv, OwnerBottom, ReadBottom
    <3>2. \A v \in Workers : \A k \in Items : array[v][k] < i
      BY <1>b, <2>1, <2>2 DEF PhaseInv
    <3>3. \A v \in Workers : bottom[v] <= i /\ bottom[v] \in Nat
      BY <1>b, <2>1, <2>2 DEF PhaseInv, TypeOK, DequeTypes
    <3> QED
      BY <1>b, <2>1, <3>1, <3>2, <3>3 DEF PhaseInv
  <2>6. \A v \in Workers : bottom'[v] = IF v = w THEN bottom[v] + 1 ELSE bottom[v]
    BY <1>b, <2>4 DEF TypeOK, DequeTypes
  <2>7. \A v \in Workers : \A k \in Items :
          InRange(v, k)' <=> InRange(v, k) \/ (v = w /\ k = bottom[v])
    <3> SUFFICES ASSUME NEW v \in Workers, NEW k \in Items
                 PROVE  k < bottom'[v] <=> k < bottom[v] \/ (v = w /\ k = bottom[v])
      BY <1>t, <2>4, <2>5 DEF InRange
    <3> QED
      BY <1>t, <2>5, <2>6
  <2>8. \A v \in Workers : \A k \in Items : InRange(v, k) => array'[v][k] = array[v][k]
    BY <2>4, <2>5 DEF InRange
  <2>9. i \notin Slots
    BY <1>t, <2>5 DEF Slots
  <2>10. Slots' = Slots \cup {i}
    <3>1. i \in Slots'
      <4>1. PICK k \in Items : k = bottom[w]
        BY <1>t, <2>1, <2>2, <2>5, MaxItemsAssumption DEF Items
      <4>2. InRange(w, k)' /\ array'[w][k] = i
        BY <2>4, <2>7, <4>1
      <4> QED
        BY <4>2 DEF Slots
    <3>2. Slots \subseteq Slots'
      BY <2>7, <2>8 DEF Slots
    <3>3. ASSUME NEW v \in Workers, NEW k \in Items, InRange(v, k)', array'[v][k] \in Items
          PROVE  array'[v][k] \in Slots \cup {i}
      BY <2>4, <2>7, <2>8, <3>3 DEF Slots
    <3>4. Slots' \subseteq Slots \cup {i}
      BY <3>3 DEF Slots
    <3> QED
      BY <3>1, <3>2, <3>4
  <2>11. /\ DoingSet = {} /\ DoneSet = {} /\ UNCHANGED <<DoingSet, DoneSet>>
         /\ Unpushed = {} /\ Unpushed' = {}
    BY <2>1, <2>5 DEF DoingSet, DoneSet, Unpushed
  <2>12. TodoSet' = TodoSet \cup {i} /\ {i} \cap (TodoSet \cup DoingSet \cup DoneSet) = {}
    BY <1>2, <2>9, <2>10, <2>11
  <2>13. {i} \in SUBSET Items
    OBVIOUS
  <2> QED
    BY <2>1, <2>11, <2>12, <2>13, BagSteps
<1>5. CASE Spawn
  <2>1. /\ UNCHANGED <<array, top, item, calls, mpc, n>> /\ mpc = "spawn"
        /\ \A v \in Workers : OwnerBottom(v)' = OwnerBottom(v)
    BY <1>5, <1>b, SpawnFrame
  <2>2. UNCHANGED <<Slots, DoingSet, DoneSet, Unpushed>>
    BY <2>1 DEF Slots, InRange, DoingSet, DoneSet, Unpushed
  <2> QED
    BY <1>2, <2>1, <2>2 DEF bag
<1> QED
  BY <1>1, <1>3, <1>4, <1>5

(* The other steps of the main thread leave the bag alone, but that run()    *)
(* reports success when nothing is left in it.                               *)
LEMMA QuietBag ==
  ASSUME Base, Base', Quiet
  PROVE  Bag!Next \/ UNCHANGED bag
<1>b. /\ Core /\ Core' /\ HoldingInv /\ DrainInv /\ PhaseInv
  BY DEF Base, Core, ResultInv
<1>1. UNCHANGED <<n, array, bottom, top, buffer, pc, b, item, calls>>
  BY QuietFrame
<1>2. UNCHANGED <<Slots, DoingSet, DoneSet>>
  BY <1>1 DEF Slots, InRange, OwnerBottom, ReadBottom, DoingSet, DoneSet
<1>3. /\ mpc' = "sequential" => mpc = "sequential" /\ next' = next
      /\ mpc = "returned" => mpc' = "returned"
      /\ mpc' = "returned" => \/ mpc \in {"returned", "sequential"}
                              \/ mpc = "join" /\ next = WorkerCount
  BY DEF Quiet, SequentialReturn, PushOutOfMemory, AllocThreads, SpawnDone,
         Join, JoinUndefinedHandle, Return, Stopped, vars, Ended
<1>3a. mpc = "sequential" => \/ mpc' = "sequential" /\ next' = next
                             \/ mpc' = "returned" /\ next = n
  BY DEF Quiet, SequentialReturn, PushOutOfMemory, AllocThreads, SpawnDone,
         Join, JoinUndefinedHandle, Return, Stopped, vars, Ended
<1>4. Unpushed' = Unpushed
  <2>1. CASE mpc = "sequential" /\ mpc' = "returned"
    <3>1. Unpushed' = {} /\ Unpushed = next .. (n - 1) /\ next = n
      BY <1>3a, <2>1 DEF Unpushed
    <3>2. n \in Nat
      BY <1>b DEF Core, TypeOK, MainTypes
    <3> QED
      BY <3>1, <3>2
  <2>2. CASE ~ (mpc = "sequential" /\ mpc' = "returned")
    BY <1>1, <1>3, <1>3a, <2>2 DEF Unpushed
  <2> QED
    BY <2>1, <2>2
<1>5. UNCHANGED <<TodoSet, DoingSet, DoneSet>>
  BY <1>b, <1>2, <1>4, TodoIs, TodoIsPrimed
<1>6. CASE (mpc = "returned")' = (mpc = "returned")
  BY <1>5, <1>6 DEF bag
<1>7. CASE mpc' = "returned" /\ mpc # "returned"
  <2>1. Unpushed = {}
    BY <1>1, <1>3, <1>4, <1>7 DEF Unpushed
  <2>2. Slots = {} /\ DoingSet = {}
    <3>1. CASE mpc = "sequential"
      <4>1. \A v \in Workers : OwnerBottom(v) = 0 /\ item[v] = NoItem /\ top[v] = 0
        BY <1>b, <3>1 DEF PhaseInv, OwnerBottom, ReadBottom
      <4> QED
        BY <4>1 DEF Slots, InRange, DoingSet, Items
    <3>2. CASE mpc = "join" /\ next = WorkerCount
      BY <1>b, <3>2, NothingLeft DEF Slots, DoingSet
    <3> QED
      BY <1>3, <1>7, <3>1, <3>2
  <2>3. TodoSet = {}
    BY <1>b, <2>1, <2>2, TodoIs
  <2> QED
    BY <1>5, <1>7, <2>2, <2>3, BagSteps
<1> QED
  BY <1>3, <1>6, <1>7

(* With no store in flight the executor implements the bag: a pop, a steal   *)
(* or a push, interleaved as they may be, is one step of the bag or none,    *)
(* and run() reports success only with the bag empty and nobody at work.     *)
THEOREM ExecutorImplementsBag == BufferDepth = 0 => (Spec => ImplementsBag)
<1> SUFFICES ASSUME BufferDepth = 0 PROVE Spec => Bag!Spec
  BY DEF ImplementsBag
<1>1. Init => Inv
  BY InitInv
<1>2. Inv /\ [Next]_vars => Inv'
  BY NextInv
<1>3. Init => Bag!Init
  <2> SUFFICES ASSUME Init PROVE Bag!Init
    OBVIOUS
  <2>1. Slots = {} /\ Unpushed = {}
    BY DEF Init, Slots, InRange, OwnerBottom, ReadBottom, Unpushed, Items
  <2>2. TodoSet = {}
    BY <1>1, <2>1, TodoIs DEF Inv, Base
  <2>3. DoingSet = {} /\ DoneSet = {} /\ mpc # "returned"
    BY DEF Init, DoingSet, DoneSet
  <2> QED
    BY <2>2, <2>3 DEF Bag!Init, TodoSet, DoingSet, DoneSet
<1>4. Inv /\ Inv' /\ [Next]_vars => Bag!Next \/ UNCHANGED bag
  <2> SUFFICES ASSUME Inv, Inv', [Next]_vars PROVE Bag!Next \/ UNCHANGED bag
    OBVIOUS
  <2>1. Base /\ Base' /\ Core /\ Core' /\ TypeOK /\ PhaseInv
    BY DEF Inv, Base, Core
  <2>2. \A w \in Workers : ~ Flush(w)
    BY <2>1, NothingInFlight
  <2> QED
    BY <2>1, <2>2, StepKinds, WorkerBag, MainBag, QuietBag
<1> QED
  BY <1>1, <1>2, <1>3, <1>4, PTL DEF Spec, Bag!Spec, bag, TodoSet, DoingSet, DoneSet
=============================================================================
