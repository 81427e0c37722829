------------------------------- MODULE TaskBag -------------------------------
(***************************************************************************)
(* What ParallelExecutor.run promises its callers: work items go into a    *)
(* bag, each is taken out by one thread at most and finished once, and the *)
(* run reports success only when every item of the bag has been finished.  *)
(* How the threads share the bag is not said.                              *)
(***************************************************************************)
CONSTANT Item

VARIABLES todo,      \* in the bag
          doing,     \* taken by a thread, process_fn not called yet
          done,      \* process_fn has been called
          success    \* run() has returned results

Init == todo = {} /\ doing = {} /\ done = {} /\ success = FALSE

\* New items go in.
Submit(S) ==
  /\ S \cap (todo \cup doing \cup done) = {}
  /\ todo' = todo \cup S
  /\ UNCHANGED <<doing, done, success>>

Take(i) ==
  /\ i \in todo
  /\ todo' = todo \ {i} /\ doing' = doing \cup {i}
  /\ UNCHANGED <<done, success>>

Finish(i) ==
  /\ i \in doing
  /\ doing' = doing \ {i} /\ done' = done \cup {i}
  /\ UNCHANGED <<todo, success>>

\* The main thread does the whole of an item itself.
Perform(i) ==
  /\ i \in todo
  /\ todo' = todo \ {i} /\ done' = done \cup {i}
  /\ UNCHANGED <<doing, success>>

Succeed ==
  /\ todo = {} /\ doing = {}
  /\ success' = TRUE
  /\ UNCHANGED <<todo, doing, done>>

Next == \/ \E S \in SUBSET Item : Submit(S)
        \/ \E i \in Item : Take(i) \/ Finish(i) \/ Perform(i)
        \/ Succeed

Spec == Init /\ [][Next]_<<todo, doing, done, success>>
=============================================================================
