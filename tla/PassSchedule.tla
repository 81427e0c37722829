----------------------------- MODULE PassSchedule -----------------------------
(***************************************************************************)
(* What PassManager promises to the pipeline: an order is any arrangement  *)
(* of all registered passes in which every pass comes after the passes it  *)
(* depends on; a call may only report a cycle when some passes wait for    *)
(* each other; and a run executes every pass of the order once, in order,  *)
(* whether or not passes fail.  How an order is found is left open.        *)
(***************************************************************************)
EXTENDS Naturals, Sequences

CONSTANTS
  Names,      \* names of passes
  DepLists,   \* the dependency lists a pass may declare
  MaxPasses   \* bound on the number of registered passes

VARIABLES
  passes,     \* the registered passes, in order of registration
  order,      \* the order in use; meaningful when known
  known,      \* an order has been computed for these passes
  phase,      \* "idle", "resolving" or "running"
  wanted,     \* what the call in progress was asked for: "order" or "run"
  outcome,    \* what the last call returned
  ran         \* the passes run by the current or last run, and how they ended

vars == <<passes, order, known, phase, wanted, outcome, ran>>

Indices == DOMAIN passes

\* A name stands for the pass that was registered under it last.
Provides(p, name) ==
  passes[p].name = name /\ \A q \in Indices : passes[q].name = name => q <= p

\* Pass i waits for pass p.
DependsOn(i, p) ==
  \E k \in DOMAIN passes[i].deps : Provides(p, passes[i].deps[k])

Missing ==
  \E i \in Indices : \E k \in DOMAIN passes[i].deps :
    \A p \in Indices : ~Provides(p, passes[i].deps[k])

\* Every pass occurs once, after the passes it depends on.
IsSchedule(o) ==
  /\ o \in [Indices -> Indices]
  /\ \A p, q \in Indices : o[p] = o[q] => p = q
  /\ \A q, d \in Indices :
       DependsOn(o[q], d) => \E p \in Indices : p < q /\ o[p] = d

\* Some passes that can only run after each other.
Deadlocked ==
  \E S \in SUBSET Indices :
    S # {} /\ \A i \in S : \E d \in S : DependsOn(i, d)

Init ==
  /\ passes = <<>> /\ order = <<>> /\ known = FALSE
  /\ phase = "idle" /\ wanted = "order" /\ outcome = "none" /\ ran = <<>>

\* Registering a pass makes the order in use obsolete.
Register(name, deps) ==
  /\ phase = "idle" /\ Len(passes) < MaxPasses
  /\ passes' = Append(passes, [name |-> name, deps |-> deps])
  /\ known' = FALSE
  /\ UNCHANGED <<order, phase, wanted, outcome, ran>>

Call(what) ==
  /\ phase = "idle"
  /\ wanted' = what
  /\ \/ /\ what = "run" /\ known
        /\ phase' = "running" /\ ran' = <<>> /\ UNCHANGED outcome
     \/ /\ ~(what = "run" /\ known) /\ ~Missing
        /\ phase' = "resolving" /\ UNCHANGED <<outcome, ran>>
     \/ /\ ~(what = "run" /\ known) /\ Missing
        /\ outcome' = "missing" /\ UNCHANGED <<phase, ran>>
  /\ UNCHANGED <<passes, order, known>>

Scheduled ==
  /\ phase = "resolving"
  /\ IsSchedule(order')
  /\ known' = TRUE
  /\ \/ wanted = "run" /\ phase' = "running" /\ ran' = <<>> /\ UNCHANGED outcome
     \/ wanted = "order" /\ phase' = "idle" /\ outcome' = "ok" /\ UNCHANGED ran
  /\ UNCHANGED <<passes, wanted>>

Impossible ==
  /\ phase = "resolving"
  /\ phase' = "idle" /\ outcome' = "cycle"
  /\ Deadlocked
  /\ UNCHANGED <<passes, order, known, wanted, ran>>

\* Memory may run out at any point; an order is kept or left as it was.
OutOfMemory ==
  /\ phase = "resolving"
  /\ phase' = "idle" /\ outcome' = "out of memory"
  /\ \/ UNCHANGED <<order, known>>
     \/ known' = TRUE /\ IsSchedule(order')
  /\ UNCHANGED <<passes, wanted, ran>>

Execute(ok) ==
  /\ phase = "running" /\ Len(ran) < Len(order)
  /\ ran' = Append(ran, [pass |-> order[Len(ran) + 1], ok |-> ok])
  /\ UNCHANGED <<passes, order, known, phase, wanted, outcome>>

Done ==
  /\ phase = "running" /\ Len(ran) = Len(order)
  /\ phase' = "idle" /\ outcome' = "ran"
  /\ UNCHANGED <<passes, order, known, wanted, ran>>

Next ==
  \/ \E name \in Names, deps \in DepLists : Register(name, deps)
  \/ \E what \in {"order", "run"} : Call(what)
  \/ Scheduled \/ Impossible \/ OutOfMemory \/ Done
  \/ \E ok \in BOOLEAN : Execute(ok)

Spec == Init /\ [][Next]_vars
=============================================================================
