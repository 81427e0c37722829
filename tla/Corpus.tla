------------------------------- MODULE Corpus -------------------------------
(***************************************************************************)
(* The C test programs of the repository, the analysis of cross-language   *)
(* data flow on each of them, and what their functions really do: a        *)
(* program is analysed, then one of its functions is executed, and what    *)
(* the comments of the program say, what the analysis reported and what    *)
(* happened are compared.                                                  *)
(***************************************************************************)
EXTENDS CExecution, CrossLangDataFlow

vars == << moduleVars, position, allocations, allocByPtr, freedAllocByPtr, allocBySym,
           storeMap, checked, stage, issues, running, runs, outcomes >>

Init == DataflowInit /\ ExecutionInit

\* The functions that call themselves or the others of the program are there
\* for their calls: they are analysed, not executed.
Executable == {f \in {program.functions[i] : i \in 1..Len(program.functions)} :
                 f.name \notin {"main", "recursive_ffi_alloc"}}

Execute == stage = "done" /\ (Advance \/ \E f \in Executable : Start(f))

Next == \/ Analyse /\ UNCHANGED << running, runs, outcomes >>
        \/ Execute /\ UNCHANGED dataflowVars

Spec == Init /\ [][Next]_vars

-----------------------------------------------------------------------------
Running == CHOOSE f \in Executable : f.name = running
Reported(kind) == \E x \in issues : x.kind = kind /\ x.func = running

\* The allocations that the analysis saw in the function, and its calls that
\* the analysis takes for releases.
TrackedIn(f) == {k \in 1..Len(allocations) : allocations[k].alloc_func = f}
ReleasesOf(f) ==
  {c \in UNION {{g.calls[j] : j \in 1..Len(g.calls)} :
                g \in {h \in Functions : h.name = f}} :
     isFreeFunction(c.fn) /\ c.args # <<>>}

\* A function labelled with a bug has it on some path, one labelled safe has
\* none on any path, but for an allocation it does not check.
LabelHolds ==
  /\ Running.claims \ {"safe"} \subseteq outcomes
  /\ "safe" \in Running.claims => outcomes \subseteq {"null_use"}

\* The functions that do not do what their labels say.
Disputed ==
  { <<"rust_multi_lang", "tc6_box_leak_ownership_transfer">>,
    <<"zlib_binding", "use_after_free_example">>, <<"zlib_binding", "double_free_example">>,
    <<"boundary_test", "create_circular_ownership">>, <<"boundary_test", "ffi_use_after_free">>,
    <<"openssl_ffi", "encrypt_data">>, <<"openssl_ffi", "load_private_key">>,
    <<"network_ffi", "read_and_free">> }

(***************************************************************************)
(* What the comments of a test program say of a function is what it does   *)
(* for all functions but the disputed ones, and only for those: a disputed *)
(* label is false.                                                         *)
(***************************************************************************)
LabelsAreTrue ==
  Ran(running) => (LabelHolds <=> <<program.name, running>> \notin Disputed)

(***************************************************************************)
(* In a program that is analysed, a function that makes an allocation the  *)
(* analysis knows, calls nothing it takes for a release, and loses the     *)
(* allocation or leaves it to its caller, is reported, whatever the other  *)
(* functions of the program release.  What excuses it is its name, which   *)
(* announces a transfer or resembles those of Zig's library (every name    *)
(* with "compress" in it does), or an allocation by Rust's own library.    *)
(***************************************************************************)
LostAllocationsAreReported ==
  /\ Ran(running)
  /\ outcomes \cap {"leak", "handed_out"} # {}
  /\ ReleasesOf(running) = {}
  /\ ~isZigStdlibFunction(running)
  /\ \E k \in TrackedIn(running) :
       /\ ~isIntentionalOwnershipTransfer(allocations[k])
       /\ ~isConfirmedShim(allocations[k].alloc_callee)
  => Reported("cross_language_leak")

(***************************************************************************)
(* A function whose only known allocation is reported as an orphan does    *)
(* not release it properly on every path.  With two allocations this does  *)
(* not hold: releases are paired with the last allocation of the function  *)
(* only, so the other ones are orphans even where all are released.        *)
(***************************************************************************)
SingleOrphansAreReal ==
  /\ Ran(running)
  /\ Cardinality(TrackedIn(running)) = 1
  /\ Reported("cross_language_leak")
  => outcomes \cap {"leak", "handed_out", "bad_free"} # {}

\* The functions labelled safe that are reported all the same, and why: a leak,
\* where all of several allocations are released but the releases are paired with
\* the last one; a use of released memory, where what is believed to be released is
\* the release function they call, as another function called it before.
FalseAlarms ==
  { <<"go_tinygo", "tc10_correct_nested_ffi">>, <<"openssl_ffi", "correct_pattern_example">>,
    <<"cpp_operator_new", "tc5_correct_cpp_memory">> }
PairedWrongly(x) ==
  x.kind = "cross_language_leak" /\ Cardinality(TrackedIn(x.func)) > 1
ReleaseTakenForReleased(x) ==
  /\ x.kind = "use_after_free"
  /\ \E c \in ReleasesOf(x.func) : <<"function", c.fn>> \in DOMAIN freedAllocByPtr

(***************************************************************************)
(* A function that its program labels safe, "Expected: No issue reported", *)
(* has no report but for these false alarms, which are reported, and for   *)
(* one of these two reasons.                                               *)
(***************************************************************************)
SafeFunctionsAreQuiet ==
  Ran(running) /\ "safe" \in Running.claims =>
    LET reports == {x \in issues : x.func = running}
    IN  /\ reports # {} <=> <<program.name, running>> \in FalseAlarms
        /\ \A x \in reports : PairedWrongly(x) \/ ReleaseTakenForReleased(x)
=============================================================================
