----------------------------- MODULE IssueFilter -----------------------------
(***************************************************************************)
(* What PassContext.addIssue decides about one issue: the suppression      *)
(* layer, the semantic surface and the FilterContext (src/filter).  Pure   *)
(* operators; IssuePipeline uses them for every issue a pass reports.      *)
(*                                                                         *)
(* An issue i is a record with the fields func, kind, file, line, column,  *)
(* severity, message, boundary (it carries an ffi_boundary) and dropChain  *)
(* (a double_free that looks like Rust's own drop code).  What the name    *)
(* tables say of a function is a record f: its origin by name and by the   *)
(* surface classifier, its zone, whether its name is that of a producer    *)
(* of FFI values, and whether it is a runtime internal or shim.            *)
(***************************************************************************)
EXTENDS Naturals

Low == 0
Medium == 1
High == 2
Critical == 3
Severities == Low .. Critical
NoRisk == 4                    \* RiskLevel.suppressed, beyond the others
Risks == Severities \cup {NoRisk}

Origins == {"user", "stdlib", "compiler_generated", "third_party", "unknown"}
Zones   == {"unsafe", "ffi", "safe", "runtime_internal", "unknown"}

\* issue_classification.categorize
CoreMemorySafety == {"use_after_free", "double_free", "invalid_free",
                     "null_dereference", "buffer_overflow", "integer_overflow"}
FFIBoundary == {"cross_language_leak", "cross_language_free", "contract_mismatch",
                "ffi_unsafe_call", "ffi_type_mismatch", "borrow_escape",
                "type_mismatch", "callback_ownership_risk",
                "callback_signature_mismatch"}
SecurityCritical == {"command_injection", "format_string", "malloc_unchecked"}
Leak == {"memory_leak"}
Advisory == {"unchecked_return", "write_to_immutable", "static_buffer_misuse",
             "data_race", "thread_safety_violation", "unknown"}
IssueKind == CoreMemorySafety \cup FFIBoundary \cup SecurityCritical \cup Leak \cup Advisory

isNeverSuppressed(kind) == kind \in CoreMemorySafety \cup FFIBoundary \cup SecurityCritical
isNeverDowngraded(kind) == kind \in CoreMemorySafety \cup SecurityCritical

\* memory_safety_guard: an issue the name patterns may not drop.
isRealMemorySafetyBug(i) == isNeverSuppressed(i.kind) /\ ~ i.dropChain

\* Layer 2.
shouldSuppress(i, f) == ~ isRealMemorySafetyBug(i) /\ f.internal

\* noise_filter.getRiskLevel
getRiskLevel(origin, severity) ==
  CASE origin = "compiler_generated" -> NoRisk
    [] origin = "stdlib" -> IF severity >= High THEN Low ELSE NoRisk
    [] origin \in {"third_party", "unknown"} ->
         IF severity = Low THEN NoRisk ELSE severity - 1
    [] origin = "user" -> severity

\* Where a function of this origin lies.  The name of a producer lifts it.
SurfaceOfZone(zone) ==
  CASE zone \in {"unsafe", "ffi"} -> "boundary"
    [] zone = "safe" -> "internal_core"
    [] zone \in {"runtime_internal", "unknown"} -> zone

inferSemanticSurface(origin, f) ==
  LET surface == CASE origin = "user" -> "boundary"
                   [] origin \in {"stdlib", "third_party"} -> "internal_core"
                   [] origin = "compiler_generated" -> "runtime_internal"
                   [] origin = "unknown" -> SurfaceOfZone(f.zone)
  IN IF f.producer /\ surface = "internal_core" THEN "ffi_producer" ELSE surface

HasBoundaryEvidence(i) ==
  \/ i.boundary
  \/ i.kind \in {"cross_language_free", "cross_language_leak", "ffi_unsafe_call",
                 "ffi_type_mismatch", "borrow_escape"}

AllowsHigh(surface) == surface \in {"boundary", "ffi_producer"}

\* applySurfaceDowngrade: three gates that each set the severity to medium, then
\* the cap of the runtime's own code.
applySurfaceDowngrade(i, surface) ==
  LET exposed == HasBoundaryEvidence(i) \/ AllowsHigh(surface)
      immutable == IF i.kind = "write_to_immutable" /\ i.severity # Low /\ ~ exposed
                   THEN Medium ELSE i.severity
      weakFree == IF /\ i.kind = "invalid_free" /\ immutable = High /\ ~ exposed
                     /\ surface \in {"internal_core", "runtime_internal", "unknown"}
                  THEN Medium ELSE immutable
      hidden == IF ~ exposed /\ ~ isNeverDowngraded(i.kind) /\ weakFree >= High
                THEN Medium ELSE weakFree
  IN IF surface = "runtime_internal" /\ ~ isNeverDowngraded(i.kind)
     THEN Low ELSE hidden

\* Mutant: only the boundary an issue carries protects it from the risk filter.
MutProtected(i, pureC) == i.boundary /\ ~ pureC

\* The issues risk never suppresses.
Protected(i, pureC) == isNeverSuppressed(i.kind) \/ (i.boundary /\ ~ pureC)

\* applyNoiseFilter: is the issue suppressed, and if not, at which risk?
Suppressed(i, origin, pureC) ==
  /\ ~ Protected(i, pureC)
  /\ i.severity # Critical
  /\ getRiskLevel(origin, i.severity) = NoRisk

RiskLevel(i, origin, pureC) ==
  LET risk == getRiskLevel(origin, i.severity) IN
  IF risk # NoRisk THEN risk ELSE IF Protected(i, pureC) THEN Low ELSE Critical

MaxOf(x, y) == IF x >= y THEN x ELSE y

\* The severity steps down by one level when the risk warrants it.
StepDown(severity, risk) ==
  LET stepped == IF severity = Low THEN Low ELSE severity - 1 IN
  IF risk < severity THEN MaxOf(risk, stepped) ELSE severity

\* Mutant: the step down also applies to the kinds that are never downgraded.
MutFinalSeverity(i, surface, risk) == StepDown(applySurfaceDowngrade(i, surface), risk)

FinalSeverity(i, surface, risk) ==
  LET after == applySurfaceDowngrade(i, surface) IN
  IF isNeverDowngraded(i.kind) THEN after ELSE StepDown(after, risk)
=============================================================================
