---------------------------- MODULE IssuePipeline ----------------------------
(***************************************************************************)
(* The way of an issue through one run of the pipeline (Pipeline.run):     *)
(* the passes report issues to PassContext.addIssue, which filters them    *)
(* and drops repeated ones; the leak report does the same for allocations  *)
(* nothing freed; a DiagnosticAggregator drops issues with equal keys and  *)
(* folds groups of equal messages; and the pipeline looks the diagnostics  *)
(* up again to find the issues getIssues and getIssuesOwned return.        *)
(* Hashes are modelled by what is hashed.                                  *)
(***************************************************************************)
EXTENDS IssueFilter, Sequences, FiniteSets, FiniteSetsExt, SequencesExt

CONSTANTS Functions,     \* what the name tables say of each function
          Issues,        \* the issues passes may report
          MaxReports,    \* bound: how many reports the passes make
          LeakRecords,   \* the records the allocation tracker may hold
          MaxRecords,    \* bound: how many it holds
          MessageFoldThreshold   \* MESSAGE_FOLD_THRESHOLD (5)

IsFunction(f) ==
  /\ f.named \in Origins         \* by the heuristics on its name
  /\ f.classified \in Origins    \* by surface-classifier, once that has run
  /\ f.zone \in Zones /\ f.producer \in BOOLEAN /\ f.internal \in BOOLEAN
IsIssue(i) ==
  /\ i.func \in DOMAIN Functions /\ i.kind \in IssueKind
  /\ i.line \in Nat /\ i.column \in Nat /\ i.severity \in Severities
  /\ i.boundary \in BOOLEAN /\ i.dropChain \in BOOLEAN
  /\ i.dropChain => i.kind = "double_free"
IsLeakRecord(r) ==
  /\ r.func \in DOMAIN Functions
  /\ r.managed \in BOOLEAN     \* freed, static, or cleaned up by somebody else
  /\ r.onFfiPath \in BOOLEAN   \* isOnDangerPathFull
  /\ r.confident \in BOOLEAN   \* confidence reaches leak_confidence_threshold

ASSUME FunctionsAssumption == \A name \in DOMAIN Functions : IsFunction(Functions[name])
ASSUME IssuesAssumption == \A i \in Issues : IsIssue(i)
ASSUME RecordsAssumption == \A r \in LeakRecords : IsLeakRecord(r)
ASSUME PipelineBounds ==
  /\ MaxReports \in Nat /\ MaxRecords \in Nat /\ MessageFoldThreshold \in Nat \ {0}

NoFile == "none"

VARIABLES
  phase,          \* where run() is
  reports,        \* how many issues the passes have reported
  pureC,          \* ctx.isCModule()
  surfaces,       \* function_surface is filled
  records,        \* global_alloc_tracker.records not yet looked at
  reported_keys,  \* PassContext.reported_keys
  issues,         \* data_flow_graph.issues: the issue reported, its new severity
  seen_keys,      \* DiagnosticAggregator.seen_keys
  indices,        \* the issues the aggregator accepted, also its pending list
  next,           \* loop index of the deduplication
  diagnostics,    \* DiagnosticAggregator.diagnostics
  result,         \* dedup_issue_indices, each with its message override
  submitted,      \* history: issues addIssue has dealt with
  outOfMemory     \* history: an allocation has failed

filterVars == <<reported_keys, issues, submitted>>
dedupVars  == <<seen_keys, indices, next, diagnostics, result>>
vars == <<phase, reports, pureC, surfaces, records, reported_keys, issues, seen_keys,
          indices, next, diagnostics, result, submitted, outOfMemory>>

-----------------------------------------------------------------------------
(* PassContext.addIssue                                                    *)

\* A line or column is part of a key unless it is zero.
Positive(n) == IF n > 0 THEN <<n>> ELSE <<>>
dedupKey(i) == <<i.func, i.kind, i.file>> \o Positive(i.line) \o Positive(i.column)

\* Mutant: issues of high severity are let through like critical ones.
MutIsDuplicate(i) == i.severity < High /\ dedupKey(i) \in reported_keys

IsDuplicate(i) == i.severity # Critical /\ dedupKey(i) \in reported_keys

Origin(f) == IF surfaces THEN f.classified ELSE f.named

\* The key is recorded whether or not the issue is then reported.
RecordKey(i) ==
  reported_keys' = IF i.severity # Critical THEN reported_keys \cup {dedupKey(i)}
                                            ELSE reported_keys

\* DataFlowGraph.addIssue
addToGraph(i, severity) == issues' = Append(issues, [issue |-> i, severity |-> severity])

addIssue(i) ==
  LET f == Functions[i.func]
      origin == Origin(f)
      severity == FinalSeverity(i, inferSemanticSurface(origin, f),
                                RiskLevel(i, origin, pureC))
      dropped == IsDuplicate(i) \/ Suppressed(i, origin, pureC)
  IN
  /\ submitted' = submitted \cup {i}
  /\ \/ /\ shouldSuppress(i, f)
        /\ UNCHANGED <<reported_keys, issues>>
     \/ /\ ~ shouldSuppress(i, f)
        /\ RecordKey(i)
        /\ IF dropped THEN UNCHANGED issues ELSE addToGraph(i, severity)

\* addIssue runs out of memory: when it copies the issue the key is recorded.
\* (Bound: one allocation fails before the deduplication.)
addIssueFails(i) ==
  /\ ~ outOfMemory /\ ~ shouldSuppress(i, Functions[i.func])
  /\ outOfMemory' = TRUE
  /\ RecordKey(i) \/ UNCHANGED reported_keys
  /\ UNCHANGED <<issues, submitted>>

-----------------------------------------------------------------------------
Init ==
  /\ phase = "passes" /\ reports = 0 /\ surfaces = FALSE
  /\ pureC \in BOOLEAN
  /\ records \in UNION {[1 .. len -> LeakRecords] : len \in 0 .. MaxRecords}
  /\ reported_keys = {} /\ issues = <<>>
  /\ seen_keys = {} /\ indices = <<>> /\ next = 1
  /\ diagnostics = <<>> /\ result = <<>>
  /\ submitted = {} /\ outOfMemory = FALSE

\* A pass reports an issue.  If that fails the pass fails, and others follow.
Report(i) ==
  /\ phase = "passes" /\ reports < MaxReports
  /\ reports' = reports + 1
  /\ \/ addIssue(i) /\ UNCHANGED outOfMemory
     \/ addIssueFails(i)
  /\ UNCHANGED <<phase, pureC, surfaces, records>> /\ UNCHANGED dedupVars

\* surface-classifier fills function_surface.
ClassifySurfaces ==
  /\ phase = "passes" /\ ~ surfaces
  /\ surfaces' = TRUE
  /\ UNCHANGED <<phase, reports, pureC, records, outOfMemory>>
  /\ UNCHANGED filterVars /\ UNCHANGED dedupVars

\* pass_manager.run returns.  Without language adapters run() returns with it.
PassesEnd ==
  /\ phase = "passes"
  /\ phase' \in {"leaks", "returned"}
  /\ UNCHANGED <<reports, pureC, surfaces, records, outOfMemory>>
  /\ UNCHANGED filterVars /\ UNCHANGED dedupVars

\* Its location is the function that allocates.
LeakIssue(r) ==
  [func |-> r.func, file |-> NoFile, line |-> 0, column |-> 0,
   kind |-> "memory_leak", severity |-> IF r.onFfiPath THEN High ELSE Low,
   message |-> <<"Potential memory leak", r.func>>,
   boundary |-> FALSE, dropChain |-> FALSE]

\* The exemptions before the threshold are one input, r.managed.
IsLeak(r) == ~ r.managed /\ r.confident

\* The leak report skips a record.
NotALeak ==
  /\ phase = "leaks" /\ records # <<>> /\ ~ IsLeak(Head(records))
  /\ records' = Tail(records)
  /\ UNCHANGED <<phase, reports, pureC, surfaces, outOfMemory>>
  /\ UNCHANGED filterVars /\ UNCHANGED dedupVars

\* The leak report reports a record.  If that fails, so does run().
ReportLeak ==
  /\ phase = "leaks" /\ records # <<>> /\ IsLeak(Head(records))
  /\ records' = Tail(records)
  /\ \/ addIssue(LeakIssue(Head(records))) /\ UNCHANGED <<phase, outOfMemory>>
     \/ addIssueFails(LeakIssue(Head(records))) /\ phase' = "failed"
  /\ UNCHANGED <<reports, pureC, surfaces>> /\ UNCHANGED dedupVars

\* All records are done, or the time budget is used up.
LeaksEnd ==
  /\ phase = "leaks"
  /\ phase' = "aggregate"
  /\ UNCHANGED <<reports, pureC, surfaces, records, outOfMemory>>
  /\ UNCHANGED filterVars /\ UNCHANGED dedupVars

-----------------------------------------------------------------------------
(* DiagnosticAggregator                                                    *)

\* addIssue reads location.function; the location of an issue has no such
\* field (its name is func), so the function is the same for all of them.
FuncName(i) == "(unknown)"

AggregatorKey(i) == <<FuncName(i), i.kind, i.file>> \o Positive(i.line)

\* Mutant: the position is counted from one behind.
MutKeep == indices' = Append(indices, next + 1)

Keep == indices' = Append(indices, next)

\* One issue of the graph is offered to the aggregator.
Aggregate ==
  /\ phase = "aggregate" /\ next <= Len(issues)
  /\ LET key == AggregatorKey(issues[next].issue) IN
     \/ key \in seen_keys /\ UNCHANGED <<seen_keys, indices>>
     \/ key \notin seen_keys /\ seen_keys' = seen_keys \cup {key} /\ Keep
  /\ next' = next + 1
  /\ UNCHANGED <<phase, reports, pureC, surfaces, records, outOfMemory, diagnostics, result>>
  /\ UNCHANGED filterVars

Pending(p) == issues[indices[p]].issue
Group(p) == {q \in DOMAIN indices : /\ Pending(q).kind = Pending(p).kind
                                    /\ Pending(q).message = Pending(p).message}
Folds(p) == Cardinality(Group(p)) > MessageFoldThreshold

\* Mutant: a folded group is emitted for each of its members.
MutEmits(p) == TRUE

\* Mutant: a folded group is left out instead of being summed up.
MutEmitsSmall(p) == ~ Folds(p)

\* flush emits every diagnostic of a small group and one for a large group.
Emits(p) == Folds(p) => p = Min(Group(p))

Diagnostic(p) ==
  [kind |-> Pending(p).kind, message |-> Pending(p).message,
   folded |-> IF Folds(p) THEN Cardinality(Group(p)) ELSE 0]

Emitted == {p \in DOMAIN indices : Emits(p)}

\* The one list of the numbers in a set from the least up.
InOrder(set) ==
  {list \in Bijection(1 .. Cardinality(set), set) :
     \A j, k \in DOMAIN list : j < k => list[j] < list[k]}

Flush ==
  /\ phase = "aggregate" /\ next > Len(issues)
  /\ phase' = "rebuild"
  /\ \E emitted \in InOrder(Emitted) :
        diagnostics' = [k \in DOMAIN emitted |-> Diagnostic(emitted[k])]
  /\ UNCHANGED <<reports, pureC, surfaces, records, outOfMemory, seen_keys, indices, next, result>>
  /\ UNCHANGED filterVars

\* The pipeline finds the issue of a diagnostic: by its message, the last one
\* with it; or by its kind, the first one of it.
LastWithMessage(m) == Max({k \in DOMAIN issues : issues[k].issue.message = m})
FirstOfKind(kind)  == Min({k \in DOMAIN issues : issues[k].issue.kind = kind})

Found(d) ==
  [index |-> IF d.folded > 0 THEN FirstOfKind(d.kind) ELSE LastWithMessage(d.message),
   override |-> d.folded]

Rebuild ==
  /\ phase = "rebuild"
  /\ phase' = "returned"
  /\ result' = [k \in DOMAIN diagnostics |-> Found(diagnostics[k])]
  /\ UNCHANGED <<reports, pureC, surfaces, records, outOfMemory, seen_keys, indices, next, diagnostics>>
  /\ UNCHANGED filterVars

\* An allocation fails between the passes and the end: run() fails.
OutOfMemory ==
  /\ phase \in {"aggregate", "rebuild"}
  /\ phase' = "failed" /\ outOfMemory' = TRUE
  /\ UNCHANGED <<reports, pureC, surfaces, records>>
  /\ UNCHANGED filterVars /\ UNCHANGED dedupVars

Ended == phase \in {"returned", "failed"}
Stopped == Ended /\ UNCHANGED vars

Next ==
  \/ \E i \in Issues : Report(i)
  \/ ClassifySurfaces \/ PassesEnd
  \/ NotALeak \/ ReportLeak \/ LeaksEnd
  \/ Aggregate \/ Flush \/ Rebuild \/ OutOfMemory \/ Stopped

Spec == Init /\ [][Next]_vars

-----------------------------------------------------------------------------
(* Properties.                                                             *)

Everything == Issues \cup {LeakIssue(r) : r \in LeakRecords}

(* The values the variables take; an index is one of an issue in the graph. *)
TypeOK ==
  /\ phase \in {"passes", "leaks", "aggregate", "rebuild", "returned", "failed"}
  /\ reports \in 0 .. MaxReports
  /\ pureC \in BOOLEAN /\ surfaces \in BOOLEAN /\ outOfMemory \in BOOLEAN
  /\ Len(records) <= MaxRecords
  /\ \A k \in DOMAIN issues : issues[k].issue \in Everything /\ issues[k].severity \in Severities
  /\ \A k \in DOMAIN indices : indices[k] \in DOMAIN issues
  /\ next \in 1 .. Len(issues) + 1
  /\ \A k \in DOMAIN result : result[k].index \in DOMAIN issues
  /\ submitted \subseteq Everything

SamePlace(i, j) ==
  i.func = j.func /\ i.file = j.file /\ i.line = j.line /\ i.column = j.column

(* Several passes see the same defect; the reports of it that are not        *)
(* critical enter the graph once, whatever the surface classifier found out  *)
(* and whichever allocation failed in between.                               *)
OneReportPerKey ==
  \A k, l \in DOMAIN issues :
     LET i == issues[k].issue
         j == issues[l].issue
     IN k < l /\ i.kind = j.kind /\ SamePlace(i, j) => Critical \in {i.severity, j.severity}

(* "NEVER suppressed" in the table of categories: a memory-safety, boundary  *)
(* or security issue that was reported is in the graph, itself or as an      *)
(* earlier report of the same defect, and a critical issue is there itself.  *)
NeverSuppressedReachGraph ==
  ~ outOfMemory =>
    \A i \in submitted :
       /\ isNeverSuppressed(i.kind) /\ ~ shouldSuppress(i, Functions[i.func]) =>
            \E k \in DOMAIN issues : dedupKey(issues[k].issue) = dedupKey(i)
       /\ i.severity = Critical /\ ~ shouldSuppress(i, Functions[i.func]) =>
            \E k \in DOMAIN issues : issues[k].issue = i

\* The surfaces the filter may have seen for i.
SurfacesOf(i) ==
  LET f == Functions[i.func]
  IN {inferSemanticSurface(origin, f) : origin \in {f.named, f.classified}}

SeverityKept(i, new) ==
  /\ new <= i.severity
  /\ isNeverDowngraded(i.kind) =>
       \/ new = i.severity
       \/ i.kind = "invalid_free" /\ i.severity = High /\ new = Medium
  /\ HasBoundaryEvidence(i) /\ "runtime_internal" \notin SurfacesOf(i) =>
       new + 1 >= i.severity

(* No layer raises a severity, the kinds that are never downgraded keep      *)
(* theirs (an invalid_free without evidence excepted), and an issue with     *)
(* evidence of a boundary loses at most one level outside the runtime.       *)
SeveritiesKept == \A k \in DOMAIN issues : SeverityKept(issues[k].issue, issues[k].severity)

Deduplicated == phase = "returned" /\ next > 1

(* Folding and the search for the issue of a diagnostic by its message lose  *)
(* none of the issues the aggregator kept: for each the caller is shown a    *)
(* summary of its kind, or its message.                                      *)
KeptIsShown ==
  Deduplicated =>
    \A p \in DOMAIN indices : \E r \in DOMAIN result :
       LET shown == issues[result[r].index].issue
       IN \/ result[r].override > 0 /\ shown.kind = Pending(p).kind
          \/ result[r].override = 0 /\ shown.message = Pending(p).message

(* "Uses (function + kind + file + line) as dedup key": an issue is dropped  *)
(* by the aggregator only for one in the same function, of the same kind, in *)
(* the same file and line.                                                   *)
KeptPerFunction ==
  Deduplicated =>
    \A k \in DOMAIN issues : \E p \in DOMAIN indices :
       LET i == issues[k].issue
       IN <<i.func, i.kind, i.file, i.line>> =
            <<Pending(p).func, Pending(p).kind, Pending(p).file, Pending(p).line>>

Shown(r) == IF result[r].override > 0 THEN result[r].override ELSE 1

(* The numbers the caller reads add up to the issues the aggregator kept,    *)
(* and the unsigned differences the pipeline logs do not wrap.               *)
CountsAddUp ==
  /\ Len(indices) <= Len(issues) /\ Len(result) <= Len(indices)
  /\ Deduplicated =>
       SumFunction([r \in DOMAIN result |-> Shown(r)]) = Len(indices)

=============================================================================
