------------------------- MODULE IssuePipelineProofs -------------------------
(***************************************************************************)
(* Theorems about IssuePipeline, for any functions, issues, leak records   *)
(* and bounds: a defect enters the graph once, and the filter keeps the    *)
(* severities it promises to keep.                                         *)
(***************************************************************************)
EXTENDS IssuePipeline, SumTheorems, SequenceTheorems, TLAPS

-----------------------------------------------------------------------------
(* The filter.                                                             *)

LEMMA RiskType ==
  ASSUME NEW severity \in Severities, NEW origin \in Origins
  PROVE  getRiskLevel(origin, severity) \in Risks
BY DEF getRiskLevel, Severities, Risks, Origins, Low, Medium, High, Critical, NoRisk

LEMMA StepDownBounds ==
  ASSUME NEW severity \in Severities, NEW risk \in Severities
  PROVE  /\ StepDown(severity, risk) \in Severities
         /\ StepDown(severity, risk) <= severity
         /\ severity <= StepDown(severity, risk) + 1
BY DEF StepDown, MaxOf, Severities, Low, Critical

\* What the gates and caps of the surface do to a severity.
LEMMA SurfaceBounds ==
  ASSUME NEW i, NEW surface, i.severity \in Severities
  PROVE  /\ applySurfaceDowngrade(i, surface) \in Severities
         /\ applySurfaceDowngrade(i, surface) <= i.severity
         /\ isNeverDowngraded(i.kind) =>
              \/ applySurfaceDowngrade(i, surface) = i.severity
              \/ /\ i.kind = "invalid_free" /\ i.severity = High
                 /\ applySurfaceDowngrade(i, surface) = Medium
         /\ HasBoundaryEvidence(i) /\ surface # "runtime_internal" =>
              applySurfaceDowngrade(i, surface) = i.severity
<1> DEFINE exposed == HasBoundaryEvidence(i) \/ AllowsHigh(surface)
           immutable == IF i.kind = "write_to_immutable" /\ i.severity # Low /\ ~ exposed
                        THEN Medium ELSE i.severity
           weakFree == IF /\ i.kind = "invalid_free" /\ immutable = High /\ ~ exposed
                          /\ surface \in {"internal_core", "runtime_internal", "unknown"}
                       THEN Medium ELSE immutable
           hidden == IF ~ exposed /\ ~ isNeverDowngraded(i.kind) /\ weakFree >= High
                     THEN Medium ELSE weakFree
           after == IF surface = "runtime_internal" /\ ~ isNeverDowngraded(i.kind)
                    THEN Low ELSE hidden
<1>1. applySurfaceDowngrade(i, surface) = after
  BY DEF applySurfaceDowngrade
<1>2. /\ immutable \in Severities /\ immutable <= i.severity
      /\ exposed \/ i.kind # "write_to_immutable" => immutable = i.severity
  BY DEF Severities, Low, Medium, Critical
<1>3. "write_to_immutable" \notin CoreMemorySafety \cup SecurityCritical
  BY DEF CoreMemorySafety, SecurityCritical
<1>4. isNeverDowngraded(i.kind) => immutable = i.severity
  BY <1>2, <1>3 DEF isNeverDowngraded
<1> HIDE DEF immutable
<1>5. /\ weakFree \in Severities /\ weakFree <= immutable
      /\ weakFree = immutable
           \/ (i.kind = "invalid_free" /\ immutable = High /\ weakFree = Medium)
      /\ exposed => weakFree = immutable
  BY <1>2 DEF Severities, Medium, High, Critical, Low
<1> HIDE DEF weakFree
<1>6. /\ hidden \in Severities /\ hidden <= weakFree
      /\ exposed \/ isNeverDowngraded(i.kind) => hidden = weakFree
  BY <1>5 DEF Severities, Medium, High, Critical, Low
<1> HIDE DEF hidden
<1>7. /\ after \in Severities /\ after <= hidden
      /\ surface # "runtime_internal" \/ isNeverDowngraded(i.kind) => after = hidden
  BY <1>6 DEF Severities, Low, Critical
<1>8. HasBoundaryEvidence(i) => exposed
  OBVIOUS
<1> HIDE DEF after, exposed
<1>9. after <= i.severity
  BY <1>2, <1>5, <1>6, <1>7 DEF Severities, Low, Critical
<1>10. isNeverDowngraded(i.kind) =>
         \/ after = i.severity
         \/ i.kind = "invalid_free" /\ i.severity = High /\ after = Medium
  BY <1>4, <1>5, <1>6, <1>7
<1>11. HasBoundaryEvidence(i) /\ surface # "runtime_internal" => after = i.severity
  BY <1>2, <1>5, <1>6, <1>7, <1>8
<1>12. QED
  BY <1>1, <1>7, <1>9, <1>10, <1>11

\* What an issue's severity is when the filter lets it pass.
Kept(i, surface, new) ==
  /\ new \in Severities /\ new <= i.severity
  /\ isNeverDowngraded(i.kind) =>
       \/ new = i.severity
       \/ i.kind = "invalid_free" /\ i.severity = High /\ new = Medium
  /\ HasBoundaryEvidence(i) /\ surface # "runtime_internal" => new + 1 >= i.severity

LEMMA RiskOfPassed ==
  ASSUME NEW i, NEW origin \in Origins, NEW c \in BOOLEAN, i.severity \in Severities
  PROVE  RiskLevel(i, origin, c) \in Severities
<1>1. getRiskLevel(origin, i.severity) \in Risks
  BY RiskType
<1>2. QED
  BY <1>1 DEF RiskLevel, Risks, Severities, Low, Critical

LEMMA FilterKeeps ==
  ASSUME NEW i, NEW origin \in Origins, NEW c \in BOOLEAN, NEW surface,
         i.severity \in Severities
  PROVE  Kept(i, surface, FinalSeverity(i, surface, RiskLevel(i, origin, c)))
<1> DEFINE after == applySurfaceDowngrade(i, surface)
           risk == RiskLevel(i, origin, c)
           new == FinalSeverity(i, surface, risk)
<1>1. risk \in Severities
  BY RiskOfPassed
<1>2. /\ after \in Severities /\ after <= i.severity
      /\ isNeverDowngraded(i.kind) =>
           \/ after = i.severity
           \/ i.kind = "invalid_free" /\ i.severity = High /\ after = Medium
      /\ HasBoundaryEvidence(i) /\ surface # "runtime_internal" => after = i.severity
  BY SurfaceBounds
<1> HIDE DEF after, risk
<1>3. StepDown(after, risk) \in Severities /\ StepDown(after, risk) <= after
        /\ after <= StepDown(after, risk) + 1
  BY <1>1, <1>2, StepDownBounds
<1>4. new = IF isNeverDowngraded(i.kind) THEN after ELSE StepDown(after, risk)
  BY DEF FinalSeverity, after
<1> HIDE DEF new
<1>5. /\ new \in Severities /\ new <= after /\ after <= new + 1
      /\ isNeverDowngraded(i.kind) => new = after
  BY <1>2, <1>3, <1>4 DEF Severities, Low, Critical
<1>6. new <= i.severity
  BY <1>2, <1>5 DEF Severities, Low, Critical
<1>7. HasBoundaryEvidence(i) /\ surface # "runtime_internal" => new + 1 >= i.severity
  BY <1>2, <1>5 DEF Severities, Low, Critical
<1>8. QED
  BY <1>2, <1>5, <1>6, <1>7 DEF Kept, new, risk

-----------------------------------------------------------------------------
(* The inductive invariant: the key of every issue in the graph is known,   *)
(* unless the issue is critical; a report with that key is then dropped.    *)

Entries == [issue : Everything, severity : Severities]

GraphTypes ==
  /\ issues \in Seq(Entries)
  /\ records \in Seq(LeakRecords)
  /\ pureC \in BOOLEAN

KeysRecorded ==
  \A k \in DOMAIN issues :
     issues[k].issue.severity # Critical => dedupKey(issues[k].issue) \in reported_keys

IInv == GraphTypes /\ KeysRecorded /\ OneReportPerKey /\ SeveritiesKept

\* Issues the passes and the leak report hand to addIssue.
LEMMA EverythingIsTyped ==
  ASSUME NEW i \in Everything
  PROVE  /\ i.severity \in Severities
         /\ i.func \in DOMAIN Functions
<1>1. CASE i \in Issues
  BY <1>1, IssuesAssumption DEF IsIssue
<1>2. CASE i \in {LeakIssue(r) : r \in LeakRecords}
  <2>1. PICK r \in LeakRecords : i = LeakIssue(r)
    BY <1>2
  <2>2. i.func = r.func /\ i.severity \in {Low, High}
    BY <2>1 DEF LeakIssue
  <2>3. r.func \in DOMAIN Functions
    BY RecordsAssumption DEF IsLeakRecord
  <2>4. QED
    BY <2>2, <2>3 DEF Severities, Low, High, Critical
<1>3. QED
  BY <1>1, <1>2 DEF Everything

\* Issues at the same place and of the same kind have the same key.
LEMMA SamePlaceSameKey ==
  ASSUME NEW i, NEW j, i.kind = j.kind, SamePlace(i, j)
  PROVE  dedupKey(i) = dedupKey(j)
BY DEF SamePlace, dedupKey

\* An appended sequence: its length, its last element and the others.
LEMMA Appended ==
  ASSUME NEW S, NEW s \in Seq(S), NEW e \in S
  PROVE  /\ Append(s, e) \in Seq(S)
         /\ DOMAIN s = 1 .. Len(s) /\ DOMAIN Append(s, e) = 1 .. (Len(s) + 1)
         /\ Len(s) \in Nat
         /\ Append(s, e)[Len(s) + 1] = e
         /\ \A k \in DOMAIN s : Append(s, e)[k] = s[k]
OBVIOUS

LEMMA AddIssueKeeps ==
  ASSUME IInv, NEW i \in Everything, addIssue(i), UNCHANGED <<pureC, surfaces>>
  PROVE  /\ issues' \in Seq(Entries)
         /\ KeysRecorded' /\ OneReportPerKey' /\ SeveritiesKept'
<1> DEFINE f == Functions[i.func]
           origin == Origin(f)
           surface == inferSemanticSurface(origin, f)
           new == FinalSeverity(i, surface, RiskLevel(i, origin, pureC))
           entry == [issue |-> i, severity |-> new]
<1>1. i.severity \in Severities /\ i.func \in DOMAIN Functions
  BY EverythingIsTyped
<1>2. IsFunction(f)
  BY <1>1, FunctionsAssumption
<1>3. origin \in {f.named, f.classified} /\ origin \in Origins
  BY <1>2 DEF IsFunction, Origin
<1>4. surface \in SurfacesOf(i)
  BY <1>3 DEF SurfacesOf
<1>5. Kept(i, surface, new)
  <2>1. pureC \in BOOLEAN
    BY DEF IInv, GraphTypes
  <2> HIDE DEF origin, surface, f
  <2>2. QED
    BY <1>1, <1>3, <2>1, FilterKeeps
<1>6. reported_keys \subseteq reported_keys'
  BY DEF addIssue, addToGraph, RecordKey
<1>7. CASE issues' = issues
  <2>1. issues' \in Seq(Entries)
    BY <1>7 DEF IInv, GraphTypes
  <2>2. KeysRecorded'
    BY <1>6, <1>7 DEF IInv, KeysRecorded
  <2>3. OneReportPerKey'
    BY <1>7 DEF IInv, OneReportPerKey
  <2>4. SeveritiesKept'
    BY <1>7 DEF IInv, SeveritiesKept
  <2>5. QED
    BY <2>1, <2>2, <2>3, <2>4
<1>8. CASE issues' # issues
  <2>1. /\ issues' = Append(issues, entry)
        /\ ~ IsDuplicate(i)
        /\ i.severity # Critical => dedupKey(i) \in reported_keys'
    BY <1>8 DEF addIssue, addToGraph, RecordKey
  <2>2. entry \in Entries
    BY <1>5 DEF Kept, Entries
  <2>3. issues \in Seq(Entries)
    BY DEF IInv, GraphTypes
  <2> HIDE DEF entry
  <2>4. /\ issues' \in Seq(Entries)
        /\ DOMAIN issues = 1 .. Len(issues) /\ DOMAIN issues' = 1 .. (Len(issues) + 1)
        /\ Len(issues) \in Nat
        /\ issues'[Len(issues) + 1] = entry
        /\ \A k \in DOMAIN issues : issues'[k] = issues[k]
    <3>1. /\ Append(issues, entry) \in Seq(Entries)
          /\ DOMAIN issues = 1 .. Len(issues)
          /\ DOMAIN Append(issues, entry) = 1 .. (Len(issues) + 1)
          /\ Len(issues) \in Nat
          /\ Append(issues, entry)[Len(issues) + 1] = entry
          /\ \A k \in DOMAIN issues : Append(issues, entry)[k] = issues[k]
      BY <2>2, <2>3, Appended
    <3>2. QED
      BY <2>1, <3>1
  <2>5. entry.issue = i /\ entry.severity = new
    BY DEF entry
  <2>6. ASSUME NEW k \in DOMAIN issues'
        PROVE  \/ k \in DOMAIN issues /\ issues'[k] = issues[k]
               \/ k = Len(issues) + 1 /\ issues'[k] = entry
    <3>1. k \in 1 .. (Len(issues) + 1)
      BY <2>4
    <3>2. k \in 1 .. Len(issues) \/ k = Len(issues) + 1
      BY <2>4, <3>1
    <3>3. QED
      BY <2>4, <3>2
  <2>7. KeysRecorded'
    BY <1>6, <2>1, <2>5, <2>6 DEF IInv, KeysRecorded
  <2>8. OneReportPerKey'
    <3> SUFFICES ASSUME NEW k \in DOMAIN issues', NEW l \in DOMAIN issues', k < l,
                        issues'[k].issue.kind = issues'[l].issue.kind,
                        SamePlace(issues'[k].issue, issues'[l].issue)
                 PROVE  Critical \in {issues'[k].issue.severity, issues'[l].issue.severity}
      BY DEF OneReportPerKey
    <3>1. CASE l \in DOMAIN issues
      <4>1. k \in DOMAIN issues
        BY <2>4, <3>1
      <4>2. QED
        BY <2>4, <3>1, <4>1 DEF IInv, OneReportPerKey
    <3>2. CASE l = Len(issues) + 1
      <4>1. k \in DOMAIN issues
        BY <2>4, <3>2
      <4>2. issues'[l].issue = i /\ issues'[k] = issues[k]
        BY <2>4, <2>5, <3>2, <4>1
      <4>3. dedupKey(issues[k].issue) = dedupKey(i)
        BY <4>2, SamePlaceSameKey
      <4>4. CASE issues[k].issue.severity # Critical
        <5>1. dedupKey(i) \in reported_keys
          BY <4>1, <4>3, <4>4 DEF IInv, KeysRecorded
        <5>2. QED
          BY <2>1, <4>2, <5>1 DEF IsDuplicate
      <4>5. CASE issues[k].issue.severity = Critical
        BY <4>2, <4>5
      <4>6. QED
        BY <4>4, <4>5
    <3>3. QED
      BY <2>6, <3>1, <3>2
  <2>9. SeveritiesKept'
    <3>1. SeverityKept(i, new)
      BY <1>4, <1>5 DEF Kept, SeverityKept
    <3>2. ASSUME NEW k \in DOMAIN issues'
          PROVE  SeverityKept(issues'[k].issue, issues'[k].severity)
      <4>1. CASE k \in DOMAIN issues /\ issues'[k] = issues[k]
        BY <4>1 DEF IInv, SeveritiesKept
      <4>2. CASE issues'[k] = entry
        BY <2>5, <3>1, <4>2
      <4>3. QED
        BY <2>6, <4>1, <4>2
    <3>3. QED
      BY <3>2 DEF SeveritiesKept
  <2>10. QED
    BY <2>4, <2>7, <2>8, <2>9
<1>9. QED
  BY <1>7, <1>8

LEMMA InitImpliesInv == Init => IInv
<1> SUFFICES ASSUME Init PROVE IInv
  OBVIOUS
<1>1. issues = <<>> /\ pureC \in BOOLEAN
  BY DEF Init
<1>2. records \in Seq(LeakRecords)
  <2>1. PICK len \in 0 .. MaxRecords : records \in [1 .. len -> LeakRecords]
    BY DEF Init
  <2>2. len \in Nat
    BY <2>1, PipelineBounds
  <2>3. QED
    BY <2>1, <2>2
<1>3. issues \in Seq(Entries) /\ DOMAIN issues = {}
  BY <1>1
<1>4. QED
  BY <1>1, <1>2, <1>3 DEF IInv, GraphTypes, KeysRecorded, OneReportPerKey, SeveritiesKept

\* The steps that do not call addIssue.
LEMMA OthersKeep ==
  ASSUME IInv, UNCHANGED <<issues, pureC>>, records' \in Seq(LeakRecords),
         reported_keys \subseteq reported_keys'
  PROVE  IInv'
<1>1. GraphTypes'
  BY DEF IInv, GraphTypes
<1>2. KeysRecorded'
  BY DEF IInv, KeysRecorded
<1>3. OneReportPerKey' /\ SeveritiesKept'
  BY DEF IInv, OneReportPerKey, SeveritiesKept
<1>4. QED
  BY <1>1, <1>2, <1>3 DEF IInv

LEMMA NextKeepsInv == IInv /\ [Next]_vars => IInv'
<1> SUFFICES ASSUME IInv, [Next]_vars PROVE IInv'
  OBVIOUS
<1>1. issues \in Seq(Entries) /\ records \in Seq(LeakRecords)
  BY DEF IInv, GraphTypes
<1>2. ASSUME NEW i \in Issues, Report(i) PROVE IInv'
  <2>1. i \in Everything
    BY DEF Everything
  <2>2. UNCHANGED <<pureC, surfaces, records>>
    BY <1>2 DEF Report
  <2>3. CASE addIssue(i)
    <3>1. issues' \in Seq(Entries) /\ KeysRecorded' /\ OneReportPerKey' /\ SeveritiesKept'
      BY <2>1, <2>2, <2>3, AddIssueKeeps
    <3>2. records' \in Seq(LeakRecords) /\ pureC' \in BOOLEAN
      BY <2>2 DEF IInv, GraphTypes
    <3>3. QED
      BY <3>1, <3>2 DEF IInv, GraphTypes
  <2>4. CASE addIssueFails(i)
    <3>1. UNCHANGED issues /\ reported_keys \subseteq reported_keys'
      BY <2>4 DEF addIssueFails, RecordKey
    <3>2. QED
      BY <1>1, <2>2, <3>1, OthersKeep
  <2>5. QED
    BY <1>2, <2>3, <2>4 DEF Report
<1>3. ASSUME ReportLeak PROVE IInv'
  <2> DEFINE r == Head(records)
  <2>1. records # <<>> /\ records' = Tail(records) /\ UNCHANGED <<pureC, surfaces>>
    BY <1>3 DEF ReportLeak
  <2>2. r \in LeakRecords /\ records' \in Seq(LeakRecords)
    BY <1>1, <2>1
  <2>3. LeakIssue(r) \in Everything
    BY <2>2 DEF Everything
  <2>4. CASE addIssue(LeakIssue(r))
    <3>1. issues' \in Seq(Entries) /\ KeysRecorded' /\ OneReportPerKey' /\ SeveritiesKept'
      BY <2>1, <2>3, <2>4, AddIssueKeeps
    <3>2. pureC' \in BOOLEAN
      BY <2>1 DEF IInv, GraphTypes
    <3>3. QED
      BY <2>2, <3>1, <3>2 DEF IInv, GraphTypes
  <2>5. CASE addIssueFails(LeakIssue(r))
    <3>1. UNCHANGED issues /\ reported_keys \subseteq reported_keys'
      BY <2>5 DEF addIssueFails, RecordKey
    <3>2. QED
      BY <2>1, <2>2, <3>1, OthersKeep
  <2>6. QED
    BY <1>3, <2>4, <2>5 DEF ReportLeak
<1>4. ASSUME NotALeak PROVE IInv'
  <2>1. records # <<>> /\ records' = Tail(records) /\ UNCHANGED <<pureC, issues, reported_keys>>
    BY <1>4 DEF NotALeak, filterVars
  <2>2. records' \in Seq(LeakRecords)
    BY <1>1, <2>1
  <2>3. QED
    BY <2>1, <2>2, OthersKeep
<1>5. ASSUME UNCHANGED <<pureC, records>>, UNCHANGED filterVars PROVE IInv'
  BY <1>1, <1>5, OthersKeep DEF filterVars
<1>6. ClassifySurfaces => IInv'
  BY <1>5 DEF ClassifySurfaces
<1>7. PassesEnd => IInv'
  BY <1>5 DEF PassesEnd
<1>8. LeaksEnd => IInv'
  BY <1>5 DEF LeaksEnd
<1>9. Aggregate => IInv'
  BY <1>5 DEF Aggregate
<1>10. Flush => IInv'
  BY <1>5 DEF Flush
<1>11. Rebuild => IInv'
  BY <1>5 DEF Rebuild
<1>12. OutOfMemory => IInv'
  BY <1>5 DEF OutOfMemory
<1>13. UNCHANGED vars => IInv'
  BY <1>5 DEF vars, filterVars
<1>14. QED
  BY <1>2, <1>3, <1>4, <1>6, <1>7, <1>8, <1>9, <1>10, <1>11, <1>12, <1>13
     DEF Next, Stopped

LEMMA InvHolds == Spec => []IInv
BY InitImpliesInv, NextKeepsInv, PTL DEF Spec

-----------------------------------------------------------------------------
(* PassContext.addIssue keeps one report of a defect that is not critical,   *)
(* for any issues in any order, surfaces classified at any moment and any    *)
(* allocation failing.                                                       *)
THEOREM DefectsEnterOnce == Spec => []OneReportPerKey
<1>1. IInv => OneReportPerKey
  BY DEF IInv
<1>2. QED
  BY InvHolds, <1>1, PTL

(* The layers of the FilterContext, one after the other, keep the severities *)
(* they promise to keep, for any function, issue and classification.         *)
THEOREM FilterKeepsSeverities == Spec => []SeveritiesKept
<1>1. IInv => SeveritiesKept
  BY DEF IInv
<1>2. QED
  BY InvHolds, <1>1, PTL

-----------------------------------------------------------------------------
(* What the steps after the passes need of one another: the invariants of   *)
(* the deduplication.                                                        *)

\* The bounds, and the phases that have not begun yet.
PhaseInv ==
  /\ phase \in {"passes", "leaks", "aggregate", "rebuild", "returned", "failed"}
  /\ phase \in {"passes", "leaks"} =>
       /\ indices = <<>> /\ seen_keys = {} /\ next = 1
  /\ phase \in {"passes", "leaks", "aggregate"} => diagnostics = <<>>
  /\ phase # "returned" => result = <<>>
  /\ phase = "rebuild" => next > Len(issues)
  /\ phase = "returned" =>
       next > Len(issues) \/ (next = 1 /\ indices = <<>> /\ result = <<>>)

\* What addIssue has dealt with, and what it knows the key of.
GraphInv ==
  /\ submitted \subseteq Everything /\ reports \in 0 .. MaxReports
  /\ Len(records) <= MaxRecords
  /\ surfaces \in BOOLEAN /\ outOfMemory \in BOOLEAN

\* The key of an issue that is never suppressed is known only because there is
\* an issue with it in the graph, as long as nothing failed.
InGraph(key) == \E k \in DOMAIN issues : dedupKey(issues[k].issue) = key
KeysInGraph ==
  ~ outOfMemory =>
    \A i \in Everything :
      isNeverSuppressed(i.kind) /\ dedupKey(i) \in reported_keys => InGraph(dedupKey(i))

\* The aggregator has kept one issue for each key it has seen.
Key(k) == AggregatorKey(issues[k].issue)
Seen(key) == \E p \in DOMAIN indices : Key(indices[p]) = key
AggregateInv ==
  /\ indices \in Seq(Nat \ {0}) /\ Len(indices) < next
  /\ next \in 1 .. Len(issues) + 1
  /\ \A p \in DOMAIN indices : indices[p] < next
  /\ \A k \in DOMAIN issues : k < next => Seen(Key(k))
  /\ \A key \in seen_keys : Seen(key)

\* What flush made and the pipeline looked up.
Flushed ==
  \E emitted \in Bijection(1 .. Cardinality(Emitted), Emitted) :
    diagnostics = [k \in DOMAIN emitted |-> Diagnostic(emitted[k])]
Rebuilt == result = [k \in DOMAIN diagnostics |-> Found(diagnostics[k])]
DiagnosticsInv ==
  /\ phase = "rebuild" => Flushed
  /\ phase = "returned" => (Flushed /\ Rebuilt) \/ (next = 1 /\ result = <<>>)

PipelineInv ==
  /\ PhaseInv /\ GraphInv /\ KeysInGraph /\ AggregateInv /\ DiagnosticsInv
  /\ NeverSuppressedReachGraph

-----------------------------------------------------------------------------
(* What reaches the graph.                                                   *)

\* The positions of an issue.
LEMMA Positions ==
  ASSUME NEW i \in Everything
  PROVE  i.line \in Nat /\ i.column \in Nat
<1>1. CASE i \in Issues
  BY <1>1, IssuesAssumption DEF IsIssue
<1>2. CASE \E r \in LeakRecords : i = LeakIssue(r)
  <2>1. PICK r \in LeakRecords : i = LeakIssue(r)
    BY <1>2
  <2>2. i.line = 0 /\ i.column = 0
    BY <2>1 DEF LeakIssue
  <2> QED
    BY <2>2
<1> QED
  BY <1>1, <1>2 DEF Everything

\* A sequence begun with two or three values.
LEMMA Prefix ==
  ASSUME NEW a, NEW b, NEW c, NEW s \in Seq(Nat), NEW t \in Seq(Nat)
  PROVE  /\ ((<<a, b, c>> \o s) \o t)[2] = b
         /\ (<<a, b, c>> \o s)[2] = b
         /\ Len(<<a, b, c>> \o s) = 3 + Len(s)
         /\ \A k \in 1 .. Len(s) : (<<a, b, c>> \o s)[3 + k] = s[k]
<1> DEFINE T == {a, b, c} \cup Nat
           h == <<a, b, c>>
<1>1. h \in Seq(T) /\ Len(h) = 3 /\ h[2] = b
  OBVIOUS
<1>2. s \in Seq(T) /\ t \in Seq(T) /\ Len(s) \in Nat /\ Len(t) \in Nat
  OBVIOUS
<1> HIDE DEF h, T
<1>3. /\ h \o s \in Seq(T) /\ Len(h \o s) = Len(h) + Len(s)
      /\ \A k \in 1 .. Len(h) + Len(s) :
           (h \o s)[k] = IF k <= Len(h) THEN h[k] ELSE s[k - Len(h)]
  BY <1>1, <1>2, ConcatProperties
<1>4. (h \o s)[2] = b
  BY <1>1, <1>2, <1>3
<1>5. \A k \in 1 .. Len(s) : (h \o s)[3 + k] = s[k]
  <2> TAKE k \in 1 .. Len(s)
  <2>1. k \in Nat /\ 3 + k \in 1 .. Len(h) + Len(s) /\ ~ (3 + k <= Len(h))
        /\ (3 + k) - Len(h) = k
    BY <1>1, <1>2, <1>3
  <2> QED
    BY <1>3, <2>1
<1>6. ((h \o s) \o t)[2] = b
  <2> DEFINE g == h \o s
  <2>1. g \in Seq(T) /\ Len(g) = 3 + Len(s) /\ g[2] = b
    BY <1>1, <1>3, <1>4
  <2> HIDE DEF g
  <2>2. \A k \in 1 .. Len(g) + Len(t) :
           (g \o t)[k] = IF k <= Len(g) THEN g[k] ELSE t[k - Len(g)]
    BY <1>2, <2>1, ConcatProperties
  <2>3. (g \o t)[2] = b
    BY <1>2, <2>1, <2>2
  <2> QED
    BY <2>3 DEF g
<1> QED
  BY <1>1, <1>3, <1>4, <1>5, <1>6 DEF h

\* What equal keys tell.
LEMMA KeysTell ==
  ASSUME NEW i \in Everything, NEW j \in Everything
  PROVE  /\ dedupKey(i) = dedupKey(j) => i.kind = j.kind
         /\ AggregatorKey(i) = AggregatorKey(j) => i.kind = j.kind /\ i.line = j.line
<1>1. \A n \in Nat : Positive(n) \in Seq(Nat)
  BY DEF Positive
<1>2. /\ Positive(i.line) \in Seq(Nat) /\ Positive(i.column) \in Seq(Nat)
      /\ Positive(j.line) \in Seq(Nat) /\ Positive(j.column) \in Seq(Nat)
  BY <1>1, Positions
<1>3. dedupKey(i)[2] = i.kind /\ dedupKey(j)[2] = j.kind
  BY <1>2, Prefix DEF dedupKey
<1>4. /\ AggregatorKey(i)[2] = i.kind /\ AggregatorKey(j)[2] = j.kind
      /\ Len(AggregatorKey(i)) = 3 + Len(Positive(i.line))
      /\ Len(AggregatorKey(j)) = 3 + Len(Positive(j.line))
      /\ \A k \in 1 .. Len(Positive(i.line)) : AggregatorKey(i)[3 + k] = Positive(i.line)[k]
      /\ \A k \in 1 .. Len(Positive(j.line)) : AggregatorKey(j)[3 + k] = Positive(j.line)[k]
  BY <1>2, Prefix DEF AggregatorKey
<1>5. ASSUME AggregatorKey(i) = AggregatorKey(j) PROVE i.line = j.line
  <2>1. Len(Positive(i.line)) = Len(Positive(j.line))
    BY <1>2, <1>4, <1>5
  <2>2. CASE i.line > 0
    <3>1. Positive(i.line) = <<i.line>> /\ Len(Positive(i.line)) = 1
      BY <2>2 DEF Positive
    <3>2. Positive(j.line) = <<j.line>>
      BY <2>1, <3>1 DEF Positive
    <3>3. Len(Positive(j.line)) = 1 /\ 1 \in 1 .. 1
      BY <2>1, <3>1
    <3>4. /\ AggregatorKey(i)[3 + 1] = Positive(i.line)[1]
          /\ AggregatorKey(j)[3 + 1] = Positive(j.line)[1]
      BY <1>4, <3>1, <3>3
    <3>5. Positive(i.line)[1] = i.line /\ Positive(j.line)[1] = j.line
      BY <3>1, <3>2
    <3> QED
      BY <1>5, <3>4, <3>5
  <2>3. CASE ~ (i.line > 0)
    <3>1. Len(Positive(i.line)) = 0
      BY <2>3 DEF Positive
    <3>2. ~ (j.line > 0)
      BY <2>1, <3>1 DEF Positive
    <3> QED
      BY <2>3, <3>2, Positions
  <2> QED
    BY <2>2, <2>3
<1> QED
  BY <1>3, <1>4, <1>5

\* An issue that is never suppressed, or critical, is not dropped by the filter.
LEMMA NotSuppressed ==
  ASSUME NEW i, NEW origin, NEW c, isNeverSuppressed(i.kind) \/ i.severity = Critical
  PROVE  ~ Suppressed(i, origin, c)
BY DEF Suppressed, Protected

\* addIssue keeps what the graph promises.
LEMMA AddIssueReaches ==
  ASSUME IInv, GraphInv, KeysInGraph, NeverSuppressedReachGraph,
         NEW i \in Everything, addIssue(i), outOfMemory' = outOfMemory
  PROVE  KeysInGraph' /\ NeverSuppressedReachGraph' /\ submitted' \subseteq Everything
<1>1. issues \in Seq(Entries)
  BY DEF IInv, GraphTypes
<1>2. submitted' = submitted \cup {i}
  BY DEF addIssue
<1> DEFINE dropped == IsDuplicate(i) \/ Suppressed(i, Origin(Functions[i.func]), pureC)
<1>3. CASE shouldSuppress(i, Functions[i.func]) /\ UNCHANGED <<reported_keys, issues>>
  <2>1. KeysInGraph'
    BY <1>3 DEF KeysInGraph, InGraph
  <2>2. NeverSuppressedReachGraph'
    BY <1>2, <1>3 DEF NeverSuppressedReachGraph
  <2> QED
    BY <1>2, <2>1, <2>2 DEF GraphInv
<1>4. CASE /\ ~ shouldSuppress(i, Functions[i.func]) /\ RecordKey(i)
           /\ dropped /\ UNCHANGED issues
  <2>1. isNeverSuppressed(i.kind) \/ i.severity = Critical => IsDuplicate(i)
    BY <1>4, NotSuppressed
  <2>2. i.severity # Critical
    BY <2>1 DEF IsDuplicate
  <2>3. reported_keys' = reported_keys \cup {dedupKey(i)}
    BY <1>4, <2>2 DEF RecordKey
  <2>4. isNeverSuppressed(i.kind) => dedupKey(i) \in reported_keys
    BY <2>1 DEF IsDuplicate
  <2>5. \A j \in Everything : isNeverSuppressed(j.kind) /\ dedupKey(j) \in reported_keys'
                                => dedupKey(j) \in reported_keys
    BY <2>3, <2>4, KeysTell
  <2>6. KeysInGraph'
    BY <1>4, <2>5 DEF KeysInGraph, InGraph
  <2>7. NeverSuppressedReachGraph'
    <3>1. ~ outOfMemory /\ isNeverSuppressed(i.kind) => InGraph(dedupKey(i))
      BY <2>4 DEF KeysInGraph
    <3> QED
      BY <1>2, <1>4, <2>2, <3>1 DEF NeverSuppressedReachGraph, InGraph
  <2> QED
    BY <1>2, <2>6, <2>7 DEF GraphInv
<1>5. CASE /\ ~ shouldSuppress(i, Functions[i.func]) /\ RecordKey(i)
           /\ \E severity : addToGraph(i, severity)
  <2>1. PICK entry : issues' = Append(issues, entry) /\ entry.issue = i
    BY <1>5 DEF addToGraph
  <2>2. /\ DOMAIN issues \subseteq DOMAIN issues'
        /\ \A k \in DOMAIN issues : issues'[k] = issues[k]
        /\ Len(issues) + 1 \in DOMAIN issues' /\ issues'[Len(issues) + 1] = entry
    BY <1>1, <2>1
  <2>3. \A key : InGraph(key) => InGraph(key)'
    BY <2>2 DEF InGraph
  <2>4. InGraph(dedupKey(i))'
    BY <2>1, <2>2 DEF InGraph
  <2>5. \A j \in Everything : dedupKey(j) \in reported_keys' =>
           dedupKey(j) \in reported_keys \/ dedupKey(j) = dedupKey(i)
    BY <1>5 DEF RecordKey
  <2>6. KeysInGraph'
    BY <2>3, <2>4, <2>5 DEF KeysInGraph
  <2>7. \E k \in DOMAIN issues' : issues'[k].issue = i
    BY <2>1, <2>2
  <2>8. NeverSuppressedReachGraph'
    <3> SUFFICES ASSUME ~ outOfMemory, NEW j \in submitted',
                        ~ shouldSuppress(j, Functions[j.func])
                 PROVE  /\ isNeverSuppressed(j.kind) => InGraph(dedupKey(j))'
                        /\ j.severity = Critical => \E k \in DOMAIN issues' : issues'[k].issue = j
      BY DEF NeverSuppressedReachGraph, InGraph
    <3>1. CASE j = i
      BY <2>4, <2>7, <3>1
    <3>2. CASE j \in submitted
      <4>1. /\ isNeverSuppressed(j.kind) => InGraph(dedupKey(j))
            /\ j.severity = Critical => \E k \in DOMAIN issues : issues[k].issue = j
        BY <3>2 DEF NeverSuppressedReachGraph, InGraph
      <4> QED
        BY <2>2, <2>3, <4>1
    <3> QED
      BY <1>2, <3>1, <3>2
  <2> QED
    BY <1>2, <2>6, <2>8 DEF GraphInv
<1> QED
  BY <1>3, <1>4, <1>5 DEF addIssue

\* Every step keeps the bounds of the graph's side, and what reaches the graph.
LEMMA ReachStep ==
  ASSUME IInv, GraphInv, KeysInGraph, NeverSuppressedReachGraph, [Next]_vars
  PROVE  GraphInv' /\ KeysInGraph' /\ NeverSuppressedReachGraph'
<1>1. records \in Seq(LeakRecords) /\ MaxReports \in Nat /\ MaxRecords \in Nat
  BY PipelineBounds DEF IInv, GraphTypes
<1>2. ASSUME UNCHANGED <<submitted, reports, records, issues, reported_keys>>,
             surfaces' \in BOOLEAN, outOfMemory' = TRUE \/ outOfMemory' = outOfMemory
      PROVE  GraphInv' /\ KeysInGraph' /\ NeverSuppressedReachGraph'
  <2>1. GraphInv'
    BY <1>2 DEF GraphInv
  <2>2. \A key : InGraph(key)' <=> InGraph(key)
    BY <1>2 DEF InGraph
  <2>3. KeysInGraph'
    BY <1>2, <2>2 DEF KeysInGraph
  <2>4. NeverSuppressedReachGraph'
    BY <1>2 DEF NeverSuppressedReachGraph
  <2> QED
    BY <2>1, <2>3, <2>4
<1>3. ASSUME NEW i \in Everything, (addIssue(i) /\ UNCHANGED outOfMemory) \/ addIssueFails(i)
      PROVE  /\ KeysInGraph' /\ NeverSuppressedReachGraph'
             /\ submitted' \subseteq Everything /\ outOfMemory' \in BOOLEAN
  <2>1. CASE addIssue(i) /\ UNCHANGED outOfMemory
    BY <2>1, AddIssueReaches DEF GraphInv
  <2>2. CASE addIssueFails(i)
    BY <2>2 DEF addIssueFails, KeysInGraph, NeverSuppressedReachGraph, GraphInv
  <2> QED
    BY <1>3, <2>1, <2>2
<1>4. CASE \E i \in Issues : Report(i)
  <2>1. PICK i \in Issues : Report(i)
    BY <1>4
  <2>2. i \in Everything /\ ((addIssue(i) /\ UNCHANGED outOfMemory) \/ addIssueFails(i))
    BY <2>1 DEF Report, Everything
  <2>3. /\ KeysInGraph' /\ NeverSuppressedReachGraph'
        /\ submitted' \subseteq Everything /\ outOfMemory' \in BOOLEAN
    BY <1>3, <2>2
  <2>4. reports' \in 0 .. MaxReports /\ records' = records /\ surfaces' = surfaces
    BY <1>1, <2>1 DEF Report, GraphInv
  <2> QED
    BY <2>3, <2>4 DEF GraphInv
<1>5. CASE ReportLeak
  <2> DEFINE i == LeakIssue(Head(records))
  <2>1. records # <<>> /\ records' = Tail(records) /\ UNCHANGED <<reports, surfaces>>
    BY <1>5 DEF ReportLeak
  <2>2. Head(records) \in LeakRecords /\ Len(records') <= Len(records)
    BY <1>1, <2>1
  <2>3. i \in Everything /\ ((addIssue(i) /\ UNCHANGED outOfMemory) \/ addIssueFails(i))
    BY <1>5, <2>2 DEF ReportLeak, Everything
  <2>4. /\ KeysInGraph' /\ NeverSuppressedReachGraph'
        /\ submitted' \subseteq Everything /\ outOfMemory' \in BOOLEAN
    BY <1>3, <2>3
  <2>5. Len(records') <= MaxRecords
    BY <1>1, <2>1, <2>2 DEF GraphInv
  <2> QED
    BY <2>1, <2>4, <2>5 DEF GraphInv
<1>6. CASE NotALeak
  <2>1. /\ records # <<>> /\ records' = Tail(records)
        /\ UNCHANGED <<submitted, reports, surfaces, outOfMemory, issues, reported_keys>>
    BY <1>6 DEF NotALeak, filterVars
  <2>2. Len(records') <= MaxRecords
    BY <1>1, <2>1 DEF GraphInv
  <2>3. GraphInv'
    BY <2>1, <2>2 DEF GraphInv
  <2>4. KeysInGraph' /\ NeverSuppressedReachGraph'
    BY <2>1 DEF KeysInGraph, InGraph, NeverSuppressedReachGraph
  <2> QED
    BY <2>3, <2>4
<1>7. CASE \/ ClassifySurfaces \/ PassesEnd \/ LeaksEnd \/ Aggregate \/ Flush \/ Rebuild
           \/ OutOfMemory \/ UNCHANGED vars
  <2>1. /\ UNCHANGED <<submitted, reports, records, issues, reported_keys>>
        /\ surfaces' \in {TRUE, surfaces}
        /\ outOfMemory' = TRUE \/ outOfMemory' = outOfMemory
    BY <1>7 DEF ClassifySurfaces, PassesEnd, LeaksEnd, Aggregate, Flush, Rebuild,
                OutOfMemory, vars, filterVars
  <2> QED
    BY <1>2, <2>1 DEF GraphInv
<1> QED
  BY <1>4, <1>5, <1>6, <1>7 DEF Next, Stopped

-----------------------------------------------------------------------------
(* Deduplication and folding.                                                *)

\* The variables of the deduplication have not been used before it begins.
LEMMA BeforeDedup ==
  ASSUME (\E i \in Issues : Report(i)) \/ ReportLeak
  PROVE  /\ phase \in {"passes", "leaks"} /\ phase' \in {phase, "failed"}
         /\ UNCHANGED <<seen_keys, indices, next, diagnostics, result>>
BY DEF Report, ReportLeak, dedupVars

\* The graph is not touched by the other steps.
LEMMA GraphStays ==
  ASSUME [Next]_vars, ~ \E i \in Issues : Report(i), ~ ReportLeak
  PROVE  issues' = issues
BY DEF Next, ClassifySurfaces, PassesEnd, NotALeak, LeaksEnd, Aggregate, Flush, Rebuild,
       OutOfMemory, Stopped, vars, filterVars

\* Every step keeps PhaseInv.
LEMMA PhaseStep ==
  ASSUME IInv, PhaseInv, [Next]_vars
  PROVE  PhaseInv'
<1>1. CASE (\E i \in Issues : Report(i)) \/ ReportLeak
  BY <1>1, BeforeDedup DEF PhaseInv
<1>2. CASE ClassifySurfaces \/ PassesEnd \/ NotALeak \/ LeaksEnd
  <2>1. /\ phase \in {"passes", "leaks"} /\ phase' \in {phase, "leaks", "returned", "aggregate"}
        /\ UNCHANGED <<seen_keys, indices, next, diagnostics, result, issues>>
    BY <1>2 DEF ClassifySurfaces, PassesEnd, NotALeak, LeaksEnd, dedupVars, filterVars
  <2> QED
    BY <2>1 DEF PhaseInv
<1>3. CASE Aggregate
  BY <1>3 DEF Aggregate, PhaseInv
<1>4. CASE Flush
  <2>1. /\ phase' = "rebuild" /\ next > Len(issues)
        /\ UNCHANGED <<next, issues, result>> /\ phase = "aggregate"
    BY <1>4 DEF Flush, filterVars
  <2> QED
    BY <2>1 DEF PhaseInv
<1>5. CASE Rebuild
  <2>1. phase' = "returned" /\ phase = "rebuild" /\ UNCHANGED <<next, issues>>
    BY <1>5 DEF Rebuild, filterVars
  <2> QED
    BY <2>1 DEF PhaseInv
<1>6. CASE OutOfMemory
  BY <1>6 DEF OutOfMemory, PhaseInv, dedupVars
<1>7. CASE UNCHANGED vars
  BY <1>7 DEF vars, PhaseInv
<1> QED
  BY <1>1, <1>2, <1>3, <1>4, <1>5, <1>6, <1>7 DEF Next, Stopped

\* Every step keeps AggregateInv.
LEMMA AggregateStep ==
  ASSUME IInv, IInv', PhaseInv, AggregateInv, [Next]_vars
  PROVE  AggregateInv'
<1>1. issues \in Seq(Entries) /\ issues' \in Seq(Entries)
  BY DEF IInv, GraphTypes
<1>2. Len(issues) \in Nat /\ Len(issues') \in Nat /\ DOMAIN issues = 1 .. Len(issues)
  BY <1>1
<1>3. CASE (\E i \in Issues : Report(i)) \/ ReportLeak
  <2>1. indices' = <<>> /\ next' = 1 /\ seen_keys' = {}
    BY <1>3, BeforeDedup DEF PhaseInv
  <2> QED
    BY <1>1, <1>2, <2>1 DEF AggregateInv
<1>4. CASE Aggregate
  <2>1. /\ next <= Len(issues) /\ next' = next + 1 /\ issues' = issues
        /\ next \in Nat \ {0} /\ indices \in Seq(Nat \ {0})
    BY <1>2, <1>4 DEF Aggregate, filterVars, AggregateInv
  <2>2. next' \in 1 .. Len(issues') + 1
    BY <1>2, <2>1
  <2>3. \A k : Key(k)' = Key(k)
    BY <2>1 DEF Key
  <2>4. \A k \in DOMAIN issues : k < next' => k < next \/ k = next
    BY <1>2, <2>1
  <2>5. SUFFICES /\ indices' \in Seq(Nat \ {0}) /\ Len(indices') < next'
                 /\ \A p \in DOMAIN indices' : indices'[p] < next'
                 /\ \A key : Seen(key) \/ key = Key(next) => Seen(key)'
                 /\ \A key \in seen_keys' : Seen(key) \/ key = Key(next)
    BY <2>1, <2>2, <2>3, <2>4 DEF AggregateInv
  <2>6. CASE Key(next) \in seen_keys /\ UNCHANGED <<seen_keys, indices>>
    <3>1. Seen(Key(next))
      BY <2>6 DEF AggregateInv
    <3>2. \A key : Seen(key) => Seen(key)'
      BY <2>1, <2>6 DEF Seen, Key
    <3>3. Len(indices') < next' /\ \A p \in DOMAIN indices' : indices'[p] < next'
      BY <2>1, <2>6 DEF AggregateInv
    <3> QED
      BY <2>1, <2>6, <3>1, <3>2, <3>3 DEF AggregateInv
  <2>7. CASE seen_keys' = seen_keys \cup {Key(next)} /\ indices' = Append(indices, next)
    <3>1. /\ indices' \in Seq(Nat \ {0}) /\ Len(indices') = Len(indices) + 1
          /\ DOMAIN indices = 1 .. Len(indices) /\ DOMAIN indices' = 1 .. (Len(indices) + 1)
          /\ Len(indices) \in Nat /\ indices'[Len(indices) + 1] = next
          /\ \A p \in DOMAIN indices : indices'[p] = indices[p]
      BY <2>1, <2>7
    <3>2. DOMAIN indices \subseteq DOMAIN indices' /\ Len(indices) + 1 \in DOMAIN indices'
      BY <3>1
    <3>3. Len(indices') < next'
      BY <2>1, <3>1 DEF AggregateInv
    <3>4. ASSUME NEW p \in DOMAIN indices' PROVE indices'[p] < next'
      <4>1. CASE p = Len(indices) + 1
        BY <2>1, <3>1, <4>1
      <4>2. CASE p \in DOMAIN indices
        <5>1. indices[p] \in Nat /\ indices[p] < next
          BY <2>1, <4>2 DEF AggregateInv
        <5> QED
          BY <2>1, <3>1, <4>2, <5>1
      <4> QED
        BY <3>1, <4>1, <4>2
    <3>5. \A p : Key(indices[p])' = AggregatorKey(issues[indices'[p]].issue)
      BY <2>1 DEF Key
    <3>6. ASSUME NEW key, Seen(key) PROVE Seen(key)'
      <4>1. PICK p \in DOMAIN indices : Key(indices[p]) = key
        BY <3>6 DEF Seen
      <4>2. p \in DOMAIN indices' /\ Key(indices[p])' = key
        BY <3>1, <3>2, <3>5, <4>1 DEF Key
      <4> QED
        BY <4>2 DEF Seen
    <3>7. ASSUME NEW key, key = Key(next) PROVE Seen(key)'
      <4>1. PICK p \in DOMAIN indices' : indices'[p] = next
        BY <3>1, <3>2
      <4>2. Key(indices[p])' = key
        BY <3>5, <3>7, <4>1 DEF Key
      <4> QED
        BY <4>1, <4>2 DEF Seen
    <3> QED
      BY <2>7, <3>1, <3>3, <3>4, <3>6, <3>7 DEF AggregateInv
  <2> QED
    BY <1>4, <2>6, <2>7 DEF Aggregate, Keep, Key
<1>5. CASE ~ Aggregate /\ ~ ((\E i \in Issues : Report(i)) \/ ReportLeak)
  <2>1. UNCHANGED <<issues, indices, next, seen_keys>>
    BY <1>5, GraphStays
       DEF Next, ClassifySurfaces, PassesEnd, NotALeak, LeaksEnd, Flush, Rebuild,
           OutOfMemory, Stopped, vars, dedupVars
  <2> QED
    BY <2>1 DEF AggregateInv, Seen, Key
<1> QED
  BY <1>3, <1>4, <1>5

\* What flush and the reconstruction compute stays as long as the graph and the
\* list of accepted issues do.
LEMMA SameDiagnostics ==
  ASSUME UNCHANGED <<issues, indices>>
  PROVE  /\ Emitted' = Emitted /\ \A p : Diagnostic(p)' = Diagnostic(p)
         /\ \A d : Found(d)' = Found(d)
<1>1. \A p : Group(p)' = Group(p) /\ Pending(p)' = Pending(p)
  BY DEF Group, Pending
<1>2. \A p : (Folds(p)' <=> Folds(p)) /\ (Emits(p)' <=> Emits(p))
  BY <1>1 DEF Folds, Emits
<1>3. Emitted' = Emitted
  BY <1>2 DEF Emitted
<1>4. \A p : Diagnostic(p)' = Diagnostic(p)
  BY <1>1, <1>2 DEF Diagnostic
<1>5. \A d : Found(d)' = Found(d)
  BY DEF Found, FirstOfKind, LastWithMessage
<1> QED
  BY <1>3, <1>4, <1>5

\* Every step keeps DiagnosticsInv.
LEMMA DiagnosticsStep ==
  ASSUME PhaseInv, DiagnosticsInv, [Next]_vars
  PROVE  DiagnosticsInv'
<1>1. CASE Flush
  <2>1. PICK emitted \in InOrder(Emitted) :
           diagnostics' = [k \in DOMAIN emitted |-> Diagnostic(emitted[k])]
    BY <1>1 DEF Flush
  <2>2. UNCHANGED <<issues, indices>> /\ phase' = "rebuild"
    BY <1>1 DEF Flush, filterVars
  <2>3. emitted \in Bijection(1 .. Cardinality(Emitted'), Emitted')
    BY <2>2, SameDiagnostics DEF InOrder
  <2>4. diagnostics' = [k \in DOMAIN emitted |-> Diagnostic(emitted[k])']
    BY <2>1, <2>2, SameDiagnostics
  <2>5. Flushed'
    BY <2>3, <2>4 DEF Flushed
  <2> QED
    BY <2>2, <2>5 DEF DiagnosticsInv
<1>2. CASE Rebuild
  <2>1. /\ UNCHANGED <<issues, indices, diagnostics>> /\ phase = "rebuild"
        /\ result' = [k \in DOMAIN diagnostics |-> Found(diagnostics[k])]
    BY <1>2 DEF Rebuild, filterVars
  <2>2. Rebuilt'
    BY <2>1, SameDiagnostics DEF Rebuilt
  <2>3. Flushed'
    BY <2>1, SameDiagnostics DEF DiagnosticsInv, Flushed
  <2>4. phase' = "returned"
    BY <1>2 DEF Rebuild
  <2> QED
    BY <2>2, <2>3, <2>4 DEF DiagnosticsInv
<1>3. CASE UNCHANGED vars
  <2>1. UNCHANGED <<issues, indices, diagnostics, result, phase, next>>
    BY <1>3 DEF vars
  <2>2. (Flushed' <=> Flushed) /\ (Rebuilt' <=> Rebuilt)
    BY <2>1, SameDiagnostics DEF Flushed, Rebuilt
  <2> QED
    BY <2>1, <2>2 DEF DiagnosticsInv
<1>4. CASE ~ Flush /\ ~ Rebuild /\ ~ UNCHANGED vars
  <2>1. phase' # "rebuild" /\ (phase' = "returned" => next' = 1 /\ result' = <<>>)
    BY <1>4 DEF Next, Report, ReportLeak, ClassifySurfaces, PassesEnd, NotALeak, LeaksEnd,
                Aggregate, OutOfMemory, Stopped, dedupVars, PhaseInv
  <2> QED
    BY <2>1 DEF DiagnosticsInv
<1> QED
  BY <1>1, <1>2, <1>3, <1>4

-----------------------------------------------------------------------------
(* The groups of equal messages.                                             *)

\* The indices of the accepted issues.
LEMMA IndexFacts ==
  ASSUME IInv, AggregateInv
  PROVE  /\ issues \in Seq(Entries) /\ Len(issues) \in Nat /\ DOMAIN issues = 1 .. Len(issues)
         /\ Len(indices) \in Nat /\ DOMAIN indices = 1 .. Len(indices)
         /\ IsFiniteSet(DOMAIN indices) /\ Cardinality(DOMAIN indices) = Len(indices)
         /\ \A p \in DOMAIN indices : /\ indices[p] \in DOMAIN issues
                                      /\ Pending(p) \in Everything
         /\ \A k \in DOMAIN issues : issues[k].issue \in Everything
<1>1. issues \in Seq(Entries) /\ Len(issues) \in Nat /\ DOMAIN issues = 1 .. Len(issues)
  BY DEF IInv, GraphTypes
<1>2. /\ Len(indices) \in Nat /\ DOMAIN indices = 1 .. Len(indices)
      /\ \A p \in DOMAIN indices : indices[p] \in Nat \ {0}
  BY DEF AggregateInv
<1>3. \A p \in DOMAIN indices : indices[p] \in DOMAIN issues
  BY <1>1, <1>2 DEF AggregateInv
<1>4. \A k \in DOMAIN issues : issues[k] \in Entries
  BY <1>1
<1>5. \A k \in DOMAIN issues : issues[k].issue \in Everything
  BY <1>4 DEF Entries
<1>6. \A p \in DOMAIN indices : Pending(p) \in Everything
  BY <1>3, <1>5 DEF Pending
<1>7. IsFiniteSet(1 .. Len(indices)) /\ Cardinality(1 .. Len(indices)) = Len(indices)
  <2>1. 1 \in Int /\ Len(indices) \in Int
    BY <1>2
  <2>2. /\ IsFiniteSet(1 .. Len(indices))
        /\ Cardinality(1 .. Len(indices))
             = IF 1 > Len(indices) THEN 0 ELSE Len(indices) - 1 + 1
    BY <2>1, FS_Interval
  <2> QED
    BY <1>2, <2>2
<1> QED
  BY <1>1, <1>2, <1>3, <1>5, <1>6, <1>7

\* A group holds its members, each of which has the same group.
LEMMA GroupFacts ==
  ASSUME IInv, AggregateInv, NEW p \in DOMAIN indices
  PROVE  /\ p \in Group(p) /\ Group(p) \subseteq DOMAIN indices
         /\ Min(Group(p)) \in Group(p)
         /\ \A q \in Group(p) : /\ Group(q) = Group(p) /\ (Folds(q) <=> Folds(p))
                                /\ Pending(q).kind = Pending(p).kind
<1>1. p \in Group(p) /\ Group(p) \subseteq DOMAIN indices
  BY DEF Group
<1>2. \A q \in Group(p) : Group(q) = Group(p) /\ Pending(q).kind = Pending(p).kind
  BY DEF Group
<1>3. \A q \in Group(p) : Folds(q) <=> Folds(p)
  BY <1>2 DEF Folds
<1>4. Group(p) \in SUBSET Nat
  BY <1>1, IndexFacts
<1>5. \E m \in Group(p) : \A k \in Group(p) : m <= k
  BY <1>1, <1>4, LeastNumber
<1>6. Min(Group(p)) \in Group(p)
  BY <1>5 DEF Min
<1> QED
  BY <1>1, <1>2, <1>3, <1>6

\* Every accepted issue is emitted, or the first of its group is for it.
LEMMA EmittedFor ==
  ASSUME IInv, AggregateInv, NEW p \in DOMAIN indices
  PROVE  \E e \in Emitted : e \in Group(p) /\ (Folds(p) \/ e = p)
<1>1. CASE Folds(p)
  <2>1. PICK e \in Group(p) : e = Min(Group(p))
    BY GroupFacts
  <2>2. e \in DOMAIN indices /\ Group(e) = Group(p)
    BY GroupFacts
  <2>3. e \in Emitted
    BY <2>1, <2>2 DEF Emitted, Emits
  <2> QED
    BY <1>1, <2>3
<1>2. CASE ~ Folds(p)
  BY <1>2, GroupFacts DEF Emitted, Emits
<1> QED
  BY <1>1, <1>2

\* What a diagnostic stands for: itself, or its group.
Stands(e) == IF Folds(e) THEN Group(e) ELSE {e}

\* The accepted issues are split among the diagnostics.
LEMMA StandsFacts ==
  ASSUME IInv, AggregateInv
  PROVE  /\ \A e \in Emitted : /\ IsFiniteSet(Stands(e))
                               /\ Stands(e) \subseteq DOMAIN indices
         /\ \A e, g \in Emitted : e # g => Stands(e) \cap Stands(g) = {}
         /\ UNION {Stands(e) : e \in Emitted} = DOMAIN indices
<1>0. Emitted \subseteq DOMAIN indices
  BY DEF Emitted
<1>1. \A e \in Emitted : Stands(e) \subseteq DOMAIN indices
  BY <1>0, GroupFacts DEF Stands
<1>2. \A e \in Emitted : IsFiniteSet(Stands(e))
  BY <1>1, IndexFacts, FS_Subset
<1>3. ASSUME NEW e \in Emitted, NEW g \in Emitted, NEW q \in Stands(e) \cap Stands(g)
      PROVE  e = g
  <2>1. /\ e \in DOMAIN indices /\ g \in DOMAIN indices /\ q \in DOMAIN indices
        /\ q \in Group(e) /\ q \in Group(g)
    BY <1>0, <1>1, <1>3, GroupFacts DEF Stands
  <2>2. /\ Group(q) = Group(e) /\ (Folds(q) <=> Folds(e))
        /\ Group(q) = Group(g) /\ (Folds(q) <=> Folds(g))
    BY <2>1, GroupFacts
  <2>3. CASE Folds(q)
    BY <2>2, <2>3 DEF Emitted, Emits
  <2>4. CASE ~ Folds(q)
    BY <2>2, <2>4 DEF Stands
  <2> QED
    BY <2>3, <2>4
<1>4. ASSUME NEW q \in DOMAIN indices PROVE \E e \in Emitted : q \in Stands(e)
  <2>1. PICK e \in Emitted : e \in Group(q) /\ (Folds(q) \/ e = q)
    BY EmittedFor
  <2>2. Group(e) = Group(q) /\ (Folds(e) <=> Folds(q)) /\ q \in Group(q)
    BY <2>1, GroupFacts
  <2> QED
    BY <2>1, <2>2 DEF Stands
<1> QED
  BY <1>1, <1>2, <1>3, <1>4

\* The issue the pipeline finds for a diagnostic.
LEMMA FoundFacts ==
  ASSUME IInv, AggregateInv, NEW e \in DOMAIN indices
  PROVE  /\ Found(Diagnostic(e)).index \in DOMAIN issues
         /\ Folds(e) =>
              /\ Found(Diagnostic(e)).override = Cardinality(Group(e))
              /\ Found(Diagnostic(e)).override > 0
              /\ issues[Found(Diagnostic(e)).index].issue.kind = Pending(e).kind
         /\ ~ Folds(e) =>
              /\ Found(Diagnostic(e)).override = 0
              /\ issues[Found(Diagnostic(e)).index].issue.message = Pending(e).message
<1> DEFINE i == Pending(e)
           Same == {k \in DOMAIN issues : issues[k].issue.message = i.message}
           Kin == {k \in DOMAIN issues : issues[k].issue.kind = i.kind}
<1>1. indices[e] \in Same /\ indices[e] \in Kin
  BY IndexFacts DEF Pending
<1>2. Len(issues) \in Nat /\ DOMAIN issues = 1 .. Len(issues)
  BY IndexFacts
<1>3. Same \in SUBSET (1 .. Len(issues)) /\ Same # {} /\ Kin \in SUBSET Nat /\ Kin # {}
  BY <1>1, <1>2
<1>4. LastWithMessage(i.message) = Max(Same) /\ FirstOfKind(i.kind) = Min(Kin)
  BY DEF LastWithMessage, FirstOfKind
<1> HIDE DEF Same, Kin
<1>5. \E x \in Same : \A y \in Same : x >= y
  BY <1>2, <1>3, LargestNumber
<1>6. Max(Same) \in Same
  BY <1>5 DEF Max
<1>7. \E x \in Kin : \A y \in Kin : x <= y
  BY <1>3, LeastNumber
<1>8. Min(Kin) \in Kin
  BY <1>7 DEF Min
<1>9. /\ LastWithMessage(i.message) \in DOMAIN issues
      /\ issues[LastWithMessage(i.message)].issue.message = i.message
      /\ FirstOfKind(i.kind) \in DOMAIN issues
      /\ issues[FirstOfKind(i.kind)].issue.kind = i.kind
  BY <1>4, <1>6, <1>8 DEF Same, Kin
<1> HIDE DEF i
<1>10. CASE Folds(e)
  <2>1. Cardinality(Group(e)) > 0 /\ Cardinality(Group(e)) \in Nat
    <3>1. Cardinality(Group(e)) \in Nat
      BY GroupFacts, IndexFacts, FS_Subset, FS_CardinalityType
    <3> QED
      BY <1>10, <3>1, PipelineBounds DEF Folds
  <2>2. Diagnostic(e) = [kind |-> i.kind, message |-> i.message, folded |-> Cardinality(Group(e))]
    BY <1>10 DEF Diagnostic, i
  <2>3. Found(Diagnostic(e)) = [index |-> FirstOfKind(i.kind), override |-> Cardinality(Group(e))]
    BY <2>1, <2>2 DEF Found
  <2> QED
    BY <1>9, <1>10, <2>1, <2>3 DEF i
<1>11. CASE ~ Folds(e)
  <2>1. Diagnostic(e) = [kind |-> i.kind, message |-> i.message, folded |-> 0]
    BY <1>11 DEF Diagnostic, i
  <2>2. Found(Diagnostic(e)) = [index |-> LastWithMessage(i.message), override |-> 0]
    BY <2>1 DEF Found
  <2> QED
    BY <1>9, <1>11, <2>2 DEF i
<1> QED
  BY <1>10, <1>11

\* The result, position by position.
LEMMA ResultFacts ==
  ASSUME IInv, AggregateInv, Flushed, Rebuilt
  PROVE  \E n \in Nat : \E emitted \in Bijection(1 .. n, Emitted) :
           /\ n = Cardinality(Emitted) /\ n <= Len(indices)
           /\ DOMAIN result = 1 .. n /\ Len(result) = n
           /\ \A r \in 1 .. n : /\ emitted[r] \in Emitted
                                /\ result[r] = Found(Diagnostic(emitted[r]))
           /\ \A e \in Emitted : \E r \in 1 .. n : emitted[r] = e
           /\ \A r, s \in 1 .. n : emitted[r] = emitted[s] => r = s
<1>1. PICK n : n = Cardinality(Emitted)
  OBVIOUS
<1>2. n \in Nat /\ n <= Len(indices)
  <2>1. Emitted \in SUBSET DOMAIN indices
    BY DEF Emitted
  <2>2. IsFiniteSet(Emitted) /\ Cardinality(Emitted) <= Cardinality(DOMAIN indices)
    BY <2>1, IndexFacts, FS_Subset
  <2> QED
    BY <1>1, <2>2, IndexFacts, FS_CardinalityType
<1>3. PICK emitted \in Bijection(1 .. n, Emitted) :
        diagnostics = [k \in DOMAIN emitted |-> Diagnostic(emitted[k])]
  BY <1>1 DEF Flushed
<1>4. /\ emitted \in [1 .. n -> Emitted]
      /\ \A e \in Emitted : \E r \in 1 .. n : emitted[r] = e
      /\ \A r, s \in 1 .. n : emitted[r] = emitted[s] => r = s
  BY <1>3 DEF Bijection, Injection, Surjection, IsInjective
<1>5. DOMAIN diagnostics = 1 .. n /\ \A r \in 1 .. n : diagnostics[r] = Diagnostic(emitted[r])
  BY <1>3, <1>4
<1>6. result = [r \in 1 .. n |-> Found(diagnostics[r])]
  BY <1>5 DEF Rebuilt
<1>7. DOMAIN result = 1 .. n /\ Len(result) = n
  BY <1>2, <1>6
<1>8. \A r \in 1 .. n : result[r] = Found(Diagnostic(emitted[r]))
  BY <1>5, <1>6
<1> QED
  BY <1>1, <1>2, <1>4, <1>7, <1>8

\* When the pipeline has deduplicated, the result is what was looked up.
LEMMA DeduplicatedFacts ==
  ASSUME IInv, PhaseInv, AggregateInv, DiagnosticsInv, Deduplicated
  PROVE  Flushed /\ Rebuilt /\ \A k \in DOMAIN issues : Seen(Key(k))
<1>1. phase = "returned" /\ next > 1
  BY DEF Deduplicated
<1>2. Flushed /\ Rebuilt
  BY <1>1 DEF DiagnosticsInv
<1>3. next > Len(issues) /\ next \in Nat
  BY <1>1, IndexFacts DEF PhaseInv, AggregateInv
<1>4. \A k \in DOMAIN issues : k < next
  BY <1>3, IndexFacts
<1> QED
  BY <1>2, <1>4 DEF AggregateInv

-----------------------------------------------------------------------------
(* The invariant of the whole pipeline, and its theorems.                    *)

LEMMA InitPipeline ==
  ASSUME Init
  PROVE  PipelineInv
<1>1. PhaseInv /\ DiagnosticsInv
  BY DEF Init, PhaseInv, DiagnosticsInv
<1>2. GraphInv
  <2>1. PICK len \in 0 .. MaxRecords : records \in [1 .. len -> LeakRecords]
    BY DEF Init
  <2>2. len \in Nat /\ Len(records) = len
    BY <2>1, PipelineBounds
  <2>3. Len(records) <= MaxRecords
    BY <2>1, <2>2
  <2>4. submitted = {} /\ reports = 0 /\ surfaces = FALSE /\ outOfMemory = FALSE
    BY DEF Init
  <2>5. submitted \subseteq Everything /\ reports \in 0 .. MaxReports
    BY <2>4, PipelineBounds
  <2> QED
    BY <2>3, <2>4, <2>5 DEF GraphInv
<1>3. KeysInGraph /\ NeverSuppressedReachGraph
  BY DEF Init, KeysInGraph, NeverSuppressedReachGraph
<1>4. AggregateInv
  BY DEF Init, AggregateInv
<1> QED
  BY <1>1, <1>2, <1>3, <1>4 DEF PipelineInv

LEMMA PipelineInductive == Spec => [](IInv /\ PipelineInv)
<1>1. Init => PipelineInv
  BY InitPipeline
<1>2. IInv /\ IInv' /\ PipelineInv /\ [Next]_vars => PipelineInv'
  BY ReachStep, PhaseStep, AggregateStep, DiagnosticsStep DEF PipelineInv
<1> QED
  BY InvHolds, <1>1, <1>2, PTL DEF Spec

(* The variables keep their types, for any issues and bounds: an index the    *)
(* pipeline stores or looks up is one of an issue in the graph.               *)
THEOREM TypeCorrect == Spec => []TypeOK
<1>1. IInv /\ PipelineInv => TypeOK
  <2> SUFFICES ASSUME IInv, PipelineInv PROVE TypeOK
    OBVIOUS
  <2>1. PhaseInv /\ GraphInv /\ AggregateInv /\ DiagnosticsInv
    BY DEF PipelineInv
  <2>2. \A k \in DOMAIN issues : issues[k].issue \in Everything /\ issues[k].severity \in Severities
    <3>1. \A k \in DOMAIN issues : issues[k] \in Entries
      BY DEF IInv, GraphTypes
    <3> QED
      BY <3>1 DEF Entries
  <2>3. \A k \in DOMAIN indices : indices[k] \in DOMAIN issues
    BY <2>1, IndexFacts
  <2>4. \A k \in DOMAIN result : result[k].index \in DOMAIN issues
    <3>1. CASE Flushed /\ Rebuilt
      <4>1. PICK n \in Nat : \E emitted \in Bijection(1 .. n, Emitted) :
              /\ DOMAIN result = 1 .. n
              /\ \A r \in 1 .. n : /\ emitted[r] \in Emitted
                                   /\ result[r] = Found(Diagnostic(emitted[r]))
        BY <2>1, <3>1, ResultFacts
      <4>2. \A e \in Emitted : Found(Diagnostic(e)).index \in DOMAIN issues
        BY <2>1, FoundFacts DEF Emitted
      <4> QED
        BY <4>1, <4>2
    <3>2. CASE result = <<>>
      BY <3>2
    <3> QED
      BY <2>1, <3>1, <3>2 DEF PhaseInv, DiagnosticsInv
  <2>5. phase \in {"passes", "leaks", "aggregate", "rebuild", "returned", "failed"}
    BY <2>1 DEF PhaseInv
  <2> QED
    BY <2>1, <2>2, <2>3, <2>4, <2>5 DEF TypeOK, IInv, GraphTypes, GraphInv, AggregateInv
<1> QED
  BY <1>1, PipelineInductive, PTL

(* Whatever was reported, by whom and in whatever order: as long as no       *)
(* allocation fails, an issue of a category that is never suppressed is in   *)
(* the graph, itself or as a report of the same defect, and a critical one   *)
(* is there itself.                                                          *)
THEOREM NeverSuppressedKept == Spec => []NeverSuppressedReachGraph
<1>1. PipelineInv => NeverSuppressedReachGraph
  BY DEF PipelineInv
<1> QED
  BY <1>1, PipelineInductive, PTL

(* What the aggregator drops has the kind and the line of an issue it keeps:   *)
(* no kind of issue of the graph vanishes altogether.  Nothing is said of the  *)
(* function, which is "(unknown)" in every key.                               *)
THEOREM DroppedForKept ==
  Spec => [](Deduplicated =>
               \A k \in DOMAIN issues : \E p \in DOMAIN indices :
                  /\ Pending(p).kind = issues[k].issue.kind
                  /\ Pending(p).line = issues[k].issue.line)
<1> DEFINE Represented == \A k \in DOMAIN issues : \E p \in DOMAIN indices :
                      /\ Pending(p).kind = issues[k].issue.kind
                      /\ Pending(p).line = issues[k].issue.line
<1>1. IInv /\ PipelineInv => (Deduplicated => Represented)
  <2> SUFFICES ASSUME IInv, PipelineInv, Deduplicated, NEW k \in DOMAIN issues
               PROVE  \E p \in DOMAIN indices : /\ Pending(p).kind = issues[k].issue.kind
                                                /\ Pending(p).line = issues[k].issue.line
    OBVIOUS
  <2>1. PhaseInv /\ AggregateInv /\ DiagnosticsInv
    BY DEF PipelineInv
  <2>2. PICK p \in DOMAIN indices : Key(indices[p]) = Key(k)
    BY <2>1, DeduplicatedFacts DEF Seen
  <2>3. Pending(p) \in Everything /\ issues[k].issue \in Everything
    BY <2>1, IndexFacts
  <2>4. AggregatorKey(Pending(p)) = AggregatorKey(issues[k].issue)
    BY <2>2 DEF Key, Pending
  <2> QED
    BY <2>3, <2>4, KeysTell
<1> HIDE DEF Represented
<1>2. Spec => [](Deduplicated => Represented)
  BY <1>1, PipelineInductive, PTL
<1> QED
  BY <1>2 DEF Represented

(* Folding and the search for an issue by its message lose none of the        *)
(* issues the aggregator kept, however many share messages.                   *)
THEOREM FoldingShowsKept == Spec => []KeptIsShown
<1>1. IInv /\ PipelineInv => KeptIsShown
  <2> SUFFICES ASSUME IInv, PipelineInv, Deduplicated, NEW p \in DOMAIN indices
               PROVE  \E r \in DOMAIN result :
                        LET shown == issues[result[r].index].issue
                        IN \/ result[r].override > 0 /\ shown.kind = Pending(p).kind
                           \/ result[r].override = 0 /\ shown.message = Pending(p).message
    BY DEF KeptIsShown
  <2>1. PhaseInv /\ AggregateInv /\ DiagnosticsInv
    BY DEF PipelineInv
  <2>2. Flushed /\ Rebuilt
    BY <2>1, DeduplicatedFacts
  <2>3. PICK e \in Emitted : e \in Group(p) /\ (Folds(p) \/ e = p)
    BY <2>1, EmittedFor
  <2>4. e \in DOMAIN indices /\ (Folds(e) <=> Folds(p)) /\ Pending(e).kind = Pending(p).kind
    BY <2>1, <2>3, GroupFacts
  <2>5. PICK r \in DOMAIN result : result[r] = Found(Diagnostic(e))
    BY <2>1, <2>2, ResultFacts
  <2>6. CASE Folds(p)
    BY <2>1, <2>4, <2>5, <2>6, FoundFacts
  <2>7. CASE ~ Folds(p)
    BY <2>1, <2>3, <2>4, <2>5, <2>7, FoundFacts
  <2> QED
    BY <2>6, <2>7
<1> QED
  BY <1>1, PipelineInductive, PTL

(* The numbers the caller reads add up to the issues the aggregator kept,    *)
(* and no list is longer than the one it was made of, so the differences the *)
(* pipeline logs are not negative.                                           *)
THEOREM CountsAreRight == Spec => []CountsAddUp
<1>1. IInv /\ PipelineInv => CountsAddUp
  <2> SUFFICES ASSUME IInv, PipelineInv PROVE CountsAddUp
    OBVIOUS
  <2>1. PhaseInv /\ AggregateInv /\ DiagnosticsInv
    BY DEF PipelineInv
  <2>2. Len(indices) <= Len(issues) /\ Len(indices) \in Nat
    BY <2>1, IndexFacts DEF AggregateInv
  <2>3. Len(result) <= Len(indices)
    <3>1. CASE Flushed /\ Rebuilt
      BY <2>1, <3>1, ResultFacts
    <3>2. CASE result = <<>>
      BY <2>2, <3>2
    <3> QED
      BY <2>1, <3>1, <3>2 DEF PhaseInv, DiagnosticsInv
  <2>4. ASSUME Deduplicated
        PROVE  SumFunction([r \in DOMAIN result |-> Shown(r)]) = Len(indices)
    <3>1. PICK n \in Nat : \E emitted \in Bijection(1 .. n, Emitted) :
            /\ DOMAIN result = 1 .. n
            /\ \A r \in 1 .. n : /\ emitted[r] \in Emitted
                                 /\ result[r] = Found(Diagnostic(emitted[r]))
            /\ \A e \in Emitted : \E r \in 1 .. n : emitted[r] = e
            /\ \A r, s \in 1 .. n : emitted[r] = emitted[s] => r = s
      BY <2>1, <2>4, DeduplicatedFacts, ResultFacts
    <3>2. PICK emitted \in Bijection(1 .. n, Emitted) :
            /\ DOMAIN result = 1 .. n
            /\ \A r \in 1 .. n : /\ emitted[r] \in Emitted
                                 /\ result[r] = Found(Diagnostic(emitted[r]))
            /\ \A e \in Emitted : \E r \in 1 .. n : emitted[r] = e
            /\ \A r, s \in 1 .. n : emitted[r] = emitted[s] => r = s
      BY <3>1
    <3> DEFINE P == [r \in 1 .. n |-> Stands(emitted[r])]
               f == [r \in 1 .. n |-> Cardinality(P[r])]
    <3>3. IsFiniteSet(1 .. n)
      <4>1. 1 \in Int /\ n \in Int
        OBVIOUS
      <4> QED
        BY <4>1, FS_Interval
    <3>4. \A r \in 1 .. n : P[r] = Stands(emitted[r])
      OBVIOUS
    <3>5. \A r \in 1 .. n : Shown(r) = Cardinality(P[r])
      <4> TAKE r \in 1 .. n
      <4>1. emitted[r] \in DOMAIN indices
        BY <3>2 DEF Emitted
      <4>2. CASE Folds(emitted[r])
        BY <2>1, <3>2, <4>1, <4>2, FoundFacts DEF Shown, Stands
      <4>3. CASE ~ Folds(emitted[r])
        <5>1. Shown(r) = 1 /\ P[r] = {emitted[r]}
          BY <2>1, <3>2, <4>1, <4>3, FoundFacts DEF Shown, Stands
        <5> QED
          BY <5>1, FS_Singleton
      <4> QED
        BY <4>2, <4>3
    <3>6. [r \in DOMAIN result |-> Shown(r)] = f
      BY <3>2, <3>5
    <3> HIDE DEF P
    <3>7. /\ \A r \in 1 .. n : IsFiniteSet(P[r])
          /\ \A r, s \in 1 .. n : r # s => P[r] \cap P[s] = {}
      BY <2>1, <3>2, <3>4, StandsFacts
    <3>8. UNION {P[r] : r \in 1 .. n} = DOMAIN indices
      <4>1. UNION {Stands(e) : e \in Emitted} = DOMAIN indices
        BY <2>1, StandsFacts
      <4>2. {P[r] : r \in 1 .. n} = {Stands(e) : e \in Emitted}
        BY <3>2, <3>4
      <4> QED
        BY <4>1, <4>2
    <3>9. SumFunctionOnSet(f, 1 .. n) = Cardinality(DOMAIN indices)
      BY <3>3, <3>7, <3>8, SumDisjoint
    <3>10. DOMAIN f = 1 .. n
      OBVIOUS
    <3> HIDE DEF f
    <3> QED
      BY <2>1, <3>6, <3>9, <3>10, IndexFacts DEF SumFunction
  <2> QED
    BY <2>2, <2>3, <2>4 DEF CountsAddUp
<1> QED
  BY <1>1, PipelineInductive, PTL
=============================================================================
