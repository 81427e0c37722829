--------------------------- MODULE MCIssuePipeline ---------------------------
(* Functions, issues and leak records for IssuePipeline: one for each branch  *)
(* of the filter, two passes that see the same defect with different         *)
(* severities, and groups of equal messages.                                 *)
EXTENDS IssuePipeline

MCFunctions ==
  [work |-> [named |-> "user", classified |-> "user", zone |-> "ffi",
             producer |-> FALSE, internal |-> FALSE],
   lib  |-> [named |-> "unknown", classified |-> "third_party", zone |-> "safe",
             producer |-> FALSE, internal |-> FALSE],
   glue |-> [named |-> "compiler_generated", classified |-> "stdlib", zone |-> "unknown",
             producer |-> TRUE, internal |-> TRUE]]

Issue(func, kind, line, severity, message) ==
  [func |-> func, kind |-> kind, file |-> NoFile, line |-> line, column |-> 0,
   severity |-> severity, message |-> <<message>>, boundary |-> FALSE, dropChain |-> FALSE]

MCIssues ==
  {Issue("lib", "unchecked_return", 0, Low, "unchecked"),
   Issue("lib", "unchecked_return", 0, Medium, "unchecked"),
   Issue("work", "unchecked_return", 1, Medium, "unchecked"),
   Issue("work", "ffi_unsafe_call", 1, High, "unsafe"),
   Issue("lib", "ffi_unsafe_call", 2, Low, "unsafe"),
   Issue("lib", "use_after_free", 0, Critical, "freed"),
   Issue("lib", "use_after_free", 0, High, "freed"),
   Issue("lib", "invalid_free", 0, High, "not allocated"),
   [Issue("lib", "data_race", 1, High, "race") EXCEPT !.boundary = TRUE],
   [Issue("glue", "double_free", 0, High, "twice") EXCEPT !.dropChain = TRUE],
   Issue("glue", "cross_language_free", 0, High, "foreign")}

Record(func, path) == [func |-> func, managed |-> FALSE, onFfiPath |-> path, confident |-> TRUE]
MCLeakRecords == {Record("lib", FALSE), Record("lib", TRUE),
                  [Record("work", TRUE) EXCEPT !.managed = TRUE]}

\* Two functions that each lose an allocation, and no other report.
MCTwoLeaks == {Record("lib", TRUE), Record("work", TRUE)}
=============================================================================
