-------------------------- MODULE MCFunctionWorkers --------------------------
(* Functions for FunctionWorkers: one for each way through the worker         *)
(* function of a pass, and for the ownership pass one for each way the calls  *)
(* of into_raw and from_raw can pair.                                        *)
EXTENDS FunctionWorkers

Into(a, r) == [op |-> "into_raw", arg |-> a, res |-> r, stored |-> TRUE]
Lost(a, r) == [Into(a, r) EXCEPT !.stored = FALSE]
From(a)    == [op |-> "from_raw", arg |-> a, res |-> "box", stored |-> TRUE]

Plain == [noise |-> FALSE, relevant |-> TRUE, third |-> FALSE, known |-> FALSE,
          ffi |-> TRUE, release |-> FALSE, zone |-> "ffi", fails |-> FALSE, calls |-> <<>>]
Fails == [Plain EXCEPT !.fails = TRUE]
Noise == [Plain EXCEPT !.noise = TRUE]
NoFfi == [Plain EXCEPT !.ffi = FALSE]
Third == [Plain EXCEPT !.third = TRUE, !.relevant = FALSE]
Known == [Plain EXCEPT !.known = TRUE]
OtherZone == [Plain EXCEPT !.relevant = FALSE, !.zone = "other"]

\* A transfer that stays open, one that comes back as the same value, and both,
\* with one that could not be stored.
Open   == [Plain EXCEPT !.calls = <<Into("box", "raw")>>]
Paired == [Plain EXCEPT !.calls = <<Into("raw", "raw"), From("raw")>>]
Mixed  == [Plain EXCEPT !.calls = <<Into("raw", "raw"), Into("box", "box"),
                                    From("raw"), Lost("raw", "raw")>>]
OpenAndFails == [Open EXCEPT !.fails = TRUE]

MCFunctionKinds ==
  [pointer_ownership |-> {Noise, NoFfi, OtherZone, Open, Paired, Mixed, OpenAndFails},
   callback_escape   |-> {Plain, Noise, OtherZone, Fails},
   ptr_lifetime      |-> {Plain, [Noise EXCEPT !.ffi = FALSE], NoFfi, Third, Known, Fails},
   ffi_boundary      |-> {Plain, [NoFfi EXCEPT !.relevant = FALSE], Fails}]

=============================================================================
