----------------------------- MODULE DangerousC -----------------------------
(* examples/rust_ffi_demo/c_lib/dangerous.c: the library of the demo.  The *)
(* label of dangerous_free is about two calls of it on one pointer: what a *)
(* single execution comes to is no claim of it.                            *)
EXTENDS CBody

dangerous_process ==
  << Call("sprintf", <<at("command"), any, v("input")>>),
     Call("system", <<at("command")>>), Call("printf", <<v("input")>>) >>

dangerous_copy == << Call("strcpy", <<v("dest"), v("src")>>) >>

dangerous_alloc ==
  << Set("buffer", "malloc", <<any>>), Deref("buffer"), Return({"buffer"}) >>

dangerous_free == << Call("free", <<v("ptr")>>), Copy("last_freed", "ptr") >>

\* Each check of the input may send the function back.
safe_process ==
  << Unless("input", <<Call("fprintf", <<any, any>>), Return({})>>),
     Call("strlen", <<v("input")>>),
     Maybe(<<Call("fprintf", <<any, any>>), Return({})>>),
     Repeat(<<Deref("input"), Maybe(<<Call("fprintf", <<any, any>>), Return({})>>)>>),
     Call("snprintf", <<at("command"), any, any, v("input")>>),
     Call("printf", <<any, at("command")>>) >>

Functions ==
  << Fn("dangerous_process", {}, dangerous_process, {}),
     Fn("dangerous_copy", {}, dangerous_copy, {}),
     Fn("dangerous_alloc", {}, dangerous_alloc, {"null_use"}),
     Fn("dangerous_free", {"ptr"}, dangerous_free, {}),
     Fn("safe_process", {}, safe_process, {"safe"}) >>
=============================================================================
