----------------------------- MODULE SimpleFFI -----------------------------
(* corpus/small/simple_ffi.c: heap buffers.                                *)
EXTENDS CBody

leak_example ==
  << Set("buffer", "malloc", <<any>>), Unless("buffer", <<Return({})>>),
     Call("strcpy", <<v("buffer"), v("input")>>), Return({"buffer"}) >>

use_after_free_example ==
  << Deref("ptr"), Call("free", <<v("ptr")>>), Deref("ptr") >>

buffer_overflow_example ==
  << Call("strcpy", <<at("buffer"), v("input")>>),
     Call("printf", <<any, at("buffer")>>) >>

format_string_example == << Call("printf", <<v("user_input")>>) >>

safe_example ==
  << Unless("input", <<Return({})>>),
     Call("strlen", <<v("input")>>),
     Set("buffer", "malloc", <<any>>),
     When("buffer", <<Call("strcpy", <<v("buffer"), v("input")>>),
                      Call("printf", <<any, v("buffer")>>),
                      Call("free", <<v("buffer")>>)>>) >>

Functions ==
  << Fn("leak_example", {}, leak_example, {"handed_out"}),
     Fn("use_after_free_example", {"ptr"}, use_after_free_example, {"use_after_free"}),
     Fn("buffer_overflow_example", {}, buffer_overflow_example, {}),
     Fn("format_string_example", {}, format_string_example, {}),
     Fn("safe_example", {}, safe_example, {"safe"}) >>
=============================================================================
