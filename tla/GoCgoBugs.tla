----------------------------- MODULE GoCgoBugs -----------------------------
(* corpus/red_team_test/go_cgo_bugs.c: memory of the Go runtime in C code. *)
(* What Go's collector, a second thread or a stored callback does is not   *)
(* ownership: those functions only keep their calls.                       *)
EXTENDS CBody

Fill(x) == Call("strcpy", <<v(x), any>>)
CFree(x) == Call("free", <<v(x)>>)
GoFree(x) == Call("_cgo_free", <<v(x)>>)

go_01_go_alloc_c_free ==
  << Set("ptr", "_cgo_allocate", <<any>>), Fill("ptr"), CFree("ptr") >>

go_02_c_alloc_go_free ==
  << Set("ptr", "malloc", <<any>>), Fill("ptr"), GoFree("ptr") >>

go_03_slice_escape ==
  << Set("slice.data", "_cgo_allocate", <<any>>),
     Copy("g_go_slice_data", "slice.data"), GoFree("slice.data"),
     Call("llvm.memset", <<v("g_go_slice_data"), any, any>>),
     Return({"g_go_slice_data"}) >>

go_04_race_test ==
  << Call("pthread_create", <<at("tid"), any, any, any>>),
     Call("pthread_join", <<any, any>>) >>

go_05_register_callback == << Copy("g_stored_callback", "cb") >>

go_05_invoke_stored == << When("g_stored_callback", <<Deref("g_stored_callback")>>) >>

go_06_double_free_cgo ==
  << Set("ptr", "_Cfunc_GoMalloc", <<any>>), Fill("ptr"), CFree("ptr"),
     Call("_Cfunc_GoFree", <<v("ptr")>>) >>

go_07_mutate_go_string == << Deref("s"), Copy("mutable", "s->data"), Deref("mutable") >>

go_08_c_ptr_in_go_struct ==
  << Set("c_mem", "malloc", <<any>>), Call("llvm.memset", <<v("c_mem"), any, any>>),
     Copy("slice.data", "c_mem"), Copy("slice.data", "NULL") >>

Functions ==
  << Fn("go_01_go_alloc_c_free", {}, go_01_go_alloc_c_free, {"bad_free"}),
     Fn("go_02_c_alloc_go_free", {}, go_02_c_alloc_go_free, {"bad_free"}),
     Fn("go_03_slice_escape", {}, go_03_slice_escape, {"use_after_free"}),
     Fn("go_04_c_thread_func", {}, <<>>, {}),
     Fn("go_04_race_test", {}, go_04_race_test, {}),
     Fn("go_05_register_callback", {}, go_05_register_callback, {}),
     Fn("go_05_invoke_stored", {}, go_05_invoke_stored, {}),
     Fn("go_06_double_free_cgo", {}, go_06_double_free_cgo, {"bad_free", "double_free"}),
     Fn("go_07_mutate_go_string", {}, go_07_mutate_go_string, {}),
     Fn("go_08_c_ptr_in_go_struct", {}, go_08_c_ptr_in_go_struct, {"leak"}) >>
=============================================================================
