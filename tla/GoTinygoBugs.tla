---------------------------- MODULE GoTinygoBugs ----------------------------
(* corpus/red_team_test/go_tinygo_ffi_bugs.c: the heap of TinyGo beside    *)
(* the heap of C.                                                          *)
EXTENDS CBody

GoAlloc(x) == Set(x, "runtime_alloc", <<any, any>>)
GoFree(x) == Call("runtime_free", <<v(x)>>)
Malloc(x) == Set(x, "malloc", <<any>>)
CFree(x) == Call("free", <<v(x)>>)

tc1_go_alloc_c_free == << GoAlloc("go_mem"), CFree("go_mem") >>
tc2_c_malloc_go_free == << Malloc("c_mem"), GoFree("c_mem") >>
tc3_go_alloc_go_free == << GoAlloc("go_mem"), GoFree("go_mem") >>
tc4_cgo_bridge_safe == << Set("cgo_mem", "_Cgo_malloc", <<any>>), CFree("cgo_mem") >>
tc5_go_alloc_leak == << GoAlloc("leaked") >>

tc6_go_realloc_c_free ==
  << Malloc("original"), Set("grown", "runtime_realloc", <<v("original"), any>>),
     CFree("grown") >>

tc7_c_calloc_tinygo_free ==
  << Set("zeroed", "calloc", <<any, any>>), Call("tinygo_free", <<v("zeroed")>>) >>

tc8_mixed_ffi_bugs ==
  << GoAlloc("go_ptr"), Malloc("c_ptr"), Set("tg_ptr", "tinygo_alloc", <<any>>),
     CFree("go_ptr"), GoFree("c_ptr"), CFree("tg_ptr") >>

tc9_gc_track_pointer ==
  << GoAlloc("go_mem"), Call("runtime_trackPointer", <<v("go_mem"), any>>),
     GoFree("go_mem") >>

tc10_correct_nested_ffi ==
  << GoAlloc("go_data"), GoAlloc("go_buffer"), Malloc("c_data"),
     Set("c_temp", "calloc", <<any, any>>),
     GoFree("go_data"), GoFree("go_buffer"), CFree("c_data"), CFree("c_temp") >>

Functions ==
  << Fn("tc1_go_alloc_c_free", {}, tc1_go_alloc_c_free, {"bad_free"}),
     Fn("tc2_c_malloc_go_free", {}, tc2_c_malloc_go_free, {"bad_free"}),
     Fn("tc3_go_alloc_go_free", {}, tc3_go_alloc_go_free, {"safe"}),
     Fn("tc4_cgo_bridge_safe", {}, tc4_cgo_bridge_safe, {"safe"}),
     Fn("tc5_go_alloc_leak", {}, tc5_go_alloc_leak, {"leak"}),
     Fn("tc6_go_realloc_c_free", {}, tc6_go_realloc_c_free, {"bad_free"}),
     Fn("tc7_c_calloc_tinygo_free", {}, tc7_c_calloc_tinygo_free, {"bad_free"}),
     Fn("tc8_mixed_ffi_bugs", {}, tc8_mixed_ffi_bugs, {"bad_free"}),
     Fn("tc9_gc_track_pointer", {}, tc9_gc_track_pointer, {"safe"}),
     Fn("tc10_correct_nested_ffi", {}, tc10_correct_nested_ffi, {"safe"}) >>
=============================================================================
