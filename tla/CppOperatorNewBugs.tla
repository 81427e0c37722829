------------------------- MODULE CppOperatorNewBugs -------------------------
(* corpus/red_team_test/cpp_operator_new_ffi_bugs.c: the operators new and *)
(* delete of C++ beside the heap of C.                                     *)
EXTENDS CBody

New(x) == Set(x, "operator_new", <<any>>)
NewArray(x) == Set(x, "operator_new_array", <<any>>)
Fill(x) == Call("llvm.memset", <<v(x), any, any>>)
Delete(x) == Call("operator_delete", <<v(x)>>)
DeleteArray(x) == Call("operator_delete_array", <<v(x)>>)
CFree(x) == Call("free", <<v(x)>>)

tc1_cpp_new_c_free == << New("cpp_obj"), Fill("cpp_obj"), CFree("cpp_obj") >>

tc2_c_malloc_cpp_delete ==
  << Set("c_mem", "malloc", <<any>>), Fill("c_mem"), Delete("c_mem") >>

tc3_array_new_scalar_delete == << NewArray("arr"), Fill("arr"), Delete("arr") >>

tc4_scalar_new_array_delete == << New("scalar"), Fill("scalar"), DeleteArray("scalar") >>

tc5_correct_cpp_memory ==
  << New("obj"), Fill("obj"), Delete("obj"),
     NewArray("arr"), Fill("arr"), DeleteArray("arr") >>

tc6_internal_cpp_leak == << New("cache"), Fill("cache") >>

tc7_mixed_ccpp_ffi ==
  << New("cpp_obj"), Set("c_buf", "malloc", <<any>>), NewArray("cpp_arr"),
     Set("c_tmp", "calloc", <<any, any>>),
     Fill("cpp_obj"), Fill("c_buf"), Fill("cpp_arr"),
     CFree("cpp_obj"), Delete("c_buf"), CFree("cpp_arr"), DeleteArray("c_tmp") >>

Functions ==
  << Fn("tc1_cpp_new_c_free", {}, tc1_cpp_new_c_free, {"bad_free"}),
     Fn("tc2_c_malloc_cpp_delete", {}, tc2_c_malloc_cpp_delete, {"bad_free"}),
     Fn("tc3_array_new_scalar_delete", {}, tc3_array_new_scalar_delete, {"bad_free"}),
     Fn("tc4_scalar_new_array_delete", {}, tc4_scalar_new_array_delete, {"bad_free"}),
     Fn("tc5_correct_cpp_memory", {}, tc5_correct_cpp_memory, {"safe"}),
     Fn("tc6_internal_cpp_leak", {}, tc6_internal_cpp_leak, {"leak"}),
     Fn("tc7_mixed_ccpp_ffi", {}, tc7_mixed_ccpp_ffi, {"bad_free"}) >>
=============================================================================
