------------------------------ MODULE RustBugs ------------------------------
(* corpus/red_team_test/rust_ffi_bugs.c: the heap of Rust in C code.       *)
EXTENDS CBody

RustAlloc(x) == Set(x, "_RZN4alloc5alloc17h_allocate", <<any>>)
RustFree(x) == Call("_RZN4alloc5alloc17h_deallocate", <<v(x)>>)
Write(x) == Call("strcpy", <<v(x), any>>)
CFree(x) == Call("free", <<v(x)>>)

rust_01_alloc_c_free == << RustAlloc("ptr"), Write("ptr"), CFree("ptr") >>

rust_02_c_alloc_rust_free ==
  << Set("ptr", "malloc", <<any>>), Write("ptr"), RustFree("ptr") >>

rust_03_box_raw_c_free ==
  << Set("boxed", "_RZN3std3box8into_rawE", <<any>>), CFree("boxed") >>

rust_04_store_rust_ref ==
  << RustAlloc("rust_obj"), Copy("g_stored_rust_ref", "rust_obj"), RustFree("rust_obj"),
     Call("llvm.memset", <<v("g_stored_rust_ref"), any, any>>),
     Return({"g_stored_rust_ref"}) >>

rust_05_string_leak ==
  << Set("rust_string", "_RZN3std3string10into_rawEv", <<any>>),
     Call("printf", <<any, v("rust_string")>>) >>

rust_06_double_free_cross == << RustAlloc("ptr"), RustFree("ptr"), CFree("ptr") >>

rust_07_mut_alias_escape ==
  << RustAlloc("rust_mut_ref"), Copy("alias", "rust_mut_ref"),
     Write("rust_mut_ref"), Write("alias"), RustFree("rust_mut_ref") >>

rust_08_realloc_cross ==
  << RustAlloc("ptr"), Write("ptr"), Set("ptr", "realloc", <<v("ptr"), any>>),
     Call("strcat", <<v("ptr"), any>>), RustFree("ptr") >>

Functions ==
  << Fn("rust_01_alloc_c_free", {}, rust_01_alloc_c_free, {"bad_free"}),
     Fn("rust_02_c_alloc_rust_free", {}, rust_02_c_alloc_rust_free, {"bad_free"}),
     Fn("rust_03_box_raw_c_free", {}, rust_03_box_raw_c_free, {"bad_free"}),
     Fn("rust_04_store_rust_ref", {}, rust_04_store_rust_ref, {"use_after_free"}),
     Fn("rust_05_string_leak", {}, rust_05_string_leak, {"leak"}),
     Fn("rust_06_double_free_cross", {}, rust_06_double_free_cross, {"double_free"}),
     Fn("rust_07_mut_alias_escape", {}, rust_07_mut_alias_escape, {}),
     Fn("rust_08_realloc_cross", {}, rust_08_realloc_cross, {"bad_free"}) >>
=============================================================================
