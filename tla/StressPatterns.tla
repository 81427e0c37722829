--------------------------- MODULE StressPatterns ---------------------------
(* corpus/large/stress_patterns.c: resources of one language released by   *)
(* another, and chains of them.  One function stands for the twenty that   *)
(* each macro generates.                                                   *)
EXTENDS CBody

RustAlloc(x) == Call("_RZN4alloc5alloc17hba3a1b2c3d4e5f6g", <<at(x)>>)
RustDrop(x) == Call("_RZN4core4drop9drop_in_place17hba3a1b2c3d4e5f6g", <<v(x)>>)
ZigAlloc(x, n) == Call("zig_allocator_allocImpl", <<at(x), i64(n)>>)
CgoAlloc(x, n) == Call("_cgo_allocate", <<at(x), i64(n)>>)
CFree(x) == Call("free", <<v(x)>>)

rust_alloc_c_free_mismatch ==
  << Set("ptr", "__rust_alloc", <<i64(128), i64(8)>>), CFree("ptr") >>

c_malloc_rust_dealloc_mismatch ==
  << Set("ptr", "malloc", <<i64(128)>>),
     Call("__rust_dealloc", <<v("ptr"), i64(128), i64(8)>>) >>

cpp_rust_mismatch == << RustAlloc("ptr"), When("ptr", <<CFree("ptr")>>) >>

rust_c_mismatch ==
  << Set("ptr", "malloc", <<i64(64)>>), When("ptr", <<RustDrop("ptr")>>) >>

zig_allocImpl_c_mismatch ==
  << Set("ptr", "malloc", <<i64(64)>>),
     When("ptr", <<Call("zig_allocator_freeImpl", <<v("ptr")>>)>>) >>

c_zig_mismatch == << ZigAlloc("ptr", 64), When("ptr", <<CFree("ptr")>>) >>

ffi_alloc == << RustAlloc("ptr") >>

ffi_mismatch == << Set("ptr", "malloc", <<i64(64)>>), RustDrop("ptr") >>

ffi_chain == << RustAlloc("ptr1"), ZigAlloc("ptr2", 64), CgoAlloc("ptr3", 64) >>

\* The calls of the branch are written once: they release what is not null.
GiveUp ==
  << When("bundle->rust_ptr", <<RustDrop("bundle->rust_ptr")>>),
     When("bundle->zig_ptr", <<Call("zig_allocator_freeImpl", <<v("bundle->zig_ptr")>>)>>),
     When("bundle->go_ptr", <<Call("_cgo_free", <<v("bundle->go_ptr")>>)>>),
     When("bundle->c_ptr", <<CFree("bundle->c_ptr")>>), Return({}) >>

create_ffi_bundle ==
  << Set("bundle", "malloc", <<i64(32)>>), Unless("bundle", <<Return({})>>),
     RustAlloc("bundle->rust_ptr"), ZigAlloc("bundle->zig_ptr", 128),
     CgoAlloc("bundle->go_ptr", 128), Set("bundle->c_ptr", "malloc", <<i64(128)>>),
     Copy("all", "bundle->rust_ptr"), When("all", <<Copy("all", "bundle->zig_ptr")>>),
     When("all", <<Copy("all", "bundle->go_ptr")>>),
     When("all", <<Copy("all", "bundle->c_ptr")>>), Unless("all", GiveUp),
     Return({"bundle", "bundle->rust_ptr", "bundle->zig_ptr", "bundle->go_ptr",
             "bundle->c_ptr"}) >>

cross_lang_transfer ==
  << RustAlloc("ptr"), Copy("*ptr_out", "ptr"), Return({"*ptr_out"}) >>

recursive_ffi_alloc ==
  << Maybe(<<Return({})>>), RustAlloc("ptr"), Call("recursive_ffi_alloc", <<any>>) >>

loop_ffi_alloc == << Repeat(<<ZigAlloc("ptr", 64)>>) >>

create_complex_ffi_struct ==
  << Set("cfs", "malloc", <<i64(32)>>), Unless("cfs", <<Return({})>>),
     Set("cfs->bundle", "create_ffi_bundle", <<>>),
     Set("cfs->data", "malloc", <<i64(256)>>),
     Set("cfs->ptr_array", "malloc", <<any>>),
     Repeat(<<CgoAlloc("cfs->ptr_array[i]", 64)>>),
     Copy("all", "cfs->bundle"), When("all", <<Copy("all", "cfs->data")>>),
     When("all", <<Copy("all", "cfs->ptr_array")>>),
     Unless("all", <<When("cfs->data", <<CFree("cfs->data")>>),
                     When("cfs->ptr_array", <<CFree("cfs->ptr_array")>>),
                     Return({})>>),
     Return({"cfs", "cfs->bundle", "cfs->data", "cfs->ptr_array", "cfs->ptr_array[i]"}) >>

ffi_boundary_stress ==
  << RustAlloc("ptr1"), ZigAlloc("ptr2", 64), CgoAlloc("ptr3", 64),
     RustAlloc("ptr4"), ZigAlloc("ptr5", 128) >>

main ==
  << Call("_Z12cpp_rust_mismatchv", <<>>),
     Call("_RZN12rust_c_mismatch17hba3a1b2c3d4e5f6g", <<>>),
     Call("zig_allocImpl_c_mismatch", <<>>), Call("c_zig_mismatch", <<>>),
     Call("rust_alloc_c_free_mismatch", <<>>),
     Call("c_malloc_rust_dealloc_mismatch", <<>>),
     Call("ffi_alloc", <<>>), Call("ffi_mismatch", <<>>), Call("ffi_chain", <<>>),
     Call("create_ffi_bundle", <<>>), Call("cross_lang_transfer", <<at("ptr")>>),
     Call("recursive_ffi_alloc", <<any>>), Call("loop_ffi_alloc", <<any>>),
     Call("create_complex_ffi_struct", <<i64(50)>>), Call("ffi_boundary_stress", <<>>) >>

Functions ==
  << Fn("rust_alloc_c_free_mismatch", {}, rust_alloc_c_free_mismatch, {"bad_free"}),
     Fn("c_malloc_rust_dealloc_mismatch", {}, c_malloc_rust_dealloc_mismatch, {"bad_free"}),
     Fn("_Z12cpp_rust_mismatchv", {}, cpp_rust_mismatch, {"bad_free"}),
     Fn("_RZN12rust_c_mismatch17hba3a1b2c3d4e5f6g", {}, rust_c_mismatch, {"bad_free"}),
     Fn("zig_allocImpl_c_mismatch", {}, zig_allocImpl_c_mismatch, {"bad_free"}),
     Fn("c_zig_mismatch", {}, c_zig_mismatch, {"bad_free"}),
     Fn("ffi_alloc", {}, ffi_alloc, {"leak"}),
     Fn("ffi_mismatch", {}, ffi_mismatch, {"bad_free"}),
     Fn("ffi_chain", {}, ffi_chain, {"leak"}),
     Fn("create_ffi_bundle", {}, create_ffi_bundle, {"leak"}),
     Fn("cross_lang_transfer", {}, cross_lang_transfer, {"handed_out"}),
     Fn("recursive_ffi_alloc", {}, recursive_ffi_alloc, {"leak"}),
     Fn("loop_ffi_alloc", {}, loop_ffi_alloc, {"leak"}),
     Fn("create_complex_ffi_struct", {}, create_complex_ffi_struct, {"leak"}),
     Fn("ffi_boundary_stress", {}, ffi_boundary_stress, {"leak"}),
     Fn("main", {}, main, {}) >>
=============================================================================
