---------------------------- MODULE BoundaryTest ----------------------------
(* corpus/medium/boundary_test.c: resources of other languages that C code *)
(* obtains through an out parameter.                                       *)
EXTENDS CBody

RustAlloc(x) == Call("_RZN4alloc5alloc17hba3a1b2c3d4e5f6g", <<x>>)
RustDrop(x) == Call("_RZN4core4drop9drop_in_place17hba3a1b2c3d4e5f6g", <<v(x)>>)
ZigAlloc(x) == Call("zig_allocator_allocImpl", <<at(x), any>>)
CgoAlloc(x) == Call("_cgo_allocate", <<at(x), any>>)
ZigFree(x) == Call("zig_allocator_freeImpl", <<v(x)>>)

null_ptr_ffi_boundary ==
  << Copy("ptr", "NULL"), RustAlloc(at("ptr")), When("ptr", <<RustDrop("ptr")>>) >>

zero_size_alloc == << ZigAlloc("ptr"), When("ptr", <<ZigFree("ptr")>>) >>
max_size_alloc == << ZigAlloc("ptr"), When("ptr", <<ZigFree("ptr")>>) >>
negative_size_alloc == << ZigAlloc("ptr"), When("ptr", <<ZigFree("ptr")>>) >>

buffer_near_overflow ==
  << Set("buffer", "malloc", <<any>>), Unless("buffer", <<Return({})>>),
     Call("strcpy", <<v("buffer"), any>>), Call("strncpy", <<v("buffer"), any, any>>),
     Deref("buffer"), Call("free", <<v("buffer")>>) >>

buffer_at_overflow ==
  << Set("buffer", "malloc", <<any>>), Unless("buffer", <<Return({})>>),
     Call("llvm.memset", <<at("long_str"), any, any>>),
     Call("strcpy", <<v("buffer"), at("long_str")>>),
     Call("free", <<v("buffer")>>) >>

\* The calls of the branch are written once: they release what is not null.
GiveUp == << When("node1", <<Call("free", <<v("node1")>>)>>),
             When("node2", <<Call("free", <<v("node2")>>)>>), Return({}) >>

create_circular_ownership ==
  << Set("node1", "malloc", <<any>>), Set("node2", "malloc", <<any>>),
     Copy("both", "node1"), When("both", <<Copy("both", "node2")>>),
     Unless("both", GiveUp),
     RustAlloc(at("node1->ffi_ptr")), RustAlloc(at("node2->ffi_ptr")),
     Copy("node1->next", "node2"), Copy("node2->next", "node1"),
     Return({"node1", "node2", "node1->ffi_ptr", "node2->ffi_ptr"}) >>

ffi_double_free ==
  << RustAlloc(at("ptr")), When("ptr", <<RustDrop("ptr"), RustDrop("ptr")>>) >>

ffi_use_after_free ==
  << RustAlloc(at("ptr")),
     When("ptr", <<RustDrop("ptr"), Copy("ptr2", "ptr")>>) >>

ownership_transfer_to_null ==
  << Copy("null_ptr", "NULL"), RustAlloc(at("ptr")), RustAlloc(v("null_ptr")) >>

ffi_in_error_path ==
  << RustAlloc(at("ptr")), Maybe(<<Return({})>>), RustDrop("ptr") >>

nested_ffi_partial_cleanup ==
  << RustAlloc(at("ptr1")), ZigAlloc("ptr2"), CgoAlloc("ptr3"),
     When("ptr1", <<RustDrop("ptr1")>>) >>

ffi_loop_early_exit ==
  << Repeat(<<RustAlloc(at("ptr")), Maybe(<<Return({})>>),
              When("ptr", <<RustDrop("ptr")>>)>>) >>

mixed_allocation_sources ==
  << RustAlloc(at("rust_ptr")), ZigAlloc("zig_ptr"), CgoAlloc("go_ptr"),
     Set("c_ptr", "malloc", <<any>>) >>

ffi_format_string ==
  << RustAlloc(at("ptr")), Copy("user_input", "ptr"),
     Call("printf", <<v("user_input")>>) >>

ffi_buffer_overflow ==
  << RustAlloc(at("ptr")), Copy("buffer", "ptr"),
     When("buffer", <<Call("strcpy", <<v("buffer"), any>>)>>) >>

allocation_size_overflow ==
  << Set("array", "malloc", <<any>>), When("array", <<Call("free", <<v("array")>>)>>) >>

ffi_realloc ==
  << RustAlloc(at("ptr")),
     When("ptr", <<Set("new_ptr", "realloc", <<v("ptr"), any>>)>>) >>

ffi_ptr_escape == << RustAlloc(at("ptr")), Return({"ptr"}) >>

store_ffi_ptr_global ==
  << RustAlloc(at("ptr")), Copy("global_ffi_ptr", "ptr"), Return({"global_ffi_ptr"}) >>

concurrent_ffi_allocs ==
  << RustAlloc(at("ptr1")), ZigAlloc("ptr2"), CgoAlloc("ptr3") >>

main ==
  << Call("null_ptr_ffi_boundary", <<>>), Call("zero_size_alloc", <<>>),
     Call("max_size_alloc", <<>>), Call("negative_size_alloc", <<>>),
     Call("buffer_near_overflow", <<>>), Call("buffer_at_overflow", <<>>),
     Set("circular", "create_circular_ownership", <<>>),
     When("circular", <<Call("free", <<v("circular")>>)>>),
     Call("ffi_double_free", <<>>), Call("ffi_use_after_free", <<>>),
     Call("ownership_transfer_to_null", <<>>), Call("ffi_in_error_path", <<any>>),
     Call("nested_ffi_partial_cleanup", <<>>), Call("ffi_loop_early_exit", <<any, any>>),
     Call("mixed_allocation_sources", <<>>), Call("ffi_format_string", <<>>),
     Call("ffi_buffer_overflow", <<>>), Call("allocation_size_overflow", <<>>),
     Call("ffi_realloc", <<>>), Set("", "ffi_ptr_escape", <<>>),
     Call("store_ffi_ptr_global", <<>>), Call("concurrent_ffi_allocs", <<>>) >>

\* create_circular_ownership is said to leak both nodes, and returns one from
\* which everything can be reached; ffi_use_after_free only copies the
\* pointer that it has released.
Functions ==
  << Fn("null_ptr_ffi_boundary", {}, null_ptr_ffi_boundary, {}),
     Fn("zero_size_alloc", {}, zero_size_alloc, {}),
     Fn("max_size_alloc", {}, max_size_alloc, {}),
     Fn("negative_size_alloc", {}, negative_size_alloc, {}),
     Fn("buffer_near_overflow", {}, buffer_near_overflow, {}),
     Fn("buffer_at_overflow", {}, buffer_at_overflow, {}),
     Fn("create_circular_ownership", {}, create_circular_ownership, {"leak"}),
     Fn("ffi_double_free", {}, ffi_double_free, {"double_free"}),
     Fn("ffi_use_after_free", {}, ffi_use_after_free, {"use_after_free"}),
     Fn("ownership_transfer_to_null", {}, ownership_transfer_to_null, {}),
     Fn("ffi_in_error_path", {}, ffi_in_error_path, {"leak"}),
     Fn("nested_ffi_partial_cleanup", {}, nested_ffi_partial_cleanup, {"leak"}),
     Fn("ffi_loop_early_exit", {}, ffi_loop_early_exit, {"leak"}),
     Fn("mixed_allocation_sources", {}, mixed_allocation_sources, {"leak"}),
     Fn("ffi_format_string", {}, ffi_format_string, {}),
     Fn("ffi_buffer_overflow", {}, ffi_buffer_overflow, {}),
     Fn("allocation_size_overflow", {}, allocation_size_overflow, {}),
     Fn("ffi_realloc", {}, ffi_realloc, {"bad_free"}),
     Fn("ffi_ptr_escape", {}, ffi_ptr_escape, {"handed_out"}),
     Fn("store_ffi_ptr_global", {}, store_ffi_ptr_global, {"handed_out"}),
     Fn("concurrent_ffi_allocs", {}, concurrent_ffi_allocs, {"leak"}),
     Fn("main", {}, main, {}) >>
=============================================================================
