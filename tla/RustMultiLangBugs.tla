------------------------- MODULE RustMultiLangBugs -------------------------
(* corpus/red_team_test/rust_multi_lang_ffi_bugs.c: the heaps of Rust and  *)
(* of .NET beside the heap of C.                                           *)
EXTENDS CBody

RustAlloc(x, n, a) == Set(x, "__rust_alloc", <<i64(n), i64(a)>>)
Malloc(x, n) == Set(x, "malloc", <<i64(n)>>)
NetAlloc(x) == Set(x, "Marshal_AllocHGlobal", <<any>>)
Fill(x) == Call("llvm.memset", <<v(x), any, any>>)
RustFree(x, n, a) == Call("__rust_dealloc", <<v(x), i64(n), i64(a)>>)
NetFree(x) == Call("Marshal_FreeHGlobal", <<v(x)>>)
CFree(x) == Call("free", <<v(x)>>)

tc1_rust_alloc_c_free == << RustAlloc("rust_mem", 1024, 8), Fill("rust_mem"), CFree("rust_mem") >>

tc2_c_malloc_rust_dealloc ==
  << Malloc("c_mem", 2048), Fill("c_mem"), RustFree("c_mem", 2048, 1) >>

tc3_rust_alloc_csharp_free ==
  << RustAlloc("rust_obj", 4096, 16), Fill("rust_obj"), NetFree("rust_obj") >>

tc4_csharp_alloc_rust_free ==
  << NetAlloc("com_mem"), Fill("com_mem"), RustFree("com_mem", 8192, 16) >>

tc5_correct_rust_memory ==
  << RustAlloc("data", 512, 8), Fill("data"), RustFree("data", 512, 8),
     RustAlloc("aligned", 1024, 32), Fill("aligned"), RustFree("aligned", 1024, 32) >>

tc6_box_leak_ownership_transfer ==
  << RustAlloc("leaked", 256, 8), Fill("leaked"), CFree("leaked") >>

tc7_triple_lang_chaos ==
  << RustAlloc("rust_core", 16384, 16), Malloc("c_io_buf", 8192), NetAlloc("net_ui"),
     RustAlloc("rust_cache", 32768, 64),
     Fill("rust_core"), Fill("c_io_buf"), Fill("net_ui"), Fill("rust_cache"),
     CFree("rust_core"), RustFree("c_io_buf", 8192, 1), RustFree("net_ui", 4096, 16),
     NetFree("rust_cache") >>

\* tc6 is labelled safe, for an ownership transfer of which the code shows
\* nothing: its pair of calls is the one labelled a bug in tc1.
Functions ==
  << Fn("tc1_rust_alloc_c_free", {}, tc1_rust_alloc_c_free, {"bad_free"}),
     Fn("tc2_c_malloc_rust_dealloc", {}, tc2_c_malloc_rust_dealloc, {"bad_free"}),
     Fn("tc3_rust_alloc_csharp_free", {}, tc3_rust_alloc_csharp_free, {"bad_free"}),
     Fn("tc4_csharp_alloc_rust_free", {}, tc4_csharp_alloc_rust_free, {"bad_free"}),
     Fn("tc5_correct_rust_memory", {}, tc5_correct_rust_memory, {"safe"}),
     Fn("tc6_box_leak_ownership_transfer", {}, tc6_box_leak_ownership_transfer, {"safe"}),
     Fn("tc7_triple_lang_chaos", {}, tc7_triple_lang_chaos, {"bad_free"}) >>
=============================================================================
