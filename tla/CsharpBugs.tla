----------------------------- MODULE CsharpBugs -----------------------------
(* The heaps of .NET, of COM and of Win32 beside the heap of C.            *)
EXTENDS CBody

Fill(x) == Call("llvm.memset", <<v(x), any, any>>)
Write(x) == Call("llvm.memcpy", <<v(x), any, any>>)
NetFree(x) == Call("Marshal_FreeHGlobal", <<v(x)>>)
CFree(x) == Call("free", <<v(x)>>)

-----------------------------------------------------------------------------
(* corpus/red_team_test/csharp_win32_ffi_bugs.c.                           *)

NetAlloc(x) == Set(x, "Marshal_AllocHGlobal", <<any>>)
ComAlloc(x) == Set(x, "CoTaskMemAlloc", <<any>>)
Malloc(x) == Set(x, "malloc", <<any>>)

tc1_marshal_alloc_c_free == << NetAlloc("net_mem"), Fill("net_mem"), CFree("net_mem") >>
tc2_com_alloc_c_free == << ComAlloc("com_mem"), Fill("com_mem"), CFree("com_mem") >>
tc3_c_malloc_net_free == << Malloc("c_mem"), Fill("c_mem"), NetFree("c_mem") >>

tc4_heapalloc_localfree ==
  << Set("heap_mem", "HeapAlloc", <<any, any, any>>), Fill("heap_mem"),
     Call("LocalFree", <<v("heap_mem")>>) >>

tc5_correct_pinvoke == << NetAlloc("buffer"), Fill("buffer"), NetFree("buffer") >>
tc6_com_leak == << ComAlloc("leaked"), Fill("leaked") >>

tc7_mixed_win32_com_pinvoke ==
  << NetAlloc("pinvoke_buf"), ComAlloc("com_obj"),
     Set("local_buf", "LocalAlloc", <<any, any>>), Malloc("std_buf"),
     Fill("pinvoke_buf"), Fill("com_obj"), Fill("local_buf"), Fill("std_buf"),
     CFree("pinvoke_buf"), NetFree("com_obj"), CFree("local_buf"),
     Call("CoTaskMemFree", <<v("std_buf")>>) >>

Win32Functions ==
  << Fn("tc1_marshal_alloc_c_free", {}, tc1_marshal_alloc_c_free, {"bad_free"}),
     Fn("tc2_com_alloc_c_free", {}, tc2_com_alloc_c_free, {"bad_free"}),
     Fn("tc3_c_malloc_net_free", {}, tc3_c_malloc_net_free, {"bad_free"}),
     Fn("tc4_heapalloc_localfree", {}, tc4_heapalloc_localfree, {"bad_free"}),
     Fn("tc5_correct_pinvoke", {}, tc5_correct_pinvoke, {"safe"}),
     Fn("tc6_com_leak", {}, tc6_com_leak, {"leak"}),
     Fn("tc7_mixed_win32_com_pinvoke", {}, tc7_mixed_win32_com_pinvoke, {"bad_free"}) >>

-----------------------------------------------------------------------------
(* corpus/red_team_test/csharp_ffi_bugs.c, with every allocation checked.  *)

\* x = f(n); if (!x) return;
Alloc(x, f) == <<Set(x, f, <<any>>), Unless(x, <<Return({})>>)>>

cs_01_csharp_alloc_c_free ==
  Alloc("ptr", "Marshal_AllocHGlobal") \o <<Fill("ptr"), CFree("ptr")>>

cs_02_c_alloc_csharp_free ==
  Alloc("ptr", "malloc") \o <<Write("ptr"), NetFree("ptr")>>

cs_03_com_alloc_leak == Alloc("com_data", "CoTaskMemAlloc") \o <<Fill("com_data")>>

cs_04_double_free_global ==
  Alloc("buf", "Marshal_AllocHGlobal") \o
  <<Call("strcpy", <<v("buf"), any>>), NetFree("buf"), NetFree("buf")>>

cs_05_com_alloc_c_free ==
  Alloc("com_ptr", "CoTaskMemAlloc") \o <<Fill("com_ptr"), CFree("com_ptr")>>

cs_06_runtime_alloc_c_free ==
  Alloc("obj", "RhpNewFast") \o <<Fill("obj"), CFree("obj")>>

cs_safe_correct_pair ==
  Alloc("buf", "Marshal_AllocHGlobal") \o <<Write("buf"), NetFree("buf")>>

Functions ==
  << Fn("cs_01_csharp_alloc_c_free", {}, cs_01_csharp_alloc_c_free, {"bad_free"}),
     Fn("cs_02_c_alloc_csharp_free", {}, cs_02_c_alloc_csharp_free, {"bad_free"}),
     Fn("cs_03_com_alloc_leak", {}, cs_03_com_alloc_leak, {"leak"}),
     Fn("cs_04_double_free_global", {}, cs_04_double_free_global, {"double_free"}),
     Fn("cs_05_com_alloc_c_free", {}, cs_05_com_alloc_c_free, {"bad_free"}),
     Fn("cs_06_runtime_alloc_c_free", {}, cs_06_runtime_alloc_c_free, {"bad_free"}),
     Fn("cs_safe_correct_pair", {}, cs_safe_correct_pair, {"safe"}) >>
=============================================================================
