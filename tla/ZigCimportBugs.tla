--------------------------- MODULE ZigCimportBugs ---------------------------
(* corpus/red_team_test/zig_cimport_ffi_bugs.c: the allocators of Zig      *)
(* beside the heap of C.                                                   *)
EXTENDS CBody

ZigAlloc(x, n) == Set(x, "zig_alloc", <<i64(n)>>)
PageAlloc(x, n) == Set(x, "PageAllocator_alloc", <<i64(n)>>)
PoolAlloc(x, n) == Set(x, "GeneralPoolAllocator_alloc", <<i64(n)>>)
ArenaAlloc(x, n) == Set(x, "ArenaAllocator_alloc", <<any, i64(n)>>)
Malloc(x, n) == Set(x, "malloc", <<i64(n)>>)
Fill(x) == Call("llvm.memset", <<v(x), any, any>>)
ZigFree(x, n) == Call("__zig_dealloc", <<v(x), i64(n)>>)
PageFree(x) == Call("PageAllocator_free", <<v(x)>>)
PoolFree(x, n) == Call("GeneralPoolAllocator_free", <<v(x), i64(n)>>)
CFree(x) == Call("free", <<v(x)>>)

tc1_zig_alloc_c_free == << ZigAlloc("zig_mem", 1024), Fill("zig_mem"), CFree("zig_mem") >>
tc2_c_malloc_zig_dealloc == << Malloc("c_mem", 2048), Fill("c_mem"), ZigFree("c_mem", 2048) >>
tc3_pagealloc_c_free == << PageAlloc("page_mem", 4096), Fill("page_mem"), CFree("page_mem") >>
tc4_c_malloc_pagefree == << Malloc("c_mem", 8192), Fill("c_mem"), PageFree("c_mem") >>

tc5_correct_zig_memory ==
  << PoolAlloc("gpa_mem", 512), Fill("gpa_mem"), PoolFree("gpa_mem", 512),
     PageAlloc("page_mem", 16384), Fill("page_mem"), PageFree("page_mem") >>

tc6_arena_leak ==
  << ArenaAlloc("item1", 256), ArenaAlloc("item2", 512), ArenaAlloc("item3", 1024),
     Fill("item1"), Fill("item2"), Fill("item3") >>

tc7_mixed_allocator_chaos ==
  << PoolAlloc("gpa_buf", 1024), Malloc("c_bridge", 2048), PageAlloc("shm_buf", 4096),
     ZigAlloc("zig_buf", 512),
     Fill("gpa_buf"), Fill("c_bridge"), Fill("shm_buf"), Fill("zig_buf"),
     CFree("gpa_buf"), PageFree("c_bridge"), ZigFree("shm_buf", 4096),
     PoolFree("zig_buf", 512) >>

Functions ==
  << Fn("tc1_zig_alloc_c_free", {}, tc1_zig_alloc_c_free, {"bad_free"}),
     Fn("tc2_c_malloc_zig_dealloc", {}, tc2_c_malloc_zig_dealloc, {"bad_free"}),
     Fn("tc3_pagealloc_c_free", {}, tc3_pagealloc_c_free, {"bad_free"}),
     Fn("tc4_c_malloc_pagefree", {}, tc4_c_malloc_pagefree, {"bad_free"}),
     Fn("tc5_correct_zig_memory", {}, tc5_correct_zig_memory, {"safe"}),
     Fn("tc6_arena_leak", {}, tc6_arena_leak, {"leak"}),
     Fn("tc7_mixed_allocator_chaos", {}, tc7_mixed_allocator_chaos, {"bad_free"}) >>
=============================================================================
