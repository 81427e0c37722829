------------------------------ MODULE MCCorpus ------------------------------
(* The corpus and the example programs written in C.                       *)
EXTENDS Corpus

P1 == INSTANCE ZlibBinding
P2 == INSTANCE OpensslWrapper
P3 == INSTANCE SqliteBinding
P4 == INSTANCE SimpleFFI
P5 == INSTANCE NetworkFFI
P6 == INSTANCE BoundaryTest
P7 == INSTANCE StressPatterns
P8 == INSTANCE CppOperatorNewBugs
P9 == INSTANCE GoCgoBugs
P10 == INSTANCE GoTinygoBugs
P11 == INSTANCE CsharpBugs
P12 == INSTANCE RustBugs
P13 == INSTANCE RustMultiLangBugs
P14 == INSTANCE ZigCimportBugs
P15 == INSTANCE DangerousC
P16 == INSTANCE ExampleOpenssl
P17 == INSTANCE ExampleSqlite
P18 == INSTANCE ExampleZlib

Prog(name, functions) == [name |-> name, functions |-> functions]
AllPrograms ==
  { Prog("zlib_binding", P1!Functions), Prog("openssl_wrapper", P2!Functions),
    Prog("sqlite_binding", P3!Functions), Prog("simple_ffi", P4!Functions),
    Prog("network_ffi", P5!Functions), Prog("boundary_test", P6!Functions),
    Prog("stress_patterns", P7!Functions), Prog("cpp_operator_new", P8!Functions),
    Prog("go_cgo", P9!Functions), Prog("go_tinygo", P10!Functions),
    Prog("csharp_win32", P11!Win32Functions), Prog("csharp", P11!Functions),
    Prog("rust", P12!Functions), Prog("rust_multi_lang", P13!Functions),
    Prog("zig_cimport", P14!Functions), Prog("dangerous", P15!Functions),
    Prog("openssl_ffi", P16!Functions), Prog("sqlite_ffi", P17!Functions),
    Prog("zlib_ffi", P18!Functions) }
=============================================================================
