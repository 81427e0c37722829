---------------------------- MODULE ZlibBinding ----------------------------
(* corpus/ffi-dense/zlib_binding.c: streams, gz files and a heap buffer.   *)
EXTENDS CBody

inflate_leak ==
  << Call("llvm.memset", <<at("strm"), any, any>>),
     Call("inflateInit", <<at("strm")>>) >>

deflate_leak ==
  << Call("llvm.memset", <<at("strm"), any, any>>),
     Call("deflateInit", <<at("strm"), any>>) >>

compress_overflow ==
  << Call("compress", <<v("output"), at("output_len"), v("input"), any>>) >>

use_after_free_example ==
  << Call("strlen", <<v("data")>>), Call("compressBound", <<any>>),
     Set("dest", "malloc", <<any>>),
     Call("compress", <<v("dest"), at("dest_len"), v("data"), any>>),
     Call("free", <<v("dest")>>) >>

double_free_example ==
  << Call("llvm.memset", <<at("strm"), any, any>>),
     Call("inflateInit", <<at("strm")>>),
     Set("strm.next_out", "malloc", <<any>>),
     Call("inflate", <<at("strm"), any>>),
     Call("free", <<v("strm.next_out")>>),
     Call("inflateEnd", <<at("strm")>>) >>

uninit_stream_example ==
  << Call("inflateInit", <<at("strm")>>),
     Call("inflateEnd", <<at("strm")>>) >>

error_path_leak ==
  << Call("llvm.memset", <<at("strm"), any, any>>),
     Set("ok", "deflateInit", <<at("strm"), any>>),
     Unless("ok", <<Return({})>>),
     Call("compressBound", <<any>>),
     Set("output", "malloc", <<any>>),
     Unless("output", <<Return({})>>),
     Call("compressBound", <<any>>),
     Call("deflate", <<at("strm"), any>>),
     Call("deflateEnd", <<at("strm")>>),
     Call("free", <<v("output")>>) >>

gzfile_leak ==
  << Set("file", "gzopen", <<v("path"), any>>),
     Unless("file", <<Return({})>>),
     Call("strlen", <<v("data")>>),
     Call("gzwrite", <<v("file"), v("data"), any>>) >>

unchecked_gzread ==
  << Set("file", "gzopen", <<v("path"), any>>),
     Unless("file", <<Return({})>>),
     Call("gzread", <<v("file"), at("buffer"), any>>),
     Call("gzclose", <<v("file")>>) >>

invalid_compression_level ==
  << Call("llvm.memset", <<at("strm"), any, any>>),
     Set("result", "deflateInit", <<at("strm"), any>>),
     Unless("result", <<Return({})>>),
     Call("deflateEnd", <<at("strm")>>) >>

\* Mutant: the error path does not end the stream.
MutCorrectCompress ==
  << Call("llvm.memset", <<at("strm"), any, any>>),
     Set("ok", "deflateInit", <<at("strm"), any>>),
     Unless("ok", <<Return({})>>),
     Call("compressBound", <<any>>),
     Set("ret", "deflate", <<at("strm"), any>>),
     Unless("ret", <<Return({})>>),
     Call("deflateEnd", <<at("strm")>>) >>

correct_compress ==
  << Call("llvm.memset", <<at("strm"), any, any>>),
     Set("ok", "deflateInit", <<at("strm"), any>>),
     Unless("ok", <<Return({})>>),
     Call("compressBound", <<any>>),
     Set("ret", "deflate", <<at("strm"), any>>),
     Unless("ret", <<Call("deflateEnd", <<at("strm")>>), Return({})>>),
     Call("deflateEnd", <<at("strm")>>) >>

main ==
  << Call("strlen", <<v("test_data")>>), Call("inflate_leak", <<v("test_data"), any>>),
     Call("strlen", <<v("test_data")>>), Call("deflate_leak", <<v("test_data"), any>>),
     Call("use_after_free_example", <<v("test_data")>>),
     Call("gzfile_leak", <<any, v("test_data")>>) >>

\* The label of use_after_free_example announces a use of dest that the code
\* does not make, the one of double_free_example a release of next_out by
\* inflateEnd that zlib does not make.
Functions ==
  << Fn("inflate_leak", {}, inflate_leak, {"leak"}),
     Fn("deflate_leak", {}, deflate_leak, {"leak"}),
     Fn("compress_overflow", {}, compress_overflow, {}),
     Fn("use_after_free_example", {}, use_after_free_example, {"use_after_free"}),
     Fn("double_free_example", {}, double_free_example, {"double_free"}),
     Fn("uninit_stream_example", {}, uninit_stream_example, {}),
     Fn("error_path_leak", {}, error_path_leak, {"leak"}),
     Fn("gzfile_leak", {}, gzfile_leak, {"leak"}),
     Fn("unchecked_gzread", {}, unchecked_gzread, {}),
     Fn("invalid_compression_level", {}, invalid_compression_level, {}),
     Fn("correct_compress", {}, correct_compress, {"safe"}),
     Fn("main", {}, main, {}) >>
=============================================================================
