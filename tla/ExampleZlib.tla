---------------------------- MODULE ExampleZlib ----------------------------
(* examples/real_world/zlib_ffi.c: the zlib API over mocks, which are      *)
(* functions of the program like the others.                               *)
EXTENDS CBody

DeflateInit(x) == << Call("llvm.memset", <<at(x), any, any>>),
                     Set("ret", "deflateInit", <<at(x), any>>),
                     Unless("ret", <<Return({})>>) >>
DeflateEnd(x) == Call("deflateEnd", <<at(x)>>)

gzopen == << Set("new", "malloc", <<any>>), Return({"new"}) >>
gzclose == << Call("free", <<v("file")>>) >>

compress_data == DeflateInit("strm") \o <<DeflateEnd("strm")>>

decompress_data ==
  << Call("llvm.memset", <<at("strm"), any, any>>),
     Set("ret", "inflateInit", <<at("strm")>>), Unless("ret", <<Return({})>>),
     Call("inflateEnd", <<at("strm")>>) >>

CloseAll == << Call("fclose", <<v("src")>>), Call("gzclose", <<v("dest")>>) >>

compress_file ==
  << Set("src", "fopen", <<v("src_filename"), any>>), Unless("src", <<Return({})>>),
     Set("dest", "gzopen", <<v("dest_filename"), any>>),
     Unless("dest", <<Call("fclose", <<v("src")>>), Return({})>>),
     Repeat(<<Call("fread", <<at("buffer"), any, any, v("src")>>),
              Set("written", "gzwrite", <<v("dest"), at("buffer"), any>>),
              Unless("written", CloseAll \o <<Return({})>>)>>) >> \o CloseAll

process_with_zlib_leak ==
  DeflateInit("strm1") \o DeflateInit("strm2") \o
  <<DeflateEnd("strm1"), DeflateEnd("strm2")>>

double_free_zlib == << Call("gzclose", <<v("file")>>), Call("gzclose", <<v("file")>>) >>

allocate_compression_buffer ==
  << Set("buf", "malloc", <<any>>), Unless("buf", <<Return({})>>), Return({"buf"}) >>

correct_zlib_pattern == DeflateInit("strm") \o <<DeflateEnd("strm")>>

use_after_free_zlib ==
  << Call("gzclose", <<v("file")>>), Call("gzwrite", <<v("file"), any, any>>) >>

\* The mocks of streams do nothing.
Functions ==
  << Fn("deflateInit", {}, <<>>, {}), Fn("deflateEnd", {}, <<>>, {}),
     Fn("inflateInit", {}, <<>>, {}), Fn("inflateEnd", {}, <<>>, {}),
     Fn("deflate", {}, <<>>, {}), Fn("inflate", {}, <<>>, {}),
     Fn("gzopen", {}, gzopen, {}), Fn("gzclose", {"file"}, gzclose, {}),
     Fn("gzwrite", {}, <<>>, {}), Fn("gzread", {}, <<>>, {}),
     Fn("compress_data", {}, compress_data, {}),
     Fn("decompress_data", {}, decompress_data, {}),
     Fn("compress_file", {}, compress_file, {}),
     Fn("process_with_zlib_leak", {}, process_with_zlib_leak, {"leak"}),
     Fn("double_free_zlib", {"file"}, double_free_zlib, {"double_free"}),
     Fn("allocate_compression_buffer", {}, allocate_compression_buffer, {"handed_out"}),
     Fn("correct_zlib_pattern", {}, correct_zlib_pattern, {"safe"}),
     Fn("use_after_free_zlib", {"file"}, use_after_free_zlib, {"use_after_free"}) >>
=============================================================================
