--------------------------- MODULE ExampleOpenssl ---------------------------
(* examples/real_world/openssl_ffi.c: the OpenSSL API over mocks, which    *)
(* are functions of the program like the others.                           *)
EXTENDS CBody

\* The mocks: an allocation handed out, the release of what is given.
New == << Set("new", "malloc", <<any>>), Return({"new"}) >>
Free == << Call("free", <<v("ptr")>>) >>

create_cipher_context ==
  << Set("ctx", "EVP_CIPHER_CTX_new", <<>>), Unless("ctx", <<Return({})>>),
     Return({"ctx"}) >>

\* init_failed is 0: the branch is there, and is never taken.
encrypt_data ==
  << Set("ctx", "EVP_CIPHER_CTX_new", <<>>), Unless("ctx", <<Return({})>>),
     Copy("init_failed", "NULL"), When("init_failed", <<Return({})>>),
     Call("EVP_CIPHER_CTX_free", <<v("ctx")>>) >>

process_with_cleanup ==
  << Set("buffer", "malloc", <<any>>), Unless("buffer", <<Return({})>>),
     Call("llvm.memcpy", <<v("buffer"), v("data"), any>>),
     Call("free", <<v("buffer")>>), Maybe(<<Call("free", <<v("buffer")>>)>>) >>

create_bio_buffer ==
  << Set("bio", "BIO_new", <<any>>), Unless("bio", <<Return({})>>), Return({"bio"}) >>

load_private_key ==
  << Set("bio", "BIO_new_file", <<v("filename"), any>>), Unless("bio", <<Return({})>>),
     Set("pkey", "PEM_read_bio_PrivateKey", <<v("bio"), any, any, any>>),
     Unless("pkey", <<Call("BIO_free", <<v("bio")>>), Return({})>>),
     Call("BIO_free", <<v("bio")>>), Return({"pkey"}) >>

create_ssl_context ==
  << Set("method", "TLS_server_method", <<>>), Set("ctx", "SSL_CTX_new", <<any>>),
     Unless("ctx", <<Return({})>>), Return({"ctx"}) >>

process_data_with_leak ==
  << Set("buffer1", "malloc", <<any>>), Unless("buffer1", <<Return({})>>),
     Set("buffer2", "malloc", <<any>>), Unless("buffer2", <<Return({})>>),
     Set("buffer3", "malloc", <<any>>),
     Unless("buffer3", <<Call("free", <<v("buffer2")>>), Return({})>>),
     Call("free", <<v("buffer1")>>), Call("free", <<v("buffer2")>>),
     Call("free", <<v("buffer3")>>) >>

use_after_free_example ==
  << Set("buffer", "malloc", <<any>>), Unless("buffer", <<Return({})>>),
     Call("llvm.memcpy", <<v("buffer"), v("data"), any>>),
     Call("free", <<v("buffer")>>), Maybe(<<Deref("buffer")>>) >>

allocate_without_free ==
  << Set("data", "malloc", <<any>>), Unless("data", <<Return({})>>),
     Call("llvm.memset", <<v("data"), any, any>>), Return({"data"}) >>

correct_pattern_example ==
  << Set("buffer", "malloc", <<any>>), Unless("buffer", <<Return({})>>),
     Set("aux", "malloc", <<any>>),
     Unless("aux", <<Call("free", <<v("buffer")>>), Return({})>>),
     Call("free", <<v("buffer")>>), Call("free", <<v("aux")>>) >>

\* encrypt_data cannot take the error path on which its context is said to
\* leak, load_private_key releases its BIO on the path said to leak it.
Functions ==
  << Fn("EVP_CIPHER_CTX_new", {}, New, {}), Fn("EVP_CIPHER_CTX_free", {"ptr"}, Free, {}),
     Fn("BIO_new", {}, New, {}), Fn("BIO_new_file", {}, New, {}),
     Fn("BIO_free", {"ptr"}, Free, {}), Fn("PEM_read_bio_PrivateKey", {}, New, {}),
     Fn("EVP_PKEY_free", {"ptr"}, Free, {}), Fn("SSL_CTX_new", {}, New, {}),
     Fn("SSL_CTX_free", {"ptr"}, Free, {}), Fn("TLS_server_method", {}, <<>>, {}),
     Fn("create_cipher_context", {}, create_cipher_context, {"handed_out"}),
     Fn("encrypt_data", {}, encrypt_data, {"leak"}),
     Fn("process_with_cleanup", {}, process_with_cleanup, {"double_free"}),
     Fn("create_bio_buffer", {}, create_bio_buffer, {"handed_out"}),
     Fn("load_private_key", {}, load_private_key, {"handed_out", "leak"}),
     Fn("create_ssl_context", {}, create_ssl_context, {"handed_out"}),
     Fn("process_data_with_leak", {}, process_data_with_leak, {"leak"}),
     Fn("use_after_free_example", {}, use_after_free_example, {"use_after_free"}),
     Fn("allocate_without_free", {}, allocate_without_free, {"handed_out"}),
     Fn("correct_pattern_example", {}, correct_pattern_example, {"safe"}) >>
=============================================================================
