--------------------------- MODULE OpensslWrapper ---------------------------
(* corpus/ffi-dense/openssl_wrapper.c: contexts, BIOs, keys, certificates. *)
EXTENDS CBody

encrypt_leak_ctx ==
  << Set("ctx", "EVP_CIPHER_CTX_new", <<>>), Unless("ctx", <<Return({})>>) >>

bio_leak ==
  << Call("BIO_s_mem", <<>>), Set("bio", "BIO_new", <<any>>),
     Call("strlen", <<v("data")>>),
     Call("BIO_write", <<v("bio"), v("data"), any>>) >>

rsa_key_leak ==
  << Set("rsa", "RSA_new", <<>>), Set("bn", "BN_new", <<>>),
     Call("BN_set_word", <<v("bn"), any>>),
     Call("RSA_generate_key_ex", <<v("rsa"), any, v("bn"), any>>),
     Call("BN_free", <<v("bn")>>) >>

encrypt_unchecked ==
  << Set("ctx", "EVP_CIPHER_CTX_new", <<>>),
     Call("llvm.memset", <<at("key"), any, any>>),
     Call("llvm.memset", <<at("iv"), any, any>>),
     Call("EVP_aes_128_cbc", <<>>),
     Call("EVP_EncryptInit_ex", <<v("ctx"), any, any, at("key"), at("iv")>>),
     Call("EVP_EncryptUpdate", <<v("ctx"), v("ciphertext"), at("len"), v("plaintext"), any>>),
     Call("EVP_CIPHER_CTX_free", <<v("ctx")>>) >>

weak_random ==
  << Call("llvm.memcpy", <<at("seed"), any, any>>),
     Call("RAND_seed", <<at("seed"), any>>),
     Call("RAND_bytes", <<v("buf"), any>>) >>

password_handling ==
  << Call("strncpy", <<at("pwd"), v("password"), any>>) >>

ssl_ctx_leak ==
  << Call("TLS_method", <<>>), Set("ctx", "SSL_CTX_new", <<any>>),
     Unless("ctx", <<Return({})>>) >>

x509_leak ==
  << Set("cert", "X509_new", <<>>), Unless("cert", <<Return({})>>) >>

unprotected_key ==
  << Copy("pkey", "NULL"),
     Set("ctx", "EVP_PKEY_CTX_new_id", <<any, any>>),
     Call("EVP_PKEY_keygen_init", <<v("ctx")>>),
     Call("EVP_PKEY_CTX_set_rsa_keygen_bits", <<v("ctx"), any>>),
     Call("EVP_PKEY_keygen", <<v("ctx"), at("pkey")>>),
     Call("EVP_PKEY_CTX_free", <<v("ctx")>>),
     Call("EVP_PKEY_free", <<v("pkey")>>) >>

error_handling_bug ==
  << Set("bio", "BIO_new_file", <<v("cert_path"), any>>),
     Unless("bio", <<Call("ERR_print_errors_fp", <<any>>), Return({})>>),
     Set("cert", "PEM_read_bio_X509", <<v("bio"), any, any, any>>),
     Unless("cert", <<Call("ERR_print_errors_fp", <<any>>), Return({})>>),
     Call("BIO_free", <<v("bio")>>),
     Call("X509_free", <<v("cert")>>) >>

\* Every check of correct_encryption releases the context before it returns.
FreeAndReturn == <<Call("EVP_CIPHER_CTX_free", <<v("ctx")>>), Return({})>>

correct_encryption ==
  << Set("ctx", "EVP_CIPHER_CTX_new", <<>>), Unless("ctx", <<Return({})>>),
     Set("ok", "RAND_bytes", <<at("iv"), any>>), Unless("ok", FreeAndReturn),
     Call("EVP_aes_256_cbc", <<>>),
     Set("ok", "EVP_EncryptInit_ex", <<v("ctx"), any, any, v("key"), at("iv")>>),
     Unless("ok", FreeAndReturn),
     Set("ok", "EVP_EncryptUpdate", <<v("ctx"), v("ciphertext"), at("out_len"), v("plaintext"), any>>),
     Unless("ok", FreeAndReturn),
     Set("ok", "EVP_EncryptFinal_ex", <<v("ctx"), any, at("final_len")>>),
     Unless("ok", FreeAndReturn),
     Call("EVP_CIPHER_CTX_free", <<v("ctx")>>) >>

main ==
  << Call("OpenSSL_add_all_algorithms", <<>>), Call("SSL_load_error_strings", <<>>),
     Call("encrypt_leak_ctx", <<any, any>>), Call("bio_leak", <<any>>),
     Call("rsa_key_leak", <<>>), Call("encrypt_unchecked", <<any, any>>),
     Call("weak_random", <<at("buf"), any>>), Call("password_handling", <<any>>),
     Call("EVP_cleanup", <<>>), Call("ERR_free_strings", <<>>) >>

Functions ==
  << Fn("encrypt_leak_ctx", {}, encrypt_leak_ctx, {"leak"}),
     Fn("bio_leak", {}, bio_leak, {"leak"}),
     Fn("rsa_key_leak", {}, rsa_key_leak, {"leak"}),
     Fn("encrypt_unchecked", {}, encrypt_unchecked, {}),
     Fn("weak_random", {}, weak_random, {}),
     Fn("password_handling", {}, password_handling, {}),
     Fn("ssl_ctx_leak", {}, ssl_ctx_leak, {"leak"}),
     Fn("x509_leak", {}, x509_leak, {"leak"}),
     Fn("unprotected_key", {}, unprotected_key, {}),
     Fn("error_handling_bug", {}, error_handling_bug, {"leak"}),
     Fn("correct_encryption", {}, correct_encryption, {"safe"}),
     Fn("main", {}, main, {}) >>
=============================================================================
