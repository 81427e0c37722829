----------------------------- MODULE NetworkFFI -----------------------------
(* corpus/medium/network_ffi.c: sockets and the buffers read from them.  A *)
(* negative result is a failed one.                                        *)
EXTENDS CBody

create_socket_leak ==
  << Set("sockfd", "socket", <<any, any, any>>), Unless("sockfd", <<Return({})>>),
     Return({"sockfd"}) >>

accept_connection_leak ==
  << Set("client_fd", "accept", <<v("server_fd"), at("client_addr"), at("addr_len")>>),
     Unless("client_fd", <<Return({})>>), Return({"client_fd"}) >>

read_and_free ==
  << Set("buffer", "malloc", <<any>>), Unless("buffer", <<Return({})>>),
     Set("bytes", "read", <<v("fd"), v("buffer"), any>>),
     Unless("bytes", <<Call("free", <<v("buffer")>>), Return({})>>),
     Set("result", "strdup", <<v("buffer")>>),
     Call("free", <<v("buffer")>>), Return({"result"}) >>

process_data ==
  << Unless("data", <<Return({})>>), Call("strlen", <<v("data")>>),
     Call("free", <<v("data")>>), Call("printf", <<any, any, v("data")>>) >>

copy_address == << Call("strcpy", <<v("dest"), v("src")>>) >>

log_connection ==
  << Call("sprintf", <<at("log_buffer"), any, v("client_ip")>>),
     Call("strcat", <<at("log_buffer"), v("user_input")>>),
     Call("printf", <<at("log_buffer")>>) >>

execute_user_command ==
  << Call("sprintf", <<at("command"), any, v("user_cmd")>>),
     Call("system", <<at("command")>>) >>

send_data_unchecked ==
  << Call("strlen", <<v("data")>>), Call("send", <<any, v("data"), any, any>>) >>

safe_send_data ==
  << Unless("data", <<Return({})>>),
     Repeat(<<Set("result", "send", <<any, v("data"), any, any>>),
              Unless("result", <<Return({})>>)>>) >>

safe_socket_example ==
  << Set("sockfd", "socket", <<any, any, any>>), Unless("sockfd", <<Return({})>>),
     Call("llvm.memset", <<at("addr"), any, any>>), Call("htons", <<any>>),
     Set("bound", "bind", <<v("sockfd"), at("addr"), any>>),
     Unless("bound", <<Call("close", <<v("sockfd")>>), Return({})>>),
     Call("close", <<v("sockfd")>>) >>

\* The label of read_and_free announces a use after free that the code does
\* not make.
Functions ==
  << Fn("create_socket_leak", {}, create_socket_leak, {"handed_out"}),
     Fn("accept_connection_leak", {}, accept_connection_leak, {"handed_out"}),
     Fn("read_and_free", {}, read_and_free, {"use_after_free"}),
     Fn("process_data", {"data"}, process_data, {"use_after_free"}),
     Fn("copy_address", {}, copy_address, {}),
     Fn("log_connection", {}, log_connection, {}),
     Fn("execute_user_command", {}, execute_user_command, {}),
     Fn("send_data_unchecked", {}, send_data_unchecked, {}),
     Fn("safe_send_data", {}, safe_send_data, {"safe"}),
     Fn("safe_socket_example", {}, safe_socket_example, {"safe"}) >>
=============================================================================
