--------------------------- MODULE SqliteBinding ---------------------------
(* corpus/ffi-dense/sqlite_binding.c: databases, statements, messages.     *)
EXTENDS CBody

leak_database_open ==
  << Set("rc", "sqlite3_open", <<v("path"), at("db")>>),
     Unless("rc", <<Return({})>>) >>

leak_statement ==
  << Set("rc", "sqlite3_prepare_v2", <<v("db"), v("sql"), any, at("stmt"), any>>),
     Unless("rc", <<Return({})>>),
     Call("sqlite3_step", <<v("stmt")>>) >>

bind_dangling_pointer ==
  << Call("sqlite3_prepare_v2", <<v("db"), v("sql"), any, at("stmt"), any>>),
     Set("name", "malloc", <<any>>),
     Call("strcpy", <<v("name"), any>>),
     Call("free", <<v("name")>>),
     Call("sqlite3_bind_text", <<v("stmt"), any, v("name"), any, any>>),
     Call("sqlite3_finalize", <<v("stmt")>>) >>

get_user_name_dangling ==
  << Call("sqlite3_prepare_v2", <<v("db"), v("sql"), any, at("stmt"), any>>),
     Call("sqlite3_bind_int", <<v("stmt"), any, any>>),
     Call("sqlite3_step", <<v("stmt")>>),
     Set("name", "sqlite3_column_text", <<v("stmt"), any>>),
     Call("sqlite3_finalize", <<v("stmt")>>),
     Return({"name"}) >>

dangerous_exec ==
  << Call("sqlite3_exec", <<v("db"), v("sql"), any, any, any>>) >>

sql_injection ==
  << Call("sprintf", <<at("sql"), any, v("user_input")>>),
     Copy("errmsg", "NULL"),
     Call("sqlite3_exec", <<v("db"), at("sql"), any, any, at("errmsg")>>),
     When("errmsg", <<Call("sqlite3_free", <<v("errmsg")>>)>>) >>

correct_usage ==
  << Set("rc", "sqlite3_open", <<v("path"), at("db")>>),
     Unless("rc", <<Call("sqlite3_close", <<v("db")>>), Return({})>>),
     Set("rc", "sqlite3_prepare_v2", <<v("db"), v("sql"), any, at("stmt"), any>>),
     Unless("rc", <<Call("sqlite3_close", <<v("db")>>), Return({})>>),
     Set("row", "sqlite3_step", <<v("stmt")>>),
     When("row", <<Set("name", "sqlite3_column_text", <<v("stmt"), any>>),
                   Call("printf", <<any, v("name")>>)>>),
     Call("sqlite3_finalize", <<v("stmt")>>),
     Call("sqlite3_close", <<v("db")>>) >>

main ==
  << Call("sqlite3_open", <<any, at("db")>>),
     Call("sqlite3_exec", <<v("db"), any, any, any, any>>),
     Call("leak_database_open", <<any>>), Call("leak_statement", <<v("db")>>),
     Call("bind_dangling_pointer", <<v("db")>>),
     Call("dangerous_exec", <<v("db")>>),
     Call("sqlite3_close", <<v("db")>>) >>

Functions ==
  << Fn("leak_database_open", {}, leak_database_open, {"leak"}),
     Fn("leak_statement", {}, leak_statement, {"leak"}),
     Fn("bind_dangling_pointer", {}, bind_dangling_pointer, {"use_after_free"}),
     Fn("get_user_name_dangling", {}, get_user_name_dangling, {"dangling"}),
     Fn("dangerous_exec", {}, dangerous_exec, {}),
     Fn("sql_injection", {}, sql_injection, {}),
     Fn("correct_usage", {}, correct_usage, {"safe"}),
     Fn("main", {}, main, {}) >>
=============================================================================
