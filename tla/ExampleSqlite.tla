--------------------------- MODULE ExampleSqlite ---------------------------
(* examples/real_world/sqlite_ffi.c: the SQLite API over mocks, which are  *)
(* functions of the program like the others.                               *)
EXTENDS CBody

\* The mocks: an allocation handed out, through an out parameter or as the
\* result, and the release of what is given.
Open == << Set("*pp", "malloc", <<any>>), Return({"*pp"}) >>
Malloc == << Set("new", "malloc", <<any>>), Return({"new"}) >>
Mprintf == << Set("new", "strdup", <<v("format")>>), Return({"new"}) >>
Free == << Call("free", <<v("ptr")>>) >>

Prepare(x) == Set("rc", "sqlite3_prepare_v2", <<v("db"), v("sql"), any, at(x), any>>)
Finalize(x) == Call("sqlite3_finalize", <<v(x)>>)

open_database ==
  << Copy("db", "NULL"), Set("rc", "sqlite3_open", <<v("filename"), at("db")>>),
     Unless("rc", <<Return({})>>), Return({"db"}) >>

query_users ==
  << Copy("stmt", "NULL"), Prepare("stmt"), Unless("rc", <<Return({})>>),
     Finalize("stmt") >>

build_query ==
  << Set("sql", "sqlite3_mprintf", <<any, v("table"), v("where")>>), Return({"sql"}) >>

process_query_with_leak ==
  << Copy("stmt1", "NULL"), Copy("stmt2", "NULL"),
     Prepare("stmt1"), Unless("rc", <<Return({})>>),
     Prepare("stmt2"), Unless("rc", <<Return({})>>),
     Finalize("stmt1"), Finalize("stmt2") >>

double_free_example ==
  << Set("data", "sqlite3_malloc", <<any>>), Unless("data", <<Return({})>>),
     Call("sqlite3_free", <<v("data")>>), Call("sqlite3_free", <<v("data")>>) >>

allocate_and_forget ==
  << Set("data", "sqlite3_malloc", <<any>>), Unless("data", <<Return({})>>),
     Return({"data"}) >>

correct_pattern ==
  << Copy("stmt", "NULL"), Prepare("stmt"), Unless("rc", <<Return({})>>),
     Finalize("stmt") >>

use_after_free_sqlite ==
  << Set("data", "sqlite3_malloc", <<any>>), Unless("data", <<Return({})>>),
     Call("sqlite3_free", <<v("data")>>),
     Call("llvm.memset", <<v("data"), any, any>>) >>

Functions ==
  << Fn("sqlite3_open", {}, Open, {}), Fn("sqlite3_close", {"ptr"}, Free, {}),
     Fn("sqlite3_prepare_v2", {}, Open, {}), Fn("sqlite3_finalize", {"ptr"}, Free, {}),
     Fn("sqlite3_malloc", {}, Malloc, {}), Fn("sqlite3_free", {"ptr"}, Free, {}),
     Fn("sqlite3_mprintf", {}, Mprintf, {}),
     Fn("open_database", {}, open_database, {"handed_out", "leak"}),
     Fn("query_users", {}, query_users, {}),
     Fn("build_query", {}, build_query, {"handed_out"}),
     Fn("process_query_with_leak", {}, process_query_with_leak, {"leak"}),
     Fn("double_free_example", {}, double_free_example, {"double_free"}),
     Fn("allocate_and_forget", {}, allocate_and_forget, {"handed_out"}),
     Fn("correct_pattern", {}, correct_pattern, {"safe"}),
     Fn("use_after_free_sqlite", {}, use_after_free_sqlite, {"use_after_free"}) >>
=============================================================================
