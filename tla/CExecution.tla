----------------------------- MODULE CExecution -----------------------------
(***************************************************************************)
(* What a function of a C test program does to the resources it touches:   *)
(* the judgement that the labels of the programs and the reports of the    *)
(* analysis are compared with.  All the executions of the function advance *)
(* together, one statement a step: runs holds those that are still going,  *)
(* outcomes what the others came to.                                       *)
(*                                                                         *)
(* The libraries are external to the repository.  An allocation function   *)
(* gives a new object of its kind or fails, a release function ends the    *)
(* object it is given, any other call uses what it is given and succeeds   *)
(* or fails.  The parameters named in "given" point to live objects of the *)
(* caller, which any release function may end.                             *)
(***************************************************************************)
EXTENDS CBody, FiniteSets, SequencesExt

CONSTANT Turns          \* bound on the turns of the loops of an execution
ASSUME TurnsAssumption == Turns \in Nat

VARIABLES running, runs, outcomes

\* Values: the null pointer (a failure), a value that is neither null nor an
\* object (a success), a value not looked at yet; an object is its number.
Null == 0
Some == -1
Unknown == -2

Kinds ==
  { [kind |-> "c", open |-> {"malloc", "calloc", "realloc", "strdup", "_Cgo_malloc"},
     close |-> {"free", "realloc"}],
    [kind |-> "go", open |-> {"runtime_alloc", "runtime_realloc", "tinygo_alloc",
                              "_cgo_allocate", "_Cfunc_GoMalloc"},
     close |-> {"runtime_free", "runtime_realloc", "tinygo_free", "_cgo_free",
                "_Cfunc_GoFree"}],
    [kind |-> "zig", open |-> {"zig_alloc", "zig_allocator_allocImpl"},
     close |-> {"__zig_dealloc", "zig_allocator_freeImpl"}],
    [kind |-> "zig page", open |-> {"PageAllocator_alloc"}, close |-> {"PageAllocator_free"}],
    [kind |-> "zig pool", open |-> {"GeneralPoolAllocator_alloc"},
     close |-> {"GeneralPoolAllocator_free"}],
    [kind |-> "zig arena", open |-> {"ArenaAllocator_alloc"}, close |-> {}],
    [kind |-> "rust",
     open |-> {"__rust_alloc", "_RZN4alloc5alloc17hba3a1b2c3d4e5f6g",
               "_RZN4alloc5alloc17h_allocate", "_RZN3std3box8into_rawE",
               "_RZN3std3string10into_rawEv"},
     close |-> {"__rust_dealloc", "_RZN4core4drop9drop_in_place17hba3a1b2c3d4e5f6g",
                "_RZN4alloc5alloc17h_deallocate"}],
    [kind |-> "net", open |-> {"Marshal_AllocHGlobal"}, close |-> {"Marshal_FreeHGlobal"}],
    [kind |-> "net object", open |-> {"RhpNewFast"}, close |-> {}],
    [kind |-> "com", open |-> {"CoTaskMemAlloc"}, close |-> {"CoTaskMemFree"}],
    [kind |-> "win32 heap", open |-> {"HeapAlloc"}, close |-> {}],
    [kind |-> "win32 local", open |-> {"LocalAlloc"}, close |-> {"LocalFree"}],
    [kind |-> "new", open |-> {"operator_new"}, close |-> {"operator_delete"}],
    [kind |-> "new[]", open |-> {"operator_new_array"}, close |-> {"operator_delete_array"}],
    [kind |-> "cipher", open |-> {"EVP_CIPHER_CTX_new"}, close |-> {"EVP_CIPHER_CTX_free"}],
    [kind |-> "bio", open |-> {"BIO_new", "BIO_new_file"}, close |-> {"BIO_free"}],
    [kind |-> "rsa", open |-> {"RSA_new"}, close |-> {}],
    [kind |-> "bn", open |-> {"BN_new"}, close |-> {"BN_free"}],
    [kind |-> "ssl", open |-> {"SSL_CTX_new"}, close |-> {"SSL_CTX_free"}],
    [kind |-> "x509", open |-> {"X509_new", "PEM_read_bio_X509"}, close |-> {"X509_free"}],
    [kind |-> "pkey ctx", open |-> {"EVP_PKEY_CTX_new_id"}, close |-> {"EVP_PKEY_CTX_free"}],
    [kind |-> "pkey", open |-> {"EVP_PKEY_keygen", "PEM_read_bio_PrivateKey"},
     close |-> {"EVP_PKEY_free"}],
    [kind |-> "db", open |-> {"sqlite3_open"}, close |-> {"sqlite3_close"}],
    [kind |-> "stmt", open |-> {"sqlite3_prepare_v2"}, close |-> {"sqlite3_finalize"}],
    [kind |-> "sqlite", open |-> {"sqlite3_malloc", "sqlite3_mprintf", "sqlite3_exec"},
     close |-> {"sqlite3_free"}],
    [kind |-> "deflate", open |-> {"deflateInit"}, close |-> {"deflateEnd"}],
    [kind |-> "inflate", open |-> {"inflateInit"}, close |-> {"inflateEnd"}],
    [kind |-> "gz", open |-> {"gzopen"}, close |-> {"gzclose"}],
    [kind |-> "fd", open |-> {"socket", "accept"}, close |-> {"close"}],
    [kind |-> "file", open |-> {"fopen"}, close |-> {"fclose"}] }

\* The argument that receives the object, where it is not the result.
OutParameter ==
  [ f \in {"_RZN4alloc5alloc17hba3a1b2c3d4e5f6g", "zig_allocator_allocImpl",
           "_cgo_allocate", "deflateInit", "inflateInit"} |-> 1 ]
  @@ [ f \in {"sqlite3_open", "EVP_PKEY_keygen"} |-> 2 ]
  @@ ("sqlite3_prepare_v2" :> 4) @@ ("sqlite3_exec" :> 5)

Opened(f) == {k.kind : k \in {e \in Kinds : f \in e.open}}
Closed(f) == {k.kind : k \in {e \in Kinds : f \in e.close}}

\* Functions that accept a null pointer, or ignore it.
TakesNull == {"free", "realloc", "BIO_free", "BN_free", "X509_free", "EVP_PKEY_free",
              "EVP_CIPHER_CTX_free", "EVP_PKEY_CTX_free", "SSL_CTX_free", "operator_delete",
              "operator_delete_array", "sqlite3_free", "sqlite3_close", "sqlite3_finalize",
              "sqlite3_step", "gzclose"}

-----------------------------------------------------------------------------
\* An execution: the statements left, the values of the places, the objects,
\* what went wrong so far, the turns of its loops, the places it keeps.
NewRun(f) ==
  LET given == SetToSeq(f.given) IN
  [ todo |-> f.body,
    env  |-> [x \in f.given |-> CHOOSE i \in 1..Len(given) : given[i] = x],
    objs |-> [i \in 1..Len(given) |-> [kind |-> "given", live |-> TRUE]],
    bad  |-> {}, turns |-> 0, keep |-> {} ]

Value(r, x) == CASE x = "NULL"         -> Null
                 [] x \in DOMAIN r.env -> r.env[x]
                 [] OTHER              -> Unknown
Put(r, x, val) == IF x = "" THEN r ELSE [r EXCEPT !.env = (x :> val) @@ @]
IsObject(val) == val > 0
Dead(r, val) == IsObject(val) /\ ~r.objs[val].live

Blame(r, what) == [r EXCEPT !.bad = @ \cup {what}]
Crash(r) == [Blame(r, "null_use") EXCEPT !.todo = <<>>, !.objs = <<>>]

\* A use of a value, by a call or through the pointer.
Use(r, vals) == IF \E x \in vals : Dead(r, x) THEN Blame(r, "use_after_free") ELSE r

\* The release of a value by a function for objects of these kinds.
Release(r, val, kinds) ==
  IF ~IsObject(val) THEN r
  ELSE IF Dead(r, val) THEN Blame(r, "double_free")
  ELSE LET o == r.objs[val]
           known == o.kind \in kinds \cup {"given"}
       IN  [(IF known THEN r ELSE Blame(r, "bad_free")) EXCEPT !.objs[val].live = FALSE]

\* The object that a call of an allocation function made, put in its place
\* with the status of the call.
Allocate(r, s, kind) ==
  LET slot  == IF s.fn \in DOMAIN OutParameter THEN OutParameter[s.fn] ELSE 0
      out   == slot > 0 /\ s.args[slot][1] = "address"
      place == IF out THEN s.args[slot][2] ELSE s.to
      new   == Len(r.objs) + 1
      Deliver(q, val, status) ==
          Put(Put(q, IF out THEN s.to ELSE "", status), place, val)
      made  == [r EXCEPT !.objs = Append(@, [kind |-> kind, live |-> TRUE])]
      none  == slot > 0 /\ ~out /\ s.to = ""
  IN  IF none THEN {r}
      ELSE {Deliver(made, new, Some), Deliver(r, Null, Null)}
           \cup IF s.fn = "sqlite3_open" THEN {Deliver(made, new, Null)} ELSE {}

\* A call: the arguments are used, the first one is released if the function
\* is a release function, and the result is delivered.  A reallocation that
\* fails releases nothing.
DoCall(r, s) ==
  LET args   == {s.args[i][2] : i \in {j \in 1..Len(s.args) : s.args[j][1] = "value"}}
      closes == Closed(s.fn) # {}
      first  == Value(r, s.args[1][2])
      others == IF closes THEN {s.args[i][2] : i \in {j \in 2..Len(s.args) :
                                                      s.args[j][1] = "value"}} ELSE args
      crash  == s.fn \notin TakesNull /\ \E x \in args : Value(r, x) = Null
      used   == Use(r, {Value(r, x) : x \in others})
      closed == IF closes THEN Release(used, first, Closed(s.fn)) ELSE used
      plain  == IF s.to = "" THEN {closed}
                ELSE IF s.fn = "sqlite3_column_text"
                THEN {Put(closed, s.to, first), Put(closed, s.to, Null)}
                ELSE {Put(closed, s.to, Some), Put(closed, s.to, Null)}
  IN  IF crash THEN {Crash(r)}
      ELSE IF Opened(s.fn) = {} THEN plain
      ELSE UNION {Allocate(closed, s, k) : k \in Opened(s.fn)}
           \cup IF closes THEN {Put(r, s.to, Null)} ELSE {}

\* One statement of an execution, and the executions it may become.
Step(r) ==
  LET s == Head(r.todo)
      q == [r EXCEPT !.todo = Tail(@)]
      Then(body) == [q EXCEPT !.todo = body \o @]
  IN  CASE s.op = "call" -> DoCall(q, s)
        [] s.op = "copy" -> {Put(q, s.to, Value(q, s.from))}
        [] s.op = "deref" -> {IF Value(q, s.of) = Null THEN Crash(q)
                              ELSE Use(q, {Value(q, s.of)})}
        [] s.op = "if" ->
             (IF Value(q, s.of) # Null
              THEN {IF Value(q, s.of) = Unknown THEN Put(Then(s.then), s.of, Some)
                    ELSE Then(s.then)} ELSE {})
             \cup (IF Value(q, s.of) \in {Null, Unknown}
                   THEN {Put(Then(s.else), s.of, Null)} ELSE {})
        [] s.op = "either" -> {Then(s.this), Then(s.that)}
        [] s.op = "repeat" ->
             {q} \cup IF q.turns = Turns THEN {}
                      ELSE {[Then(Append(s.body, s)) EXCEPT !.turns = @ + 1]}
        [] s.op = "return" -> {[q EXCEPT !.todo = <<>>, !.keep = s.keep]}

\* What an execution that has ended came to: each object of its own is kept
\* or not, live or not.
Judged(r) ==
  LET kept == {Value(r, x) : x \in r.keep}
      own  == {i \in 1..Len(r.objs) : r.objs[i].kind # "given"}
      Fate(i) == IF i \in kept THEN IF r.objs[i].live THEN "handed_out" ELSE "dangling"
                 ELSE IF r.objs[i].live THEN "leak" ELSE "released"
  IN  r.bad \cup ({Fate(i) : i \in own} \ {"released"})

-----------------------------------------------------------------------------
ExecutionInit == running = "" /\ runs = {} /\ outcomes = {}

Start(f) ==
  /\ running = ""
  /\ running' = f.name
  /\ runs' = {NewRun(f)}
  /\ outcomes' = {}

Advance ==
  /\ runs # {}
  /\ LET over == {r \in runs : r.todo = <<>>} IN
     /\ outcomes' = outcomes \cup UNION {Judged(r) : r \in over}
     /\ runs' = UNION {Step(r) : r \in runs \ over}
  /\ UNCHANGED running

\* The function has run to its end on every path.
Ran(name) == running = name /\ name # "" /\ runs = {}
=============================================================================
