------------------------------- MODULE CBody -------------------------------
(***************************************************************************)
(* The statements of which the C test programs of the repository are made, *)
(* as far as the ownership of resources is concerned.  A function body is  *)
(* a sequence of statements:                                               *)
(*                                                                         *)
(*   - a call, whose result may be assigned to a place;                    *)
(*   - the copy of one place to another, "NULL" being the null pointer;    *)
(*   - an access through a pointer;                                        *)
(*   - a branch on a place being non-null (a status being a success), a    *)
(*     branch on something the program's input decides, a loop;            *)
(*   - a return, with the places that outlive the function: the value      *)
(*     returned, out parameters, globals.                                  *)
(*                                                                         *)
(* A place is a variable or a field, by its text in the program.  Calls    *)
(* that only print, and arguments that are neither pointers to a resource  *)
(* nor constants that matter, are left out or written "any".               *)
(***************************************************************************)
EXTENDS Integers, Sequences, TLC

\* Arguments: the value of a place, its address, an integer constant of 64
\* bits (a constant is one value wherever it occurs), anything else.
v(x) == <<"value", x>>
at(x) == <<"address", x>>
i64(n) == <<"i64", ToString(n)>>
any == <<"any", "">>

Set(x, f, args) == [op |-> "call", to |-> x, fn |-> f, args |-> args]
Call(f, args) == Set("", f, args)
Copy(x, y) == [op |-> "copy", to |-> x, from |-> y]
Deref(x) == [op |-> "deref", of |-> x]
If(x, then, else) == [op |-> "if", of |-> x, then |-> then, else |-> else]
When(x, body) == If(x, body, <<>>)
Unless(x, body) == If(x, <<>>, body)
Either(this, that) == [op |-> "either", this |-> this, that |-> that]
Maybe(body) == Either(body, <<>>)
Repeat(body) == [op |-> "repeat", body |-> body]
Return(keep) == [op |-> "return", keep |-> keep]

(***************************************************************************)
(* A function of a program: its parameters that point to resources of its  *)
(* caller, its body, and what the comments beside it say that it does:     *)
(* "leak", "handed_out" (the caller has to release the result, which some  *)
(* comments call a leak), "double_free", "use_after_free", "bad_free"      *)
(* (released by something that is not its release function), "null_use"    *)
(* (of an allocation it does not check), "dangling" (a released resource   *)
(* is returned), "safe", or nothing that this model can tell.              *)
(***************************************************************************)
Fn(name, given, body, claims) ==
    [name |-> name, given |-> given, body |-> body, claims |-> claims]

\* The calls of a body in the order of its text, which is the order of its
\* instructions.
RECURSIVE Calls(_)
Calls(body) ==
    IF body = <<>> THEN <<>> ELSE
    LET s == Head(body)
        here == CASE s.op = "call"   -> <<s>>
                  [] s.op = "if"     -> Calls(s.then) \o Calls(s.else)
                  [] s.op = "either" -> Calls(s.this) \o Calls(s.that)
                  [] s.op = "repeat" -> Calls(s.body)
                  [] OTHER           -> <<>>
    IN  here \o Calls(Tail(body))
=============================================================================
