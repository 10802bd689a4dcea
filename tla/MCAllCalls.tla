----------------------------- MODULE MCAllCalls -----------------------------
(* AllCalls for TLC.                                                        *)
EXTENDS AllCalls

(* Error numbers that move, and one the tables do not list; EINVAL stays. *)
SomeHostErrs == {11, 35, 45}
SomeAppErrs  == {0, 11, 110}

(* A directory that moves, the working directory, and a target that a rule  *)
(* applies to again; the names are inside, outside and relative.            *)
SomeRules ==
  { << [from |-> <<"/", "data">>, to |-> <<"/", "home">>],
       [from |-> <<".">>, to |-> <<"/", "cwd", "/">>] >>,
    << [from |-> <<"/", "data">>, to |-> <<"/", "data", "/", "x">>],
       [from |-> <<"/", "x">>, to |-> <<"/", "data">>] >> }
SomeSymbols == {"/", "data", "home", ".", "cwd", "x", "f"}
SomeNames == { <<"/", "data", "/", "f">>, <<"f">>, <<"/", "x">> }
SomeFlags == { {}, {"WRONLY", "CREAT"}, {"NONBLOCK", "DIRECTORY"}, {"WRONLY", "APPEND"} }

(* REUSEADDR, REUSEPORT, TCP_NODELAY, and two options nobody knows. *)
SomeOptions == { <<1, 2>>, <<1, 15>>, <<6, 1>>, <<1, 99>>, <<17, 1>> }

Absent == [present |-> FALSE, family |-> 0, rest |-> "unset"]
Addr(f) == [present |-> TRUE, family |-> f, rest |-> "port"]
Unix(path) == [present |-> TRUE, family |-> 1, rest |-> path]
SomeAddresses ==
  {Absent, Addr(2), Addr(10), Addr(0), Addr(99), Unix("path"), Unix("long path")}

Hint(type) == [flags |-> {"PASSIVE"}, family |-> 0, socktype |-> type, proto |-> 0,
               addr |-> Absent, name |-> FALSE]
SomeHints == { <<>>, <<Hint(0)>>, <<Hint(4)>> }

Found(type, f, name) ==
  [flags |-> {}, family |-> f, socktype |-> type, proto |-> 6, addr |-> Addr(f), name |-> name]
SomeLists == { <<Found(1, 2, TRUE), Found(5, 2, FALSE), Found(2, 30, FALSE)>>,
               <<Found(1, 18, FALSE)>> }

If(f, m) == [family |-> f, mask |-> m, name |-> TRUE, flags |-> {"UP", "SIMPLEX"}]
SomeIfs == { <<If(18, 0), If(2, 2), If(30, 30), If(2, 18)>>, <<>> }
=============================================================================
