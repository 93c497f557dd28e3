----------------------------- MODULE MCLifecycle -----------------------------
(* Two namespaces that meet at a path, at directories that one of them makes or *)
(* leaves behind, and not at all.  Directories are nested two deep: one can be  *)
(* given up inside another that is still owned.                                 *)
EXTENDS Lifecycle

A   == <<1>>
AB  == <<1, 1>>
ABC == <<1, 1, 1>>
D   == <<2>>
MCPaths == {A, AB, ABC, D}

Declares(d, adopt) == [targets |-> d, replace |-> adopt]
File(v) == State("file", v)
Link == State("link", "t")
On(p, s) == [q \in {p} |-> s]
Both(p, s, q, t) == [x \in {p, q} |-> IF x = p THEN s ELSE t]

One == "one"
Two == "two"
MCRequests ==
  [n \in {One, Two} |->
     IF n = One
     THEN {Declares(On(ABC, File("v")), {}), Declares(On(A, Directory), {})}
     ELSE {Declares(On(A, Link), {A}), Declares(Both(AB, File("w"), D, File("v")), {})}]
=============================================================================
