--------------------------- MODULE MCStaticPrepare ---------------------------
(***************************************************************************)
(* Requests for StaticPrepare: the authoring workspaces of MCAuthoring, and*)
(* rich workspaces in families: include graphs over two packs, graphs of   *)
(* profiles with outputs and slots, variables that name each other, and    *)
(* programs that emit, patch, loop and compose.                            *)
(***************************************************************************)
EXTENDS StaticPrepare, MCAuthoring

Blank == [edges |-> <<>>, vars |-> <<>>, frags |-> <<>>, stmts |-> <<>>, default |-> "pa", slots |-> <<>>,
          profiles |-> <<>>]
RProf(extends, outputs, stmts) == [extends |-> extends, abstract |-> FALSE, outputs |-> outputs, stmts |-> stmts]
Packs == "root" :> [deps |-> "d" :> "dep", modules |-> "m" :> "f", docs |-> {"e", "f", "g"}]
         @@ "dep" :> [deps |-> <<>>, modules |-> "m" :> "h", docs |-> {"h"}]
Set(files) == [packs |-> Packs, files |-> files, entry |-> "e", profile |-> "none"]
Alone(doc) == Set(<<"root", "e">> :> doc)

RichRequest(w) == [src |-> Workspace(<<>>), workspace |-> w, first |-> "rich-config", declared |-> TRUE,
                   captured |-> TRUE, asked |-> "none", deployed |-> "none"]
AuthoringRequest(s) == [RichRequest(Alone(Blank)) EXCEPT !.src = s, !.first = "config"]

\* Includes: an edge of each kind from each document.
Edge(k, dep, path) == [k |-> k, dep |-> dep, path |-> path]
EdgeLists == {<<>>, <<Edge("include", "none", "e")>>, <<Edge("include", "none", "f")>>, <<Edge("module", "d", "m")>>,
              <<Edge("include", "none", "g"), Edge("module", "none", "m")>>,
              <<Edge("include", "d", "h"), Edge("include", "none", "f")>>,
              <<Edge("include", "none", "f"), Edge("module", "none", "m")>>}
BadEdges == {<<Edge("include", "x", "e")>>, <<Edge("include", "none", "h")>>, <<Edge("module", "d", "n")>>,
             <<Edge("include", "d", "e")>>}
Plainly(es) == [Blank EXCEPT !.edges = es, !.default = "none"]
Linked(e, f, g, h) ==
    Set(<<"root", "e">> :> [Plainly(e) EXCEPT !.profiles = "pa" :> RProf(<<>>, <<>>, <<>>), !.default = IF f = <<>> THEN "none" ELSE "pa"]
        @@ <<"root", "f">> :> Plainly(f) @@ <<"root", "g">> :> Plainly(g) @@ <<"dep", "h">> :> Plainly(h))
LinkedSets == {Linked(e, f, g, <<>>) : e \in EdgeLists, f \in EdgeLists, g \in EdgeLists}
              \cup {Linked(e, f, <<>>, <<>>) : e \in EdgeLists, f \in BadEdges}
              \cup {Linked(e, f, <<>>, h) : e \in EdgeLists, f \in EdgeLists,
                                            h \in {<<Edge("include", "none", "h")>>, <<Edge("include", "d", "h")>>}}
              \cup {[Linked(<<Edge("include", "none", "f")>>, <<>>, <<>>, <<>>) EXCEPT
                       !.files = [id \in {<<"root", "e">>} |-> @[id]]]}

\* Profiles over two documents, with outputs that meet in names, slots and
\* destinations.
Out(n, slot, dest, dep) == [name |-> n, slot |-> slot, dest |-> dest, dep |-> dep]
OutLists == {<<>>, <<Out("o1", "s", <<"a">>, "none")>>, <<Out("o1", "none", <<"b">>, "d")>>,
             <<Out("o2", "none", <<"a", "b">>, "none")>>, <<Out("o3", "none", <<"c">>, "x")>>,
             <<Out("o4", "s", <<"d">>, "none")>>,
             <<Out("o2", "t", <<"c">>, "none")>>}
Parents == {<<>>, <<"pa">>, <<"pb">>, <<"pc">>, <<"pb", "pc">>, <<"pc", "pb">>, <<"px">>}
ProfileSet(a, b, c, oa, ob, extra) ==
    Set(<<"root", "e">> :> [Blank EXCEPT !.edges = <<Edge("include", "none", "f")>>, !.slots = "s" :> 1,
                                         !.profiles = "pa" :> RProf(a, oa, <<>>) @@ "pb" :> RProf(b, ob, <<>>)]
        @@ <<"root", "f">> :> [Blank EXCEPT !.profiles = ("pc" :> [RProf(c, oa, <<>>) EXCEPT !.abstract = TRUE]) @@ extra])
ProfileSets == {ProfileSet(a, b, c, <<>>, <<>>, <<>>) : a \in Parents, b \in Parents, c \in Parents}
               \cup {ProfileSet(<<"pb">>, b, <<>>, oa, ob, extra) :
                     b \in {<<>>, <<"pc">>}, oa \in OutLists, ob \in OutLists,
                     extra \in {<<>>, "pb" :> RProf(<<>>, <<>>, <<>>)}}

\* Expressions and conditions.
NoExpr == [x |-> "none"]
Lit(v) == [x |-> "literal", value |-> v]
Str(w) == Lit(<<"str", w>>)
Var(n) == [x |-> "variable", name |-> n]
Sel(e, k) == [x |-> "select", value |-> e, key |-> k]
Lst(es) == [x |-> "list", items |-> es]
Col(fs) == [x |-> "coll", fields |-> fs]
Rec(fs) == [x |-> "rec", fields |-> fs]
Cond(c, a, b) == [x |-> "conditional", condition |-> c, then |-> a, else |-> b]
IsSet(e) == [c |-> "is-set", value |-> e]
Bool(e) == [c |-> "boolean", value |-> e]
Eq(a, b) == [c |-> "equal", left |-> a, right |-> b, negated |-> FALSE]
Not(c) == [c |-> "not", inner |-> c]
AllOf(cs) == [c |-> "all", terms |-> cs]
AnyOf(cs) == [c |-> "any", terms |-> cs]

\* Variables: three that may name each other, two of them optional inputs.
FRec2 == <<"rec", "a" :> [ty |-> <<"str">>, optional |-> FALSE, default |-> <<"str", "w">>]
                  @@ "b" :> [ty |-> <<"str">>, optional |-> TRUE, default |-> None]>>
Decls(t) == {[ty |-> t, optional |-> o, expr |-> e] : o \in BOOLEAN, e \in {NoExpr, Str("a"), Var("y"), Var("x")}}
VarY == {[ty |-> <<"str">>, optional |-> TRUE, expr |-> e] :
         e \in {NoExpr, Var("z"), Cond(IsSet(Var("z")), Var("z"), Str("b")), Cond(Eq(Var("x"), Str("a")), Var("x"), Var("w")),
                Cond(AllOf(<<Not(IsSet(Var("z"))), Bool(Var("x"))>>), Str("a"), Str("b")), Sel(Var("w"), "a")}}
VarW == {[ty |-> FRec2, optional |-> FALSE, expr |-> e] :
         e \in {Rec("a" :> Var("x")), Rec(<<>>), Rec("w" :> Str("a")), Col("a" :> Str("a")), Lst(<<Var("z"), Var("y")>>)}}
VariableSets == {Alone([Blank EXCEPT !.vars = "x" :> x @@ "y" :> y @@ "z" :> z @@ "w" :> w,
                                     !.profiles = "pa" :> RProf(<<>>, <<>>, <<Emit2>>)]) :
                 x \in Decls(<<"str">>), y \in VarY, z \in {[ty |-> <<"str">>, optional |-> TRUE, expr |-> e] :
                                                             e \in {NoExpr, Var("x"), Sel(Var("w"), "a")}},
                 w \in VarW, Emit2 \in {[t |-> "emit", key |-> "a", value |-> Var("y")]}}

\* Programs: a base document, then two statements of the entry and one of
\* its profile.
Puts(k, e) == [t |-> "emit", key |-> k, value |-> e]
Op(op, path, key, value, optional) ==
    [t |-> "step", op |-> op, path |-> path, key |-> key, value |-> value, values |-> <<>>, optional |-> optional]
PatchBy(steps) == [t |-> "patch", steps |-> steps]
All(path, values) == [Op("replace-all", path, Str("a"), Str("a"), FALSE) EXCEPT !.values = values]
For(v, k, e, body) == [t |-> "each", value |-> v, key |-> k, iterable |-> e, body |-> body]
Rng2(b, m, n, body) == [t |-> "range", value |-> b, key |-> "none", from |-> m, through |-> n, body |-> body]
If(c, then, else) == [t |-> "conditional", condition |-> c, then |-> then, else |-> else]
Comp(f) == [t |-> "compose", fragment |-> f]
Base == Puts("a", Rec("a" :> Str("a") @@ "b" :> Col("k1" :> Str("a") @@ "k2" :> Rec("w" :> Str("b"))) @@ "w" :> Lst(<<>>)))
CollPath == <<"a", "b">>
Steps == <<Op("set", <<"a", "a">>, Str("a"), Str("b"), FALSE), Op("set", <<"a", "x">>, Str("a"), Col(<<>>), FALSE),
          Op("set", <<"a">>, Str("a"), Rec("b" :> Col("x" :> Str("a"))), FALSE), Op("set", <<"x", "y">>, Str("a"), Str("a"), FALSE),
          Op("unset", CollPath, Str("a"), Str("a"), FALSE), Op("unset", <<"a", "y">>, Str("a"), Str("a"), TRUE),
          Op("unset", <<"a", "b", "k1">>, Str("a"), Str("a"), TRUE),
          Op("append", <<"a", "w">>, Str("a"), Var("x"), FALSE), Op("append", CollPath, Str("a"), Str("a"), FALSE),
          Op("insert", CollPath, Str("x"), Rec("w" :> Str("w")), FALSE), Op("insert", CollPath, Str("k1"), Str("w"), FALSE),
          Op("replace", CollPath, Str("k1"), Str("w"), FALSE), Op("replace", CollPath, Lit(Null), Str("w"), FALSE),
          Op("remove", CollPath, Str("k2"), Str("a"), FALSE), Op("remove", CollPath, Str("y"), Str("a"), TRUE),
          All(CollPath, "k1" :> Str("x")), All(<<"a", "a">>, "k1" :> Str("x"))>>
Blocks == <<For("y", "z", Sel(Var("w"), "b"), <<PatchBy(<<Op("set", <<"a", "a">>, Str("a"), Var("y"), FALSE)>>)>>),
           For("y", "none", Lst(<<Str("a"), Str("b")>>), <<PatchBy(<<Op("append", <<"a", "w">>, Str("a"), Var("y"), FALSE)>>), Comp("g")>>),
           For("y", "y", Lst(<<>>), <<>>), For("y", "none", Str("a"), <<>>),
           Rng2("y", 1, 2, <<For("y", "none", Lst(<<Str("a")>>), <<>>)>>), Rng2("y", 2, 1, <<>>), Rng2("y", 0, 4, <<>>),
           Rng2("y", 0, 2, <<PatchBy(<<Op("set", <<"a", "a">>, Str("a"), Var("y"), FALSE)>>)>>),
           If(AnyOf(<<IsSet(Var("x")), Bool(Str("a"))>>), <<Comp("f")>>, <<Puts("b", Str("a"))>>),
           If(Bool(Lit(<<"bool", FALSE>>)), <<>>, <<Puts("a", Str("a"))>>), Comp("f"), Comp("h"), Puts("b", Var("w"))>>
Frags == <<"f" :> <<Comp("g")>> @@ "g" :> <<PatchBy(<<Op("set", <<"a", "a">>, Str("a"), Str("x"), FALSE)>>)>>,
          "f" :> <<Comp("g")>> @@ "g" :> <<If(IsSet(Var("x")), <<Comp("f")>>, <<>>)>>>>
Program(f, ss, p) ==
    Alone([Blank EXCEPT !.vars = "x" :> [ty |-> <<"str">>, optional |-> FALSE, expr |-> Str("w")]
                                 @@ "w" :> [ty |-> <<"rec", "b" :> [ty |-> <<"coll", <<"str">>>>, optional |-> FALSE, default |-> None]>>,
                                            optional |-> FALSE, expr |-> Rec("b" :> Col("k1" :> Str("b")))],
                        !.frags = f, !.stmts = <<Base>> \o ss, !.profiles = "pa" :> RProf(<<>>, <<>>, p)])

\* Families of requests: sources of either dialect, or indices of them.
MCFamilies ==
    <<MCSources, LinkedSets, ProfileSets, VariableSets,
      (DOMAIN Steps) \X (DOMAIN Steps) \X {1, 3, 6, 10, 14, 16},
      {1, 2} \X (DOMAIN Blocks) \X {3, 10, 16} \X (DOMAIN Blocks),
      BOOLEAN \X BOOLEAN \X {"none", "pb", "pc"} \X {"none", "px", "pb"} \X {"config", "rich-config"}>>

MCRequest(i, k) ==
    CASE i = 1 -> AuthoringRequest(k)
      [] i \in 2 .. 4 -> RichRequest(k)
      [] i = 5 -> RichRequest(Program(Frags[1], <<PatchBy(<<Steps[k[1]], Steps[k[2]]>>)>>, <<PatchBy(<<Steps[k[3]]>>)>>))
      [] i = 6 -> RichRequest(Program(Frags[k[1]], <<Blocks[k[2]], PatchBy(<<Steps[k[3]]>>)>>, <<Blocks[k[4]]>>))
      [] i = 7 -> [RichRequest(ProfileSet(<<"pb">>, <<>>, <<>>, <<>>, <<>>, <<>>)) EXCEPT
                     !.declared = k[1], !.captured = k[2], !.asked = k[3], !.deployed = k[4], !.first = k[5]]
=============================================================================
