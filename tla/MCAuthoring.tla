---------------------------- MODULE MCAuthoring -----------------------------
(***************************************************************************)
(* Small workspaces for Authoring, in families: every inheritance graph of *)
(* three profiles, every pattern of writes over a diamond, sequences of    *)
(* `use` and `replace`, patches, patches of siblings, small programs with  *)
(* every value of their inputs, and include graphs with overlays.          *)
(***************************************************************************)
EXTENDS Authoring

S(x) == <<"str", x>>
I(n) == <<"int", n>>
Field(t, req, d) == [ty |-> t, required |-> req, default |-> d]
Input(n, t, d) == [name |-> <<n>>, ty |-> t, default |-> d, template |-> None]
Computed(n, t, refs) == [name |-> <<n>>, ty |-> t, default |-> None, template |-> <<"template", refs>>]
Module(n, slot, inputs, outputs) ==
    [name |-> n, slot |-> slot, types |-> <<>>, inputs |-> inputs, fragments |-> <<>>, outputs |-> outputs]
Item(k, alias, m, slot, with, patches) ==
    [k |-> k, alias |-> alias, module |-> m, slot |-> slot, with |-> with, patches |-> patches, frags |-> <<>>]
Use(m, with, patches) == Item("use", m, m, "none", with, patches)
W(n, v) == [name |-> <<n>>, value |-> v]
Prof(n, ext, items) == [name |-> n, extends |-> ext, items |-> items, abstract |-> FALSE]
Decl(n, d) == [n |-> n, ok |-> TRUE, d |-> d]
ConfigNode == [n |-> "config"]
Workspace(nodes) == [docs |-> [p \in {"config"} |-> <<ConfigNode>> \o nodes],
                     overlays |-> <<>>, profile |-> "pa"]

Doc(to, nodes) == [k |-> "doc", to |-> to, nodes |-> nodes]
Plain(refs) == [k |-> "plain", name |-> "n", refs |-> refs, kids |-> <<>>]
WhenNode(kind, ref, then, else) ==
    [k |-> "when", pred |-> [kind |-> kind, ref |-> ref, expected |-> S("w"), negated |-> FALSE],
     then |-> then, else |-> else]
Each(b, source, body) == [k |-> "each", binding |-> <<b>>, source |-> source, body |-> body]
Rng(b, m, n, body) == [k |-> "range", binding |-> <<b>>, from |-> m, through |-> n, body |-> body]
File(k, to, captured, optional) == [k |-> k, to |-> to, captured |-> captured, optional |-> optional]

\* Every graph over three profiles with at most two different parents each.
ParentSeqs == {<<>>} \cup {<<p>> : p \in {"pa", "pb", "pc"}}
              \cup {s \in {"pa", "pb", "pc"} \X {"pa", "pb", "pc"} : s[1] # s[2]}
Graphs == {Workspace(<<Decl("profile", Prof("pb", b, <<>>)), Decl("profile", Prof("pa", a, <<>>)),
                       Decl("profile", Prof("pc", c, <<>>))>>) :
           a \in ParentSeqs, b \in ParentSeqs, c \in ParentSeqs}
          \cup {Workspace(<<Decl("profile", Prof("pa", e, <<>>))>>) : e \in {<<"px">>, <<"pa", "pa">>}}
          \cup {Workspace(<<Decl("profile", [Prof("pa", <<>>, <<>>) EXCEPT !.abstract = TRUE])>>),
                Workspace(<<Decl("profile", Prof("pb", <<>>, <<>>))>>)}

\* Writes to one input over a diamond: nothing, "a", "b", or a null.
M0 == Module("m", "none", <<Input("x", <<"opt", <<"str">>>>, None)>>,
             <<Doc("d", <<WhenNode("set", <<"x">>, <<Plain({<<"x">>})>>, <<>>)>>)>>)
Layer(v) == IF v = Err THEN <<>> ELSE <<Use("m", <<W("x", v)>>, <<>>)>>
Writings == {Workspace(<<Decl("module", M0),
                         Decl("profile", Prof("pa", e[1], Layer(va))), Decl("profile", Prof("pb", e[2], Layer(vb))),
                         Decl("profile", Prof("pc", e[3], Layer(vc))), Decl("profile", Prof("pd", <<>>, Layer(vd)))>>) :
             va \in {Err, S("a")}, vb \in {Err, S("a"), S("b"), Null}, vc \in {Err, S("a"), S("b")}, vd \in {Err, S("b")},
             e \in {<<<<"pb", "pc">>, <<"pd">>, <<"pd">>>>, <<<<"pb", "pc">>, <<"pc">>, <<>>>>,
                    <<<<"pc", "pb">>, <<>>, <<"pd">>>>, <<<<"pd", "pc", "pb">>, <<"pd">>, <<"pb">>>>}}

\* Slots, aliases and replacement.
SlotItems == {Use("m1", <<>>, <<>>), Use("m2", <<>>, <<>>), Item("use", "m1", "m2", "none", <<>>, <<>>),
              Item("replace", "m2", "m2", "s", <<>>, <<>>), Item("replace", "m3", "m3", "s", <<>>, <<>>),
              Item("replace", "mx", "mx", "s", <<>>, <<>>), Use("m3", <<>>, <<>>), Use("mx", <<>>, <<>>)}
Slots == {Workspace(<<Decl("slots", [name |-> "s", max |-> max]),
                      Decl("module", Module("m1", "s", <<>>, <<File("file", "f1", TRUE, FALSE)>>)),
                      Decl("module", Module("m2", "s", <<>>, <<File("file", "f2", TRUE, FALSE)>>)),
                      Decl("module", Module("m3", IF max = 2 THEN "t" ELSE "none", <<>>, <<File("file", "f1", TRUE, FALSE)>>)),
                      Decl("profile", Prof("pa", <<"pb">>, <<i3>>)), Decl("profile", Prof("pb", <<>>, <<i1, i2>>))>>) :
          i1 \in SlotItems, i2 \in SlotItems, i3 \in SlotItems, max \in {1, 2}}

\* Patches of records, variants, collections and maps, and computed defaults.
Leaf == <<"rec", "f" :> Field(<<"opt", <<"str">>>>, FALSE, None) @@ "g" :> Field(<<"str">>, TRUE, None)>>
Either == <<"variant", "kind", "one" :> ("f" :> Field(<<"str">>, TRUE, None)) @@ "two" :> ("h" :> Field(<<"str">>, FALSE, S("a")))>>
MP == [Module("m", "none",
        <<Input("r", Leaf, <<"rec", "g" :> S("a")>>), Input("v", Either, <<"invoke", "one", "f" :> S("b")>>),
          Input("c", <<"coll", <<"str">>>>, None), Input("mp", <<"map", <<"str">>>>, None),
          Input("s", <<"set", <<"str">>>>, <<"list", <<S("b"), S("a"), S("b")>>>>), Input("t", <<"named", "T">>, S("a")),
          Computed("y", <<"enum", {"a", "b"}>>, <<<<"z">>>>), Computed("z", <<"str">>, <<<<"t">>>>)>>,
        <<Doc("d", <<Plain({<<"r", "g">>}), Plain({<<"z">>}), WhenNode("eq", <<"t">>, <<>>, <<Plain({<<"y">>})>>)>>)>>)
       EXCEPT !.types = ("T" :> <<"refine", <<"str">>, {S("a"), S("w")}>>)]
SetField(path, v) == [k |-> "field", path |-> path, value |-> v]
Edit(op, key, v) == [op |-> op, key |-> key, value |-> v, optional |-> FALSE, items |-> <<>>]
Edits(input, ops) == [k |-> "coll", input |-> <<input>>, ops |-> ops]
PatchOps == {SetField(<<"r", "f">>, S("a")), SetField(<<"r", "f">>, None), SetField(<<"r", "g">>, None),
             SetField(<<"r", "g", "q">>, S("a")), SetField(<<"v", "f">>, S("a")), SetField(<<"v", "h">>, S("a")),
             SetField(<<"t", "f">>, S("a")), SetField(<<"u", "f">>, S("a")),
             Edits("c", <<Edit("append", "k2", S("a")), Edit("append", "k1", S("b"))>>),
             Edits("mp", <<Edit("append", "k2", S("a")), Edit("append", "k1", S("b"))>>),
             Edits("c", <<Edit("remove", "k2", Null)>>), Edits("mp", <<Edit("replace", "k1", S("w"))>>),
             Edits("c", <<[Edit("replace-all", "k1", Null) EXCEPT !.items = <<<<"k1", S("w")>>>>]>>),
             Edits("t", <<>>)}
Patches == {Workspace(<<Decl("module", MP), Decl("profile", Prof("pa", <<>>, <<Use("m", with, <<p, q>>)>>))>>) :
            p \in PatchOps, q \in PatchOps, with \in {<<>>, <<W("t", S("w"))>>, <<W("z", S("w"))>>}}
           \cup {Workspace(<<Decl("module", [MP EXCEPT !.inputs[8] = Computed("z", <<"str">>, <<<<"y">>>>)]),
                             Decl("profile", Prof("pa", <<>>, <<Use("m", w, <<>>)>>))>>) :
                 w \in {<<>>, <<W("y", S("a"))>>, <<W("t", Null)>>, <<W("q", S("a"))>>}}

\* Patches in profiles that are siblings, or one the parent of the other.
SiblingOps == {<<>>, <<SetField(<<"r", "g">>, S("a"))>>, <<SetField(<<"r", "g">>, S("b"))>>, <<SetField(<<"r", "f">>, S("a"))>>,
               <<SetField(<<"r", "f">>, None)>>, <<Edits("c", <<Edit("append", "k1", S("a"))>>)>>,
               <<Edits("c", <<Edit("append", "k2", S("b"))>>), SetField(<<"v", "f">>, S("w"))>>}
Sibling(graph, pa, pb, pc, with) ==
    Workspace(<<Decl("module", MP), Decl("profile", Prof("pa", graph[1], <<Use("m", <<>>, pa)>>)),
                Decl("profile", Prof("pb", graph[2], <<Use("m", with, pb)>>)),
                Decl("profile", Prof("pc", <<>>, <<Use("m", <<>>, pc)>>))>>)
SiblingPatches == {Sibling(graph, pa, pb, pc, with) :
                   graph \in {<<<<"pb", "pc">>, <<>>>>, <<<<"pc", "pb">>, <<>>>>, <<<<"pb", "pc">>, <<"pc">>>>},
                   pa \in {<<>>, <<SetField(<<"r", "g">>, S("w"))>>}, pb \in SiblingOps, pc \in SiblingOps,
                   with \in {<<>>, <<W("r", <<"rec", "g" :> S("b")>>)>>}}

\* Programs: a line under two controls, with every shape of value.
Refs == {<<"o">>, <<"b">>, <<"b", "f">>, <<"r", "f">>, <<"l", "0">>, <<"l", "2">>, <<"b", "key">>}
Wrap(kind, x) ==
    CASE kind = "o" -> WhenNode("set", <<"o">>, x, <<>>) [] kind = "rf" -> WhenNode("set", <<"r", "f">>, x, <<>>)
      [] kind = "bf" -> WhenNode("set", <<"b", "f">>, x, <<>>) [] kind = "l0" -> WhenNode("set", <<"l", "0">>, x, <<>>)
      [] kind = "l" -> Each("b", <<"l">>, x) [] kind = "c" -> Each("b", <<"c">>, x)
      [] kind = "u" -> Each("b", <<"u">>, x) [] kind = "ne" -> WhenNode("nonempty", <<"l">>, x, <<>>)
      [] kind = "rg" -> Rng("b", 1, 2, x) [] OTHER -> WhenNode("test", <<"o">>, x, <<>>)
Wraps == {"o", "rf", "bf", "l0", "l", "c", "u", "ne", "rg", "t"}
FRec == <<"rec", "f" :> Field(<<"opt", <<"str">>>>, FALSE, None)>>
ME(body) == Module("m", "none", <<Input("o", <<"opt", <<"str">>>>, None), Input("l", <<"list", <<"str">>>>, None),
                                  Input("c", <<"coll", FRec>>, None), Input("r", FRec, <<"rec", <<>>>>)>>,
                   <<Doc("d", body)>>)
Values == {<<>>,
           <<W("o", S("a")), W("l", <<"list", <<S("a"), S("b")>>>>), W("r", <<"rec", "f" :> S("w")>>),
             W("c", <<"coll", <<<<"k1", <<"rec", "f" :> S("a")>>>>, <<"k2", <<"rec", <<>>>>>>>>>>)>>}
Programs == {Workspace(<<Decl("module", ME(<<Wrap(w1, <<Wrap(w2, <<Plain({r})>>)>>)>>)),
                         Decl("profile", Prof("pa", <<>>, <<Use("m", v, <<>>)>>))>>) :
             w1 \in Wraps, w2 \in Wraps, r \in Refs, v \in Values}

\* Include graphs, parse failures, overlays, extensions, globals, outputs.
Inc(p, opt) == [n |-> "include", path |-> p, optional |-> opt]
P0 == Decl("profile", Prof("pa", <<>>, <<Use("m", <<W("x", S("a"))>>, <<>>)>>))
IncludeNodes == {Inc("d1", FALSE), Inc("d2", FALSE), Inc("no", TRUE), Inc("no", FALSE), ConfigNode,
                 [n |-> "module", ok |-> FALSE, d |-> M0], Inc("config", FALSE)}
Includes == {[docs |-> [p \in {"config", "d1", "d2"} |->
                  CASE p = "config" -> <<ConfigNode, n1, P0>> [] p = "d1" -> <<n2, Decl("module", M0)>>
                    [] OTHER -> <<n3>>], overlays |-> <<>>, profile |-> "pa"] :
             n1 \in IncludeNodes, n2 \in IncludeNodes, n3 \in IncludeNodes}
ExtM(inputs, outputs) == [module |-> "m", inputs |-> inputs, fragments |-> <<>>, outputs |-> outputs]
ExtP(items) == [profile |-> "pa", extends |-> <<>>, items |-> items]
Global(v, over) == [name |-> <<"global", "g">>, value |-> v, override |-> over]
FragItem == [Use("m", <<>>, <<>>) EXCEPT !.frags = <<[k |-> "replace", fragment |-> "f", source |-> <<"doc", <<>>>>]>>]
OverlayNodes == {Decl("variables", Global(S("a"), FALSE)), Decl("variables", Global(S("a"), TRUE)),
                 Decl("variables", Global(I(1), TRUE)), Decl("extend-profile", ExtP(<<Use("m", <<W("x", S("b"))>>, <<>>)>>)),
                 Decl("extend-profile", ExtP(<<FragItem>>)), Decl("extend-module", ExtM(<<>>, <<File("dir", "d", TRUE, FALSE)>>)),
                 Decl("extend-module", ExtM(<<Input("q", <<"bool">>, <<"bool", "true">>)>>, <<>>)),
                 Decl("extend-profile", [ExtP(<<>>) EXCEPT !.profile = "px"]), Decl("extend-module", [ExtM(<<>>, <<>>) EXCEPT !.module = "mx"])}
Outs == {File("file", "d", TRUE, FALSE), File("file", "e", FALSE, TRUE), File("dir", "d", FALSE, FALSE),
         [k |-> "symlink", to |-> "e", ref |-> <<"x">>], [k |-> "symlink", to |-> "d", ref |-> None],
         Doc("e", <<Plain({<<"global", "g">>})>>)}
Overlays == {[docs |-> [p \in {"config"} |-> <<ConfigNode, [n |-> "overlay", name |-> "o1"],
                                              Decl("module", [M0 EXCEPT !.outputs = Append(@, out)]), P0,
                                              Decl("variables", Global(S("b"), FALSE))>>],
              overlays |-> IF n = "none" THEN <<>> ELSE <<[name |-> n, nodes |-> <<o>>]>>, profile |-> "pa"] :
             o \in OverlayNodes, out \in Outs, n \in {"o1", "o2", "none"}}

\* Fragments and inserted documents, which may name each other.
Pulls == {[k |-> "include", fragment |-> "f"], [k |-> "include", fragment |-> "g"], [k |-> "include", fragment |-> "h"],
          [k |-> "insert", source |-> <<"d">>], [k |-> "insert", source |-> <<"e">>], Plain({<<"e">>})}
MF(outer, inner) ==
    [Module("m", "none", <<Input("d", <<"coll", <<"doc">>>>, <<"coll", <<<<"k1", <<"doc", <<inner>>>>>>>>>>),
                           Input("e", <<"str">>, S("a"))>>, <<Doc("d", <<outer>>)>>)
     EXCEPT !.fragments = "f" :> [one |-> TRUE, sources |-> <<<<"doc", <<inner>>>>>>]
                          @@ "g" :> [one |-> FALSE, sources |-> <<>>]]
FragOp(k, f, source) == [k |-> k, fragment |-> f, source |-> source]
Fragments == {Workspace(<<Decl("module", MF(outer, inner)),
                          Decl("profile", Prof("pa", <<>>, <<[Use("m", <<>>, patches) EXCEPT !.frags = ops]>>))>>) :
              outer \in Pulls, inner \in Pulls,
              ops \in {<<>>, <<FragOp("replace", "f", <<"doc", <<Plain({<<"e">>})>>>>)>>,
                       <<FragOp("append", "f", <<"doc", <<>>>>)>>, <<FragOp("append", "g", <<"doc", <<>>>>)>>,
                       <<FragOp("replace", "g", None)>>},
              patches \in {<<>>, <<Edits("d", <<Edit("append", "k2", <<"doc", <<Plain({<<"u">>})>>>>)>>)>>}}

MCAllWords == <<"a", "b", "false", "k1", "k2", "none", "pa", "pb", "pc", "true", "w", "x", "y", "z">>

MCSources == Graphs \cup Writings \cup Slots \cup Patches \cup SiblingPatches \cup Programs \cup Includes \cup Overlays \cup Fragments
=============================================================================
