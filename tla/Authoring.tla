----------------------------- MODULE Authoring ------------------------------
(***************************************************************************)
(* Evaluation of an authoring workspace: the include walk from the entry   *)
(* document, the overlays laid over it, the resolution of modules and      *)
(* profiles, the folding of a profile's inheritance chain into module      *)
(* instances, the typing of their inputs and the expansion of their        *)
(* outputs.  The input src is fixed by Init; every action is one step of   *)
(* evaluate_authoring_profile_v1.                                          *)
(***************************************************************************)
EXTENDS AuthoringInputs

CONSTANTS Sources,            \* the workspaces considered
          MaxIncludeDepth, MaxDocuments, MaxTypeDepth

ASSUME AuthoringBounds == {MaxIncludeDepth, MaxDocuments, MaxTypeDepth} \subseteq Nat \ {0}

VARIABLES src,        \* [docs, overlays, profile]: the captured sources and the request
          phase,      \* where the evaluation is
          walk,       \* [stack, visited, config, overlays]: the include walk
          parsed,     \* the declarations found, in written order
          diags,      \* the diagnostics so far
          ws,         \* the resolved workspace
          dfs,        \* [next, state, stack, cycles]: validate_profile_graph
          lin,        \* [stack, seen, chain]: linearize
          fold,       \* [p, i, insts]: the next item of the chain, the instances so far
          typed,      \* the typed instances
          gen         \* [at, acc]: the next instance to expand, and the expansion so far

vars == <<src, phase, walk, parsed, diags, ws, dfs, lin, fold, typed, gen>>

Entry == "config"

NoDecls == [modules |-> <<>>, extensions |-> <<>>, profiles |-> <<>>, profile_extensions |-> <<>>,
            slots |-> <<>>, globals |-> <<>>]

NoWorkspace == [modules |-> <<>>, slots |-> <<>>, profiles |-> <<>>, globals |-> <<>>]

\* An evaluation that has not begun.
Begin ==
    /\ phase = "walk"
    /\ walk = [stack |-> <<<<Entry, 1>>>>, visited |-> {Entry}, config |-> FALSE, overlays |-> <<>>]
    /\ parsed = NoDecls /\ diags = {} /\ ws = NoWorkspace
    /\ dfs = [next |-> 1, state |-> <<>>, stack |-> <<>>, cycles |-> {}]
    /\ lin = [stack |-> <<>>, seen |-> {}, chain |-> <<>>]
    /\ fold = [p |-> 1, i |-> 1, insts |-> <<>>]
    /\ typed = <<>> /\ gen = [at |-> 1, acc |-> EmptyAcc]

Init == src \in Sources /\ Begin

\* A workspace-contract violation: evaluation returns at once.
Fail == phase' = "failed" /\ UNCHANGED <<walk, parsed, diags>>

-----------------------------------------------------------------------------
(***************************************************************************)
(* The include walk.                                                       *)
(***************************************************************************)
Frame == Last(walk.stack)
Nodes == src.docs[Frame[1]]
AtNode(kinds) ==
    /\ phase = "walk" /\ walk.stack # <<>> /\ Frame[2] <= Len(Nodes)
    /\ Nodes[Frame[2]].n \in kinds

Advanced(stack) == [stack EXCEPT ![Len(stack)] = <<@[1], @[2] + 1>>]

\* Where a declaration is collected; a document's declarations keep their order.
Slot(n) == CASE n = "module" -> "modules" [] n = "extend-module" -> "extensions"
             [] n = "profile" -> "profiles" [] n = "extend-profile" -> "profile_extensions"
             [] n = "slots" -> "slots" [] OTHER -> "globals"

Collect(decls, node) == [decls EXCEPT ![Slot(node.n)] = Append(@, node.d)]

DeclKinds == {"module", "extend-module", "profile", "extend-profile", "slots", "variables"}

ConsumeDeclaration ==
    /\ AtNode(DeclKinds)
    /\ LET node == Nodes[Frame[2]]
       IN  IF node.ok THEN parsed' = Collect(parsed, node) /\ UNCHANGED diags
           ELSE diags' = diags \cup {"PARSE"} /\ UNCHANGED parsed
    /\ walk' = [walk EXCEPT !.stack = Advanced(@)]
    /\ UNCHANGED <<src, phase, ws, dfs, lin, fold, typed, gen>>

\* The root sections: only in the entry document, and only once.
ConsumeRootSection ==
    /\ AtNode({"config", "overlay"})
    /\ LET node == Nodes[Frame[2]]
       IN  IF \/ Frame[1] # Entry
              \/ node.n = "config" /\ walk.config
              \/ node.n = "overlay" /\ node.name \in Range(walk.overlays)
           THEN Fail
           ELSE /\ walk' = [walk EXCEPT !.stack = Advanced(@),
                                        !.config = @ \/ node.n = "config",
                                        !.overlays = IF node.n = "overlay" THEN Append(@, node.name) ELSE @]
                /\ UNCHANGED <<phase, parsed, diags>>
    /\ UNCHANGED <<src, ws, dfs, lin, fold, typed, gen>>

\* expand_include and expand_document: the depth, the active chain and the
\* document count are looked at before the set of visited documents.
OnStack(path) == \E i \in DOMAIN walk.stack : walk.stack[i][1] = path

ConsumeInclude ==
    /\ AtNode({"include"})
    /\ LET node == Nodes[Frame[2]]
           here == Advanced(walk.stack)
       IN  IF node.path \notin DOMAIN src.docs
           THEN IF node.optional THEN walk' = [walk EXCEPT !.stack = here] /\ UNCHANGED <<phase, parsed, diags>>
                ELSE Fail
           ELSE IF \/ Len(walk.stack) >= MaxIncludeDepth
                   \/ OnStack(node.path)
                   \/ Cardinality(walk.visited) >= MaxDocuments THEN Fail
           ELSE /\ walk' = IF node.path \in walk.visited THEN [walk EXCEPT !.stack = here]
                           ELSE [walk EXCEPT !.stack = Append(here, <<node.path, 1>>),
                                             !.visited = @ \cup {node.path}]
                /\ UNCHANGED <<phase, parsed, diags>>
    /\ UNCHANGED <<src, ws, dfs, lin, fold, typed, gen>>

FinishDocument ==
    /\ phase = "walk" /\ walk.stack # <<>> /\ Frame[2] > Len(Nodes)
    /\ LET undeclared == \E i \in DOMAIN src.overlays : src.overlays[i].name \notin Range(walk.overlays)
       IN  IF Len(walk.stack) > 1
           THEN walk' = [walk EXCEPT !.stack = Front(@)] /\ UNCHANGED phase
           ELSE /\ phase' = IF ~walk.config \/ undeclared THEN "failed" ELSE "overlay"
                /\ walk' = [walk EXCEPT !.stack = <<>>]
    /\ UNCHANGED <<src, parsed, diags, ws, dfs, lin, fold, typed, gen>>

-----------------------------------------------------------------------------
(***************************************************************************)
(* Overlays: host-supplied documents under a value-only grammar, applied   *)
(* in the order of their declaration.                                      *)
(***************************************************************************)
HasFragmentOps(item) == item.frags # <<>>

\* apply_overlay looks at the `use` items of an extended profile only.
OverlayNodeRefused(node) ==
    CASE node.n = "variables" -> FALSE
      [] node.n = "extend-profile" ->
           \E i \in DOMAIN node.d.items : node.d.items[i].k = "use" /\ HasFragmentOps(node.d.items[i])
      [] node.n = "extend-module" -> node.d.fragments # <<>> \/ node.d.outputs # <<>>
      [] OTHER -> TRUE

Supplied(name) == SelectSeq(src.overlays, LAMBDA o : o.name = name)

ApplyOverlay ==
    /\ phase = "overlay" /\ walk.overlays # <<>>
    /\ LET found == Supplied(Head(walk.overlays))
           nodes == IF found = <<>> THEN <<>> ELSE Head(found).nodes
           good  == SelectSeq(nodes, LAMBDA n : n.n \in DeclKinds /\ n.ok)
       IN  IF \E i \in DOMAIN nodes : OverlayNodeRefused(nodes[i]) THEN Fail
           ELSE /\ parsed' = Fold(Collect, parsed, good)
                /\ diags' = diags \cup (IF Len(good) < Len(nodes) THEN {"PARSE"} ELSE {})
                /\ walk' = [walk EXCEPT !.overlays = Tail(@)]
                /\ UNCHANGED phase
    /\ UNCHANGED <<src, ws, dfs, lin, fold, typed, gen>>

FinishOverlays ==
    /\ phase = "overlay" /\ walk.overlays = <<>>
    /\ phase' = "resolve"
    /\ UNCHANGED <<src, walk, parsed, diags, ws, dfs, lin, fold, typed, gen>>

-----------------------------------------------------------------------------
(***************************************************************************)
(* resolve_workspace: declarations become maps, duplicates are reported    *)
(* and the first one kept, extensions are merged, named types resolved.    *)
(* Maps are functions; r = [map, diags] is folded over the declarations.   *)
(***************************************************************************)
InsertOnce(r, d) ==
    IF d.name \in DOMAIN r.map THEN [r EXCEPT !.diags = @ \cup {"DUPLICATE"}]
    ELSE [r EXCEPT !.map = Put(@, d.name, d)]

InputNames(m) == [i \in DOMAIN m.inputs |-> m.inputs[i].name]

MergeExtension(r, e) ==
    IF e.module \notin DOMAIN r.map THEN [r EXCEPT !.diags = @ \cup {"EXTEND_MODULE"}]
    ELSE LET m     == r.map[e.module]
             fresh == SelectSeq(e.inputs, LAMBDA i : i.name \notin Range(InputNames(m)))
         IN  [map   |-> [r.map EXCEPT ![e.module] =
                             [m EXCEPT !.inputs = @ \o fresh, !.fragments = m.fragments @@ e.fragments,
                                       !.outputs = @ \o e.outputs]],
              diags |-> r.diags \cup
                        (IF Len(fresh) < Len(e.inputs) \/ DOMAIN m.fragments \cap DOMAIN e.fragments # {}
                         THEN {"DUPLICATE"} ELSE {})]

RECURSIVE ResolveType(_, _, _, _)
\* TypeResolver: named types are replaced by their declarations; unknown
\* names, cycles, excessive depth, doubled optionals and sets of aggregates
\* are refused.
ResolveNamed(types, name, active, depth) ==
    IF name \notin DOMAIN types \/ name \in active THEN Err
    ELSE ResolveType(types, types[name], active \cup {name}, depth + 1)

\* The default of a field is a scalar of the field's own type.
BadField(f) ==
    \/ f.ty = Err
    \/ f.default # None /\ (~IsScalarType(UnwrapOptional(f.ty)) \/ Coerce(f.default, f.ty) = Err)

ResolveFields(types, fs, active, depth) ==
    [n \in DOMAIN fs |-> [fs[n] EXCEPT !.ty = ResolveType(types, @, active, depth)]]

RecordType(fs) == IF \E n \in DOMAIN fs : BadField(fs[n]) THEN Err ELSE <<"rec", fs>>

\* A field that several cases have is of one type.
VariantType(discriminator, cs) ==
    IF \/ cs = <<>>
       \/ \E c \in DOMAIN cs : \E n \in DOMAIN cs[c] : BadField(cs[c][n])
       \/ \E c, d \in DOMAIN cs : \E n \in DOMAIN cs[c] \cap DOMAIN cs[d] : cs[c][n].ty # cs[d][n].ty
    THEN Err ELSE <<"variant", discriminator, cs>>

RefineType(base, allowed) ==
    IF base = Err \/ IsOptional(base) \/ ~IsScalarType(base) THEN Err ELSE <<"refine", base, allowed>>

WrapType(kind, item) ==
    IF \/ item = Err
       \/ kind = "opt" /\ IsOptional(item)
       \/ kind = "set" /\ ~IsScalarType(UnwrapOptional(item)) THEN Err
    ELSE <<kind, item>>

TupleType(ts) == IF NoErr(ts) THEN <<"tuple", ts>> ELSE Err

ResolveType(types, t, active, depth) ==
    IF depth > MaxTypeDepth THEN Err
    ELSE CASE t[1] = "named" -> ResolveNamed(types, t[2], active, depth)
           [] t[1] \in {"opt", "list", "coll", "map", "set"} ->
                WrapType(t[1], ResolveType(types, t[2], active, depth + 1))
           [] t[1] = "tuple" -> TupleType([i \in DOMAIN t[2] |-> ResolveType(types, t[2][i], active, depth + 1)])
           [] t[1] = "rec" -> RecordType(ResolveFields(types, t[2], active, depth + 1))
           [] t[1] = "variant" ->
                VariantType(t[2], [c \in DOMAIN t[3] |-> ResolveFields(types, t[3][c], active, depth + 1)])
           [] t[1] = "refine" -> RefineType(ResolveType(types, t[2], active, depth + 1), t[3])
           [] OTHER -> t

\* normalize_implicit_default: a list or a collection without a default is empty.
ImplicitDefault(i) ==
    IF i.default # None \/ i.template # None THEN i.default
    ELSE CASE i.ty[1] \in {"list", "set"} -> <<"list", <<>>>>
           [] i.ty[1] \in {"coll", "map"} -> <<"coll", <<>>>>
           [] OTHER -> None

ResolveInput(types, i) ==
    LET t == ResolveType(types, i.ty, {}, 0)
        j == [i EXCEPT !.ty = IF t = Err THEN <<"str">> ELSE t]
    IN  IF t = Err THEN j ELSE [j EXCEPT !.default = ImplicitDefault(j)]

InputErrors(types, i) ==
    LET t == ResolveType(types, i.ty, {}, 0)
    IN  IF t = Err THEN {"TYPE"}
        ELSE IF i.template # None /\ ~IsScalarType(UnwrapOptional(t)) THEN {"BAD_DEFAULT"} ELSE {}

ResolveModuleTypes(m) == [m EXCEPT !.inputs = [k \in DOMAIN @ |-> ResolveInput(m.types, @[k])]]

TypeErrors(m) ==
    UNION {InputErrors(m.types, m.inputs[k]) : k \in DOMAIN m.inputs}
    \cup (IF \E n \in DOMAIN m.types : ResolveType(m.types, <<"named", n>>, {}, 0) = Err THEN {"TYPE"} ELSE {})

MergeProfiles(ps, exts) ==
    LET first == SelectSeq([i \in DOMAIN ps |-> <<i, ps[i]>>],
                           LAMBDA x : \A j \in 1..(x[1] - 1) : ps[j].name # x[2].name)
        Mine(p) == SelectSeq(exts, LAMBDA e : e.profile = p.name)
        Extended(p) == Fold(LAMBDA q, e : [q EXCEPT !.extends = @ \o e.extends, !.items = @ \o e.items], p, Mine(p))
    IN  [i \in DOMAIN first |-> Extended(first[i][2])]

MergeErrors(ps, exts) ==
    (IF \E i, j \in DOMAIN ps : i < j /\ ps[i].name = ps[j].name THEN {"DUPLICATE"} ELSE {})
    \cup (IF \E i \in DOMAIN exts : \A j \in DOMAIN ps : ps[j].name # exts[i].profile THEN {"UNKNOWN_PROFILE"} ELSE {})

\* Globals: a second declaration needs override=#true and the same type.
MergeGlobal(r, g) ==
    LET known == g.name \in DOMAIN r.map
    IN  IF known # g.override THEN [r EXCEPT !.diags = @ \cup {"DUPLICATE"}]
        ELSE IF known /\ r.map[g.name][1] # g.value[1] THEN [r EXCEPT !.diags = @ \cup {"TYPE_MISMATCH"}]
        ELSE [r EXCEPT !.map = Put(@, g.name, g.value)]

Folded(F(_, _), decls) == Fold(F, [map |-> <<>>, diags |-> {}], decls)

ParentErrors(ps) ==
    LET names == {ps[i].name : i \in DOMAIN ps}
    IN  UNION {(IF Range(ps[i].extends) \subseteq names THEN {} ELSE {"UNKNOWN_PROFILE"})
               \cup (IF IsInjective(ps[i].extends) THEN {} ELSE {"DUPLICATE"}) : i \in DOMAIN ps}

ResolveWorkspace ==
    /\ phase = "resolve"
    /\ LET base     == Folded(InsertOnce, parsed.modules)
           merged   == Fold(MergeExtension, base, parsed.extensions)
           modules  == [n \in DOMAIN merged.map |-> ResolveModuleTypes(merged.map[n])]
           slots    == Folded(InsertOnce, parsed.slots)
           globals  == Folded(MergeGlobal, parsed.globals)
           profiles == MergeProfiles(parsed.profiles, parsed.profile_extensions)
           unfilled == \E n \in DOMAIN modules : modules[n].slot \notin {"none"} \cup DOMAIN slots.map
       IN  /\ ws' = [modules |-> modules, slots |-> slots.map, globals |-> globals.map, profiles |-> profiles]
           /\ diags' = diags \cup merged.diags \cup slots.diags \cup globals.diags
                       \cup UNION {TypeErrors(merged.map[n]) : n \in DOMAIN merged.map}
                       \cup MergeErrors(parsed.profiles, parsed.profile_extensions)
                       \cup ParentErrors(profiles)
                       \cup (IF unfilled THEN {"SLOT"} ELSE {})
    /\ phase' = "graph"
    /\ UNCHANGED <<src, walk, parsed, dfs, lin, fold, typed, gen>>

-----------------------------------------------------------------------------
(***************************************************************************)
(* validate_profile_graph: an iterative depth-first search over the        *)
(* parents of every profile, in written order.                             *)
(***************************************************************************)
ProfileNames == {ws.profiles[i].name : i \in DOMAIN ws.profiles}
Profile(n) == ws.profiles[SelectInSeq(ws.profiles, LAMBDA p : p.name = n)]

Marked(n, mark) == [dfs EXCEPT !.state = Put(@, n, mark)]

StartProfile ==
    /\ phase = "graph" /\ dfs.stack = <<>> /\ dfs.next <= Len(ws.profiles)
    /\ LET n == ws.profiles[dfs.next].name
       IN  dfs' = IF n \in DOMAIN dfs.state THEN [dfs EXCEPT !.next = @ + 1]
                  ELSE [Marked(n, "visiting") EXCEPT !.next = @ + 1, !.stack = <<<<n, 1>>>>]
    /\ UNCHANGED <<src, phase, walk, parsed, diags, ws, lin, fold, typed, gen>>

VisitParent ==
    /\ phase = "graph" /\ dfs.stack # <<>>
    /\ Last(dfs.stack)[2] <= Len(Profile(Last(dfs.stack)[1]).extends)
    /\ LET parent == Profile(Last(dfs.stack)[1]).extends[Last(dfs.stack)[2]]
           here   == Advanced(dfs.stack)
       IN  IF parent \notin ProfileNames \/ (parent \in DOMAIN dfs.state /\ dfs.state[parent] = "done")
           THEN dfs' = [dfs EXCEPT !.stack = here] /\ UNCHANGED diags
           ELSE IF parent \in DOMAIN dfs.state
           THEN /\ dfs' = [dfs EXCEPT !.stack = here]
                /\ diags' = diags \cup {"PROFILE_CYCLE"}
           ELSE /\ dfs' = [Marked(parent, "visiting") EXCEPT !.stack = Append(here, <<parent, 1>>)]
                /\ UNCHANGED diags
    /\ UNCHANGED <<src, phase, walk, parsed, ws, lin, fold, typed, gen>>

LeaveProfile ==
    /\ phase = "graph" /\ dfs.stack # <<>>
    /\ Last(dfs.stack)[2] > Len(Profile(Last(dfs.stack)[1]).extends)
    /\ dfs' = [Marked(Last(dfs.stack)[1], "done") EXCEPT !.stack = Front(@)]
    /\ UNCHANGED <<src, phase, walk, parsed, diags, ws, lin, fold, typed, gen>>

\* An abstract profile cannot be selected; an unknown one is a diagnostic.
SelectProfile ==
    /\ phase = "graph" /\ dfs.stack = <<>> /\ dfs.next > Len(ws.profiles)
    /\ IF src.profile \notin ProfileNames
       THEN phase' = "rejected" /\ diags' = diags \cup {"UNKNOWN_PROFILE"} /\ UNCHANGED lin
       ELSE IF Profile(src.profile).abstract THEN phase' = "failed" /\ UNCHANGED <<diags, lin>>
       ELSE /\ phase' = "linearize"
            /\ lin' = [lin EXCEPT !.stack = <<<<src.profile, FALSE>>>>]
            /\ UNCHANGED diags
    /\ UNCHANGED <<src, walk, parsed, ws, dfs, fold, typed, gen>>

-----------------------------------------------------------------------------
(***************************************************************************)
(* linearize: parents in written order, depth first, each ancestor once,   *)
(* the profile itself last.                                                *)
(***************************************************************************)
Unseen(parents, seen) ==
    Reverse(SelectSeq(parents, LAMBDA p : p \in ProfileNames /\ p \notin seen))

LinearizeStep ==
    /\ phase = "linearize" /\ lin.stack # <<>>
    /\ LET n    == Last(lin.stack)[1]
           seen == lin.seen \cup {n}
           more == Unseen(Profile(n).extends, seen)
       IN  lin' = IF Last(lin.stack)[2]
                  THEN [lin EXCEPT !.stack = Front(@), !.chain = Append(@, n)]
                  ELSE IF n \in lin.seen THEN [lin EXCEPT !.stack = Front(@)]
                  ELSE [lin EXCEPT !.seen = seen,
                                   !.stack = Append(Front(@), <<n, TRUE>>)
                                             \o [i \in DOMAIN more |-> <<more[i], FALSE>>]]
    /\ UNCHANGED <<src, phase, walk, parsed, diags, ws, dfs, fold, typed, gen>>

FinishLinearize ==
    /\ phase = "linearize" /\ lin.stack = <<>>
    /\ phase' = "fold"
    /\ UNCHANGED <<src, walk, parsed, diags, ws, dfs, lin, fold, typed, gen>>

RECURSIVE AncestorsOf(_, _)
AncestorsOf(frontier, out) ==
    LET next == UNION {Range(Profile(n).extends) : n \in frontier \cap ProfileNames} \ out
    IN  IF next = {} THEN out ELSE AncestorsOf(next, out \cup next)

-----------------------------------------------------------------------------
(***************************************************************************)
(* resolve_profile: the items of the chain, one after the other.           *)
(***************************************************************************)
Current == Profile(lin.chain[fold.p])
AtItem(k) == /\ phase = "fold" /\ fold.p <= Len(lin.chain) /\ fold.i <= Len(Current.items)
             /\ Current.items[fold.i].k = k
ItemHere == Current.items[fold.i]

SlotOf(module) == IF module \in DOMAIN ws.modules THEN ws.modules[module].slot ELSE "none"
SlotMax(slot) == IF slot \in DOMAIN ws.slots THEN ws.slots[slot].max ELSE 1

FreshInstance(item) ==
    [alias |-> item.alias, module |-> item.module, active |-> TRUE, with |-> <<>>,
     ops |-> <<>>, frags |-> <<>>]

\* Mutant: the last write of the chain wins.
LayerWriteLast(inst, w) ==
    [inst EXCEPT !.with = Put(@, w.name, <<<<Current.name, w.value>>>>),
                 !.ops  = Append(@, [k |-> "with", name |-> w.name, value |-> w.value])]

\* A write keeps the layers of unrelated branches for a descendant to settle.
LayerWrite(inst, w) ==
    LET old  == IF w.name \in DOMAIN inst.with THEN inst.with[w.name] ELSE <<>>
        kept == SelectSeq(old, LAMBDA l : l[1] \notin {Current.name} \cup AncestorsOf({Current.name}, {}))
    IN  [inst EXCEPT !.with = Put(@, w.name, Append(kept, <<Current.name, w.value>>)),
                     !.ops  = Append(@, [k |-> "with", name |-> w.name, value |-> w.value])]

LayerOnto(inst, item) ==
    LET written == Fold(LayerWrite, [inst EXCEPT !.active = TRUE], item.with)
    IN  [written EXCEPT !.ops = @ \o item.patches, !.frags = @ \o item.frags]

\* apply_instance_layer: an alias belongs to one module; a displaced
\* instance that is used again keeps its configuration.
ApplyInstanceLayer(insts, item) ==
    LET at == SelectInSeq(insts, LAMBDA x : x.alias = item.alias)
    IN  IF at = 0 THEN [insts |-> Append(insts, LayerOnto(FreshInstance(item), item)), diags |-> {}]
        ELSE IF insts[at].module # item.module THEN [insts |-> insts, diags |-> {"ALIAS_CONFLICT"}]
        ELSE [insts |-> [insts EXCEPT ![at] = LayerOnto(@, item)], diags |-> {}]

Folded1(r) == /\ fold' = [fold EXCEPT !.i = @ + 1, !.insts = r.insts]
              /\ diags' = diags \cup r.diags

FoldUse ==
    /\ AtItem("use")
    /\ Folded1(IF ItemHere.module \notin DOMAIN ws.modules
               THEN [insts |-> fold.insts, diags |-> {"UNKNOWN_MODULE"}]
               ELSE ApplyInstanceLayer(fold.insts, ItemHere))
    /\ UNCHANGED <<src, phase, walk, parsed, ws, dfs, lin, typed, gen>>

Displaces(inst, slot) == inst.active /\ SlotOf(inst.module) = slot

\* `replace` deactivates every provider of a single-provider slot.
FoldReplace ==
    /\ AtItem("replace")
    /\ LET slot == ItemHere.slot
           hit  == {i \in DOMAIN fold.insts : Displaces(fold.insts[i], slot)}
           rest == [i \in DOMAIN fold.insts |-> [fold.insts[i] EXCEPT !.active = @ /\ i \notin hit]]
           Refused(code) == [insts |-> fold.insts, diags |-> {code}]
       IN  Folded1(IF ItemHere.module \notin DOMAIN ws.modules THEN Refused("UNKNOWN_MODULE")
                   ELSE IF SlotOf(ItemHere.module) # slot \/ SlotMax(slot) # 1 \/ hit = {}
                   THEN Refused("SLOT")
                   ELSE ApplyInstanceLayer(rest, ItemHere))
    /\ UNCHANGED <<src, phase, walk, parsed, ws, dfs, lin, typed, gen>>

\* Mutant: the chain is taken up again after its last profile.
NextProfileAgain ==
    /\ phase = "fold" /\ fold.p <= Len(lin.chain) /\ fold.i > Len(Current.items)
    /\ fold' = [fold EXCEPT !.p = (fold.p % Len(lin.chain)) + 1, !.i = 1]
    /\ UNCHANGED <<src, phase, walk, parsed, diags, ws, dfs, lin, typed, gen>>

NextProfile ==
    /\ phase = "fold" /\ fold.p <= Len(lin.chain) /\ fold.i > Len(Current.items)
    /\ fold' = [fold EXCEPT !.p = @ + 1, !.i = 1]
    /\ UNCHANGED <<src, phase, walk, parsed, diags, ws, dfs, lin, typed, gen>>

\* Two layers of one input left, with different values after coercion.
SiblingConflict(inst, name) ==
    LET found  == InputOf(ws.modules[inst.module], name)
        values == {Coerce(inst.with[name][i][2], found[2].ty) : i \in DOMAIN inst.with[name]} \ {Err}
    IN  found # None /\ Cardinality(values) > 1

ActiveInstances == SelectSeq(fold.insts, LAMBDA x : x.active)

Providers(slot) == {i \in DOMAIN ActiveInstances : SlotOf(ActiveInstances[i].module) = slot}

FinishFold ==
    /\ phase = "fold" /\ fold.p > Len(lin.chain)
    /\ LET act     == ActiveInstances
           sibling == \E i \in DOMAIN act : \E n \in DOMAIN act[i].with : SiblingConflict(act[i], n)
           crowded == \E i \in DOMAIN act : LET s == SlotOf(act[i].module)
                                            IN  s # "none" /\ Cardinality(Providers(s)) > SlotMax(s)
       IN  diags' = diags \cup (IF sibling THEN {"SIBLING_CONFLICT"} ELSE {})
                          \cup (IF crowded THEN {"SLOT"} ELSE {})
    /\ phase' = "type"
    /\ UNCHANGED <<src, walk, parsed, ws, dfs, lin, fold, typed, gen>>

-----------------------------------------------------------------------------
(***************************************************************************)
(* Typing, expansion and the last refusals.                                *)
(***************************************************************************)
TypeNext ==
    /\ phase = "type" /\ Len(typed) < Len(ActiveInstances)
    /\ LET inst == ActiveInstances[Len(typed) + 1]
           t    == TypeInstance(ws.modules[inst.module], inst, ws.globals)
       IN  typed' = Append(typed, t) /\ diags' = diags \cup t.diags
    /\ UNCHANGED <<src, phase, walk, parsed, ws, dfs, lin, fold, gen>>

FinishTyping ==
    /\ phase = "type" /\ Len(typed) = Len(ActiveInstances)
    /\ phase' = IF diags # {} THEN "rejected" ELSE "expand"
    /\ UNCHANGED <<src, walk, parsed, diags, ws, dfs, lin, fold, typed, gen>>

\* The budget is one for the whole plan.
ExpandNext ==
    /\ phase = "expand" /\ gen.at <= Len(typed) /\ ~gen.acc.exhausted
    /\ LET inst   == typed[gen.at]
           module == ws.modules[inst.module]
           acc    == ExpandOutputs(inst, module.outputs,
                                   InputScope(module, inst.values, ws.globals), gen.acc)
       IN  gen' = [at |-> gen.at + 1, acc |-> acc] /\ diags' = diags \cup acc.diags
    /\ UNCHANGED <<src, phase, walk, parsed, ws, dfs, lin, fold, typed>>

FinishExpand ==
    /\ phase = "expand" /\ (gen.at > Len(typed) \/ gen.acc.exhausted)
    /\ phase' = "finish"
    /\ UNCHANGED <<src, walk, parsed, diags, ws, dfs, lin, fold, typed, gen>>

\* Directories are not looked at for conflicts.
Claims == SelectSeq(gen.acc.out, LAMBDA o : o.k # "dir")
DestConflict == \E i, j \in DOMAIN Claims : i < j /\ Claims[i].to = Claims[j].to
NotCaptured == \E i \in DOMAIN gen.acc.out : LET o == gen.acc.out[i]
               IN  o.k \in {"file", "dir"} /\ ~o.captured /\ ~o.optional

Finish ==
    /\ phase = "finish"
    /\ diags' = diags \cup (IF DestConflict THEN {"DEST_CONFLICT"} ELSE {})
    /\ phase' = IF diags' # {} \/ NotCaptured THEN "rejected" ELSE "accepted"
    /\ UNCHANGED <<src, walk, parsed, ws, dfs, lin, fold, typed, gen>>

-----------------------------------------------------------------------------
Next ==
    \/ ConsumeDeclaration \/ ConsumeRootSection \/ ConsumeInclude \/ FinishDocument
    \/ ApplyOverlay \/ FinishOverlays \/ ResolveWorkspace
    \/ StartProfile \/ VisitParent \/ LeaveProfile \/ SelectProfile
    \/ LinearizeStep \/ FinishLinearize
    \/ FoldUse \/ FoldReplace \/ NextProfile \/ FinishFold
    \/ TypeNext \/ FinishTyping \/ ExpandNext \/ FinishExpand \/ Finish

Done == phase \in {"accepted", "rejected", "failed"}
Stop == Done /\ UNCHANGED vars

\* One thread runs the evaluation and never waits for anything: as long as
\* it is not done it takes steps.  (A step is possible whenever it is not
\* done, so this is the weak fairness of Next, written without ENABLED.)
Progress == []<>Done \/ []<><<TRUE>>_vars

Spec == Init /\ [][Next \/ Stop]_vars /\ Progress

-----------------------------------------------------------------------------
(***************************************************************************)
(* Properties.                                                             *)
(***************************************************************************)
PastGraph == phase \notin {"walk", "overlay", "resolve", "graph", "failed"}
PastLinearize == PastGraph /\ phase # "linearize" /\ lin.chain # <<>>

\* validate_profile_graph reports a cycle exactly when some profile inherits
\* from itself, whatever the order in which profiles and parents are written;
\* linearize then gives every known ancestor once, the profile itself last
\* and, in a graph without cycles, every parent before its children.
ChainSound ==
    /\ PastGraph => (("PROFILE_CYCLE" \in diags) <=> \E n \in ProfileNames : n \in AncestorsOf({n}, {}))
    /\ PastLinearize =>
        /\ Range(lin.chain) = {src.profile} \cup (AncestorsOf({src.profile}, {}) \cap ProfileNames)
        /\ IsInjective(lin.chain)
        /\ "PROFILE_CYCLE" \notin diags =>
             \A i, j \in DOMAIN lin.chain :
                 lin.chain[i] \in AncestorsOf({lin.chain[j]}, {}) => i < j

\* What the profile n does to an alias, in written order, and which of it
\* concerns one input.
OpsOf(n, alias) ==
    FlattenSeq([i \in DOMAIN Profile(n).items |->
        LET item == Profile(n).items[i]
        IN  IF item.alias # alias THEN <<>>
            ELSE [j \in DOMAIN item.with |-> [k |-> "with", name |-> item.with[j].name, value |-> item.with[j].value]]
                 \o item.patches])

Touches(op, input) ==
    CASE op.k = "with"  -> op.name = input.name
      [] op.k = "field" -> IsPrefix(input.name, op.path)
      [] OTHER          -> op.input = input.name

OpsOn(n, alias, input) == SelectSeq(OpsOf(n, alias), LAMBDA op : Touches(op, input))

\* The profiles of the chain that concern an input, the orders in which
\* they may be layered (an ancestor before its descendants, siblings in any
\* order), and the value the input has after one of them.
Layers(alias, input) == {n \in Range(lin.chain) : OpsOn(n, alias, input) # <<>>}

Orders(profiles) ==
    {s \in SetToSeqs(profiles) :
        \A i, j \in DOMAIN s : s[i] \in AncestorsOf({s[j]}, {}) => i < j}

ValueAfter(order, module, alias, input) ==
    Fold(LAMBDA r, op : ApplyOp(r, module, ws.globals, op), Defaults(module),
         FlattenSeq([i \in DOMAIN order |-> OpsOn(order[i], alias, input)])).values[input.name]

\* The inputs of the accepted instances that profiles concern.
LayeredInputs ==
    IF phase # "accepted" THEN {}
    ELSE {x \in UNION {{<<k, ws.modules[typed[k].module].inputs[m]>> :
                            m \in DOMAIN ws.modules[typed[k].module].inputs} : k \in DOMAIN typed} :
             Layers(typed[x[1]].alias, x[2]) # {}}

\* How they do: by whole-input writes, field patches or collection patches.
Kinds(x) ==
    UNION {{op.k : op \in Range(OpsOn(n, typed[x[1]].alias, x[2]))} : n \in Layers(typed[x[1]].alias, x[2])}

AgreesWith(x, order) ==
    typed[x[1]].values[x[2].name] = ValueAfter(order, ws.modules[typed[x[1]].module], typed[x[1]].alias, x[2])

OrdersOf(x) == Orders(Layers(typed[x[1]].alias, x[2]))

\* In an accepted evaluation an input that profiles write as a whole, and no
\* layer patches, has the value of every order of its layers: it does not
\* depend on how the parents of a profile are written, since differing
\* siblings are a conflict until a descendant settles it.  A patched input has the
\* value of some order in which descendants come after their ancestors, the
\* only one when no two layers are siblings: patches of siblings are
\* applied in the order of the chain, without a conflict (see SiblingsAgree).
WritersAgree ==
    \A x \in LayeredInputs :
        IF Kinds(x) # {"with"} THEN \E order \in OrdersOf(x) : AgreesWith(x, order)
        ELSE \A order \in OrdersOf(x) : AgreesWith(x, order)

\* Profile inheritance as a whole: the chain is right, a value that accepted
\* instances get by whole-input writes alone does not depend on the order of
\* parents, and a patched one respects inheritance.
LayersSound == ChainSound /\ WritersAgree

\* What docs/authoring/profiles-patches.md says of sibling parents: "If they
\* assign different values to the same module input, Malm asks you to
\* resolve the conflict".  So an accepted input that is assigned, as a
\* whole or by `set` and `unset` of its fields, has the same value in every
\* order of its layers.  resolve_profile looks for conflicts among the
\* whole-input writes only.
SiblingsAgree ==
    \A x \in LayeredInputs :
        "coll" \notin Kinds(x) => \A order \in OrdersOf(x) : AgreesWith(x, order)

RECURSIVE NoCapture(_, _)
\* No loop variable inside an @if-present shadows the name it has proved
\* present, and nothing is included from outside the checked program.
NoCapture(nodes, present) ==
    \A i \in DOMAIN nodes : LET n == nodes[i] IN
        CASE n.k = "when" -> /\ NoCapture(n.then, present \cup (IF n.pred.kind = "set" THEN {n.pred.ref} ELSE {}))
                             /\ NoCapture(n.else, present)
          [] n.k \in {"each", "range"} ->
               /\ \A p \in present : ~IsPrefix(n.binding, p)
               /\ NoCapture(n.body, present)
          [] n.k = "plain" -> NoCapture(n.kids, present)
          [] n.k = "doc" -> NoCapture(n.nodes, present)
          [] OTHER -> n.k \notin {"include", "insert"}

Checked(m) ==
    /\ CheckNodes(m, ModuleEnv(m, ws.globals), m.outputs) = {}
    /\ NoCapture(m.outputs, {})

\* The static reading is sound: a module whose outputs check without a
\* diagnostic expands, with every value its inputs can have been given,
\* without a reference, predicate or loop failing.  Only for programs that
\* NoCapture describes: none in which a loop variable shadows a name an
\* enclosing @if-present has proved present (the checker still takes it for
\* present there), and none with include or insert nodes, whose content is
\* not part of the checked program.
CheckedModulesExpand ==
    phase \in {"finish", "accepted"} =>
        ((\A k \in DOMAIN typed : Checked(ws.modules[typed[k].module]))
            => gen.acc.diags \subseteq {"BUDGET"} /\ gen.acc.silent = {})
=============================================================================
