-------------------------- MODULE AuthoringInputs ---------------------------
(***************************************************************************)
(* The inputs of one module instance: defaults, the whole-input writes and *)
(* patches of the profile layers in chain order, the computed defaults in  *)
(* dependency order, and the sources of the module's fragments.            *)
(*                                                                         *)
(* r = [values, diags, silent] is folded over the operations: the input    *)
(* values so far, the diagnostics, and, as history, the operations that    *)
(* were left out without a diagnostic.                                     *)
(***************************************************************************)
EXTENDS AuthoringExpand

Put(f, k, v) == (k :> v) @@ f

Report(r, code) == [r EXCEPT !.diags = @ \cup {code}]

Store(r, name, v) ==
    IF v = Err THEN Report(r, "TYPE_MISMATCH") ELSE [r EXCEPT !.values = Put(@, name, v)]

InputOf(module, name) ==
    LET i == SelectInSeq(module.inputs, LAMBDA d : d.name = name)
    IN  IF i = 0 THEN None ELSE <<"input", module.inputs[i]>>

\* Defaults; an optional input with neither kind of default is null.
ApplyDefault(r, input) ==
    IF input.default # None THEN Store(r, input.name, Coerce(input.default, input.ty))
    ELSE IF IsOptional(input.ty) /\ input.template = None THEN Store(r, input.name, Null)
    ELSE r

\* apply_with
ApplyWith(r, module, op) ==
    LET found == InputOf(module, op.name)
    IN  IF found = None THEN Report(r, "UNKNOWN_INPUT")
        ELSE IF op.value = Null /\ ~IsOptional(found[2].ty) THEN Report(r, "NULL_NOT_OPTIONAL")
        ELSE Store(r, op.name, Coerce(op.value, found[2].ty))

\* TypeEnv::new: the names a module's documents may refer to, with their types.
ModuleEnv(module, globals) ==
    [bindings |-> <<>>, refined |-> {},
     globals  |-> [n \in DOMAIN globals |-> <<globals[n][1]>>],
     inputs   |-> [i \in DOMAIN module.inputs |-> <<module.inputs[i].name, module.inputs[i].ty>>]]

-----------------------------------------------------------------------------
(***************************************************************************)
(* Field patches: `set` and `unset` along a path of record fields.         *)
(***************************************************************************)
\* The fields that can be patched: those of the record, or of the active
\* case of a variant.
ActiveFields(t, fields) ==
    LET o == OperationalType(t)
    IN  CASE o[1] = "rec" -> <<"fields", o[2]>>
          [] o[1] = "variant" ->
               IF o[2] \in DOMAIN fields /\ fields[o[2]][2] \in DOMAIN o[3]
               THEN <<"fields", o[3][fields[o[2]][2]]>> ELSE Err
          [] OTHER -> None

UnsetRefused(f) == f.required \/ (f.default # None /\ ~IsOptional(f.ty))

LeafValue(f, value) ==
    IF value = None THEN IF UnsetRefused(f) THEN Err ELSE Null
    ELSE LET v == Coerce(value, f.ty) IN IF v # Err /\ CollectionsFit(v) THEN v ELSE Err

RECURSIVE Navigate(_, _, _, _)
Descends(f, fields, name) ==
    /\ LoweredType(UnwrapOptional(f.ty))[1] = "rec"
    /\ name \in DOMAIN fields /\ fields[name] # Null

Patched(fields, name, new) == IF new \in {None, Err} THEN new ELSE <<"rec", [fields EXCEPT ![name] = new]>>

PatchField(fields, active, path, value) ==
    IF active \in {None, Err} THEN active
    ELSE IF Head(path) \notin DOMAIN active[2] THEN Err
    ELSE IF Len(path) = 1
    THEN Patched(fields, Head(path), LeafValue(active[2][Head(path)], value))
    ELSE IF ~Descends(active[2][Head(path)], fields, Head(path)) THEN Err
    ELSE Patched(fields, Head(path),
                 Navigate(fields[Head(path)], UnwrapOptional(active[2][Head(path)].ty), Tail(path), value))

\* navigate_field_patch: the patched value, Err after a diagnostic, or None
\* when it gives up without one.
Navigate(v, t, path, value) ==
    IF v = Null THEN Err
    ELSE IF v[1] # "rec" THEN None
    ELSE PatchField(v[2], ActiveFields(t, v[2]), path, value)

StorePatched(r, input, new) ==
    IF new = Err THEN Report(r, "PATCH")
    ELSE IF new = None THEN [r EXCEPT !.silent = @ \cup {"patch"}]
    ELSE Store(r, input.name, Coerce(new, input.ty))

PatchInput(r, input, op) ==
    IF input.name \notin DOMAIN r.values THEN Report(r, "PATCH")
    ELSE StorePatched(r, input, Navigate(r.values[input.name], UnwrapOptional(input.ty),
                                         Suffix(op.path, input.name), op.value))

\* apply_field_patch: the input is the longest one whose name starts the path.
ApplyFieldPatch(r, module, op) ==
    LET i == LongestPrefix([k \in DOMAIN module.inputs |-> <<module.inputs[k].name>>], op.path)
    IN  IF i = 0 THEN Report(r, "UNKNOWN_INPUT") ELSE PatchInput(r, module.inputs[i], op)

-----------------------------------------------------------------------------
(***************************************************************************)
(* Collection patches: the edits of one patch in written order; an edit    *)
(* that fails leaves the others to be applied.  c = [items, diags].        *)
(***************************************************************************)
PatchItem(value, t) ==
    LET v == Coerce(value, t) IN IF v # Err /\ CollectionsFit(v) THEN v ELSE Err

\* A document put into a collection is checked in the module's scope.
DocErrors(module, globals, v) ==
    IF v[1] = "doc" THEN CheckNodes(module, ModuleEnv(module, globals), v[2]) ELSE {}

\* errs: what checking the document v, if it is one, reports.
EditOne(c, e, v, at, errs) ==
    LET found   == [c EXCEPT !.diags = @ \cup errs]
        refused == [found EXCEPT !.diags = @ \cup {"PATCH"}]
    IN  CASE v = Err -> [c EXCEPT !.diags = @ \cup {"PATCH"}]
          [] e.op = "replace" -> IF at = 0 THEN refused ELSE [found EXCEPT !.items[at] = <<e.key, v>>]
          [] e.op = "append" ->
               IF at # 0 \/ Len(c.items) + 1 > MaxCollection THEN refused
               ELSE [found EXCEPT !.items = Append(@, <<e.key, v>>)]
          [] OTHER ->
               IF at # 0 THEN [c EXCEPT !.items = SelectSeq(@, LAMBDA x : x[1] # e.key)]
               ELSE IF e.optional THEN c ELSE refused

EditAll(c, all, errs) ==
    IF Len(all) > MaxCollection \/ \E i \in DOMAIN all : all[i][2] = Err
    THEN [c EXCEPT !.diags = @ \cup {"PATCH"}]
    ELSE [c EXCEPT !.items = IF errs = {} THEN all ELSE @, !.diags = @ \cup errs]

EditCollection(c, module, globals, t, e) ==
    IF e.op = "replace-all"
    THEN EditAll(c, [i \in DOMAIN e.items |-> <<e.items[i][1], PatchItem(e.items[i][2], t)>>],
                 UNION {DocErrors(module, globals, e.items[i][2]) : i \in DOMAIN e.items})
    ELSE EditOne(c, e, IF e.op = "remove" THEN Null ELSE PatchItem(e.value, t), KeyIndex(c.items, e.key),
                 DocErrors(module, globals, e.value))

\* A map keeps its keys in order after every patch.
StoreEdited(r, op, t, c) ==
    [r EXCEPT !.diags = @ \cup c.diags,
              !.values = Put(@, op.input, <<"coll", IF t[1] = "map" THEN SortedByKey(c.items) ELSE c.items>>)]

PatchCollection(r, module, globals, op, t) ==
    IF \/ t[1] \notin {"coll", "map"}
       \/ op.input \notin DOMAIN r.values \/ r.values[op.input] = Null THEN Report(r, "PATCH")
    ELSE StoreEdited(r, op, t, Fold(LAMBDA c, e : EditCollection(c, module, globals, t[2], e),
                                    [items |-> r.values[op.input][2], diags |-> {}], op.ops))

TypeOfInput(found) == IF found = None THEN None ELSE UnwrapOptional(found[2].ty)

ApplyCollectionPatch(r, module, globals, op) ==
    PatchCollection(r, module, globals, op, TypeOfInput(InputOf(module, op.input)))

ApplyOp(r, module, globals, op) ==
    CASE op.k = "with"  -> ApplyWith(r, module, op)
      [] op.k = "field" -> ApplyFieldPatch(r, module, op)
      [] OTHER          -> ApplyCollectionPatch(r, module, globals, op)

-----------------------------------------------------------------------------
(***************************************************************************)
(* Computed defaults: inputs with a template and no value yet.  A template *)
(* is the sequence of names it substitutes.                                *)
(***************************************************************************)
Pending(module, values) ==
    SelectSeq(module.inputs, LAMBDA i : i.template # None /\ i.name \notin DOMAIN values)

Dependencies(input, names) == {n \in Range(input.template[2]) : n \in names}

RECURSIVE Visit(_, _, _)
\* topological_order: depth-first colouring; x = [done, order, cycle].
Visit(x, pending, path) ==
    LET n     == Last(path)
        input == pending[SelectInSeq(pending, LAMBDA i : i.name = n)]
        names == {pending[i].name : i \in DOMAIN pending}
        deps  == SelectSeq(input.template[2], LAMBDA d : d \in Dependencies(input, names))
        Step(y, d) == IF y.cycle \/ d \in y.done THEN y
                      ELSE IF d \in Range(path) THEN [y EXCEPT !.cycle = TRUE]
                      ELSE Visit(y, pending, Append(path, d))
        after == Fold(Step, x, deps)
    IN  IF after.cycle \/ n \in after.done THEN after
        ELSE [after EXCEPT !.done = @ \cup {n}, !.order = Append(@, n)]

TopologicalOrder(pending) ==
    Fold(LAMBDA x, i : IF x.cycle \/ i.name \in x.done THEN x ELSE Visit(x, pending, <<i.name>>),
             [done |-> {}, order |-> <<>>, cycle |-> FALSE], pending)

\* template_result_to_value: the text of the substituted value read back as
\* the input's type.  Only templates of one reference keep their text.
TemplateResult(v, t) ==
    LET k == LoweredType(UnwrapOptional(t))[1]
    IN  CASE k \in {"str", "enum"} /\ v[1] \in {"str", "path"} -> <<"str", v[2]>>
          [] k = "path" /\ v[1] \in {"str", "path"} -> <<"path", v[2]>>
          [] k = "int" /\ v[1] = "int" -> v
          [] k = "bool" /\ v[1] \in {"bool", "str"} /\ v[2] \in {"true", "false"} -> <<"bool", v[2]>>
          [] OTHER -> Err

InputScope(module, values, globals) ==
    [bindings |-> <<>>, globals |-> globals,
     inputs   |-> LET set == SelectSeq(module.inputs, LAMBDA i : i.name \in DOMAIN values)
                  IN  [i \in DOMAIN set |-> <<set[i].name, values[set[i].name]>>]]

Rendered(r, input, vs) ==
    IF \E i \in DOMAIN vs : ~Emits(vs[i]) THEN Report(r, "TEMPLATE")
    ELSE Store(r, input.name, IF TemplateResult(vs[1], input.ty) = Err THEN Err
                              ELSE Coerce(TemplateResult(vs[1], input.ty), input.ty))

ComputeDefault(r, input, scope) ==
    Rendered(r, input, [i \in DOMAIN input.template[2] |-> ScopeLookup(scope, input.template[2][i])])

InOrder(r, module, globals, t) ==
    IF t.cycle THEN Report(r, "TYPE_CYCLE")
    ELSE Fold(LAMBDA x, n : ComputeDefault(x, InputOf(module, n)[2], InputScope(module, x.values, globals)),
              r, t.order)

ApplyComputedDefaults(r, module, globals) ==
    InOrder(r, module, globals, TopologicalOrder(Pending(module, r.values)))

-----------------------------------------------------------------------------
(***************************************************************************)
(* Fragments and the whole instance.                                       *)
(***************************************************************************)
\* A source that was not captured, or is not valid in its format, is None.
ApplyFragmentOp(f, op) ==
    IF \/ op.fragment \notin DOMAIN f.map
       \/ op.k = "append" /\ f.map[op.fragment].one
       \/ op.source = None THEN [f EXCEPT !.diags = @ \cup {"FRAGMENT"}]
    ELSE [f EXCEPT !.map[op.fragment].sources = IF op.k = "append" THEN Append(@, op.source) ELSE <<op.source>>]

Required(input) == input.default = None /\ input.template = None /\ ~IsOptional(input.ty)

\* check_profile_inner for one instance: r the typed inputs, f the fragments.
Typed(inst, module, r, f) ==
    [alias |-> inst.alias, module |-> inst.module, values |-> r.values, fragments |-> f.map, silent |-> r.silent,
     diags |-> r.diags \cup f.diags
               \cup (IF \E n \in DOMAIN r.values : ~CollectionsFit(r.values[n]) THEN {"COLLECTION"} ELSE {})
               \cup (IF \E i \in DOMAIN module.inputs : /\ Required(module.inputs[i])
                                                        /\ module.inputs[i].name \notin DOMAIN r.values
                     THEN {"MISSING_REQUIRED"} ELSE {})]

Defaults(module) == Fold(ApplyDefault, [values |-> <<>>, diags |-> {}, silent |-> {}], module.inputs)

Layered(module, inst, globals) ==
    Fold(LAMBDA r, op : ApplyOp(r, module, globals, op), Defaults(module), inst.ops)

TypeInstance(module, inst, globals) ==
    Typed(inst, module, ApplyComputedDefaults(Layered(module, inst, globals), module, globals),
          Fold(ApplyFragmentOp, [map |-> module.fragments, diags |-> {}], inst.frags))
=============================================================================
