----------------------------- MODULE RichValues -----------------------------
(***************************************************************************)
(* Values, types, paths and expressions of the rich-config dialect.        *)
(* Values are tuples that start with their kind: <<"null">>, <<"bool", b>>,*)
(* <<"int", n>>, <<"str", w>>, <<"list", s>>, and <<"rec", f>> and         *)
(* <<"coll", f>> with a function f from keys.  Types are <<kind>> for      *)
(* scalars, <<"list", t>>, <<"coll", t>> and <<"rec", fields>>, a field    *)
(* being [ty, optional, default].                                          *)
(*                                                                         *)
(* Evaluation threads env = [code, resolved, active, at, steps]: the first *)
(* diagnostic, the resolved variables, the variables being resolved, the   *)
(* next provenance number and the steps taken.                             *)
(***************************************************************************)
EXTENDS Integers, Sequences, FiniteSets, SequencesExt, Functions, FiniteSetsExt, TLC

CONSTANTS Words,           \* the names and strings of the instance, in byte order
          MaxItems,        \* MAX_RICH_COLLECTION_ITEMS
          MaxValueDepth,   \* MAX_RICH_VALUE_DEPTH
          MaxValues,       \* MAX_RICH_TOTAL_VALUES
          MaxSteps         \* MAX_RICH_EVALUATION_STEPS

Null == <<"null">>
None == <<"none">>         \* Rust's None
Fine == "none"             \* no diagnostic yet

\* BTreeMap keys come in byte order.
Rank(w) == CHOOSE i \in DOMAIN Words : Words[i] = w
Keys(S) == SetToSortSeq(S, LAMBDA a, b : Rank(a) < Rank(b))

Minus(f, k) == [x \in DOMAIN f \ {k} |-> f[x]]

Inner(v) == IF v[1] \in {"list", "rec", "coll"} THEN v[2] ELSE <<>>

RECURSIVE Depth(_), Size(_), Narrow(_)
\* validate_value_at: the depth of a value, the number of values in it, and
\* whether each list, record and collection in it has few enough items.
Depth(v) == 1 + Max({0} \cup {Depth(Inner(v)[k]) : k \in DOMAIN Inner(v)})
Size(v) == 1 + MapThenSumSet(LAMBDA k : Size(Inner(v)[k]), DOMAIN Inner(v))
Narrow(v) == /\ Cardinality(DOMAIN Inner(v)) <= MaxItems
             /\ \A k \in DOMAIN Inner(v) : Narrow(Inner(v)[k])

ValidValue(v) == Depth(v) <= MaxValueDepth /\ Size(v) <= MaxValues /\ Narrow(v)

RECURSIVE Typed(_, _, _)
\* resolve_typed_value: the value with its defaults filled in, or None.
Typed(t, v, optional) ==
  LET All(f) == \A x \in DOMAIN f : f[x] # None
      Each(ty, f) == [x \in DOMAIN f |-> Typed(ty, f[x], FALSE)]
      Field(n) == IF n \in DOMAIN v[2] THEN Typed(t[2][n].ty, v[2][n], t[2][n].optional)
                  ELSE IF t[2][n].default # None THEN t[2][n].default
                  ELSE IF t[2][n].optional THEN Null ELSE None
      Whole(f) == IF All(f) THEN <<v[1], f>> ELSE None
  IN IF v = Null THEN IF optional THEN Null ELSE None
     ELSE IF t[1] # v[1] THEN None
     ELSE CASE t[1] \in {"list", "coll"} -> Whole(Each(t[2], v[2]))
            [] t[1] = "rec" -> IF DOMAIN v[2] \subseteq DOMAIN t[2]
                               THEN Whole([n \in DOMAIN t[2] |-> Field(n)]) ELSE None
            [] OTHER -> v

(***************************************************************************)
(* Paths.                                                                  *)
(***************************************************************************)
RECURSIVE At(_, _)
\* get_path_mut.
At(v, path) ==
  IF path = <<>> THEN v
  ELSE IF v[1] \notin {"rec", "coll"} THEN None
  ELSE IF Head(path) \notin DOMAIN v[2] THEN None
  ELSE At(v[2][Head(path)], Tail(path))

RECURSIVE PutAt(_, _, _)
\* The place of path, below places that exist, gets the value x.
PutAt(v, path, x) ==
  IF path = <<>> THEN x
  ELSE LET below == IF Len(path) = 1 THEN x ELSE PutAt(v[2][Head(path)], Tail(path), x)
       IN <<v[1], (Head(path) :> below) @@ v[2]>>

\* The value at path loses the key k.
DropAt(v, path, k) == LET w == At(v, path) IN PutAt(v, path, <<w[1], Minus(w[2], k)>>)

RECURSIVE Leaves(_)
\* The paths of the values that are not records or collections.
Leaves(v) ==
  IF v[1] \notin {"rec", "coll"} THEN {<<>>}
  ELSE UNION {{<<k>> \o p : p \in Leaves(v[2][k])} : k \in DOMAIN v[2]}

(***************************************************************************)
(* Evaluation.                                                             *)
(***************************************************************************)
Fails(env, code) == [v |-> Null, env |-> [env EXCEPT !.code = code]]
Gives(v, env) == [v |-> v, env |-> env]

\* Evaluator::charge.
Charge(env) ==
  [env EXCEPT !.steps = @ + 1,
              !.code = IF env.steps >= MaxSteps THEN "evaluation-step-limit" ELSE @]

RECURSIVE Eval(_, _, _, _), Holds(_, _, _, _), Resolve(_, _, _)

Extended(a, r) == Gives(Append(a.v, r.v), r.env)

\* The expressions of a list, in order, until one fails.
EvalSeq(vars, es, locals, env) ==
  FoldLeft(LAMBDA a, e : Extended(a, IF a.env.code # Fine THEN Gives(Null, a.env) ELSE Eval(vars, e, locals, a.env)),
           Gives(<<>>, env), es)

Keyed(ks, r) == Gives([k \in ToSet(ks) |-> r.v[CHOOSE i \in DOMAIN ks : ks[i] = k]], r.env)

\* eval_map.
EvalMap(vars, es, locals, env) ==
  LET ks == Keys(DOMAIN es)
  IN Keyed(ks, EvalSeq(vars, [i \in DOMAIN ks |-> es[ks[i]]], locals, env))

\* Construction of a list, record or collection validates it.
Built(kind, r) ==
  IF r.env.code # Fine THEN r
  ELSE IF ValidValue(<<kind, r.v>>) THEN Gives(<<kind, r.v>>, r.env)
  ELSE Fails(r.env, "invalid-evaluated-value")

Select(r, key) ==
  IF r.env.code # Fine THEN r
  ELSE IF r.v[1] \notin {"rec", "coll"} THEN Fails(r.env, "invalid-selection")
  ELSE IF key \notin DOMAIN r.v[2] THEN Fails(r.env, "missing-selected-key")
  ELSE Gives(r.v[2][key], r.env)

\* The branch that the condition selects is evaluated, the other is not.
Branch(vars, e, locals, h) ==
  IF h.env.code # Fine THEN Gives(Null, h.env)
  ELSE Eval(vars, IF h.v THEN e.then ELSE e.else, locals, h.env)

\* eval_expression.
Eval(vars, e, locals, env) ==
  LET c == Charge(env) IN
  IF c.code # Fine THEN Gives(Null, c)
  ELSE CASE e.x = "literal" -> Gives(e.value, c)
         [] e.x = "variable" -> IF e.name \in DOMAIN locals THEN Gives(locals[e.name], c)
                                ELSE Resolve(vars, e.name, c)
         [] e.x = "list" -> Built("list", EvalSeq(vars, e.items, locals, c))
         [] e.x \in {"rec", "coll"} -> Built(e.x, EvalMap(vars, e.fields, locals, c))
         [] e.x = "select" -> Select(Eval(vars, e.value, locals, c), e.key)
         [] e.x = "conditional" -> Branch(vars, e, locals, Holds(vars, e.condition, locals, c))

\* The terms of all and any, until one decides.
Terms(vars, cs, decides, locals, env) ==
  FoldLeft(LAMBDA a, c : IF a.env.code # Fine \/ a.v = decides THEN a ELSE Holds(vars, c, locals, a.env),
           Gives(~decides, env), cs)

Boolean(r) == IF r.env.code # Fine THEN Gives(FALSE, r.env)
              ELSE IF r.v[1] = "bool" THEN Gives(r.v[2], r.env)
              ELSE Gives(FALSE, [r.env EXCEPT !.code = "condition-type-mismatch"])
IsSet(r) == Gives(r.v # Null, r.env)
Equal(r, negated) == Gives((r.v[1] = r.v[2]) # negated, r.env)
Negated(r) == Gives(~r.v, r.env)

\* eval_condition.
Holds(vars, c, locals, env) ==
  LET d == Charge(env) IN
  IF d.code # Fine THEN Gives(FALSE, d)
  ELSE CASE c.c = "boolean" -> Boolean(Eval(vars, c.value, locals, d))
         [] c.c = "is-set" -> IsSet(Eval(vars, c.value, locals, d))
         [] c.c = "equal" -> Equal(EvalSeq(vars, <<c.left, c.right>>, locals, d), c.negated)
         [] c.c = "not" -> Negated(Holds(vars, c.inner, locals, d))
         [] c.c = "all" -> Terms(vars, c.terms, FALSE, locals, d)
         [] c.c = "any" -> Terms(vars, c.terms, TRUE, locals, d)

\* The value a declaration gives before its type is looked at.  Nothing is
\* supplied: the engine evaluates with no values.
Source(vars, d, env) ==
  IF d.expr.x # "none" THEN Eval(vars, d.expr, <<>>, env)
  ELSE IF d.optional THEN Gives(Null, env)
  ELSE Fails(env, "missing-required-variable")

\* Mutant: a variable is still being resolved when its value is known.
SettleStillActive(vars, name, r) ==
  LET v == Typed(vars[name].ty, r.v, vars[name].optional)
  IN IF r.env.code # Fine THEN r
     ELSE IF v = None THEN Fails(r.env, "variable-type-mismatch")
     ELSE Gives(v, [r.env EXCEPT !.at = @ + 1])

Settle(vars, name, r) ==
  LET v == Typed(vars[name].ty, r.v, vars[name].optional)
  IN IF r.env.code # Fine THEN r
     ELSE IF v = None THEN Fails(r.env, "variable-type-mismatch")
     ELSE Gives(v, [r.env EXCEPT !.at = @ + 1, !.active = @ \ {name},
                                 !.resolved = (name :> v) @@ @])

\* resolve_variable.
Resolve(vars, name, env) ==
  IF name \in DOMAIN env.resolved THEN Gives(env.resolved[name], env)
  ELSE IF name \in env.active THEN Fails(env, "variable-cycle")
  ELSE IF name \notin DOMAIN vars THEN Fails(env, "unknown-variable")
  ELSE Settle(vars, name, Source(vars, vars[name], [env EXCEPT !.active = @ \cup {name}]))
=============================================================================
