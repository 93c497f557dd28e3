-------------------------- MODULE AuthoringValues --------------------------
(***************************************************************************)
(* Types and values of the authoring language: what a declared type        *)
(* accepts, how an authored value is normalised to it, how a dotted        *)
(* reference reads a value, and how a scope resolves a name.  Names are    *)
(* sequences of path segments; types and values are tuples that start with *)
(* their kind, so that values of different kinds can be compared.          *)
(*                                                                         *)
(* The operators are recursive over types, so no theorem is stated here.   *)
(***************************************************************************)
EXTENDS Naturals, Sequences, FiniteSets, SequencesExt

CONSTANTS MaxCollection,         \* Limits::max_collection_size
          Words                  \* the strings of the instance, in byte order

ASSUME MaxCollectionAssumption == MaxCollection \in Nat \ {0}

Null == <<"null">>
Err  == <<"err">>               \* a diagnostic instead of a value or a type
None == <<"none">>              \* Rust's None

\* FoldLeft with the accumulator bound once per step.
Fold(Step(_, _), base, s) == FoldLeft(LAMBDA a, x : LET acc == a IN Step(acc, x), base, s)

ScalarKinds == {"bool", "int", "str", "path", "enum"}

(***************************************************************************)
(* Types: <<"bool">>, <<"enum", words>>, <<"doc">>, <<"opt", t>>,          *)
(* <<"list", t>>, <<"set", t>>, <<"tuple", ts>>, <<"coll", t>>,            *)
(* <<"map", t>>, <<"rec", fields>>, <<"variant", discriminator, cases>>,   *)
(* <<"refine", base, allowed values>>, <<"named", name>>.  A field is a    *)
(* record [ty, required, default].                                         *)
(***************************************************************************)
IsOptional(t) == t[1] = "opt"

UnwrapOptional(t) == IF IsOptional(t) THEN t[2] ELSE t

\* Mutant: an absent key, index or field is forgotten.
OptionalizeNot(t, yes) == t

Optionalize(t, yes) == IF yes /\ ~IsOptional(t) THEN <<"opt", t>> ELSE t

RECURSIVE OperationalType(_)
OperationalType(t) == IF t[1] = "refine" THEN OperationalType(t[2]) ELSE t

\* The shape a type is lowered to: sets are lists, maps are collections and
\* variants are records.
LoweredType(t) ==
    LET o == OperationalType(t)
    IN  CASE o[1] = "set"     -> <<"list", o[2]>>
          [] o[1] = "map"     -> <<"coll", o[2]>>
          [] o[1] = "variant" -> <<"rec", o[3]>>
          [] OTHER            -> o

IsScalarType(t) == LoweredType(t)[1] \in ScalarKinds

\* Value::semantic_eq after coercion.
SemanticEq(a, b) == a = b

\* The order of strings: their place in Words.
Place(w) == SelectInSeq(Words, LAMBDA x : x = w)

Before(a, b) == Place(a) < Place(b)

FieldMayBeNull(f) == IsOptional(f.ty) \/ (~f.required /\ f.default = None)

NoField == [ty |-> None, required |-> FALSE, default |-> None]

\* The field a reference sees in a record or a variant: the discriminator is
\* a required string, the fields of every case are optional.
VariantFieldOf(t, name) ==
    IF name = t[2] THEN [ty |-> <<"str">>, required |-> TRUE, default |-> None]
    ELSE LET cases == {c \in DOMAIN t[3] : name \in DOMAIN t[3][c]}
         IN  IF cases = {} THEN NoField
             ELSE LET f == t[3][CHOOSE c \in cases : TRUE][name]
                  IN  [f EXCEPT !.ty = Optionalize(f.ty, TRUE), !.required = FALSE]

SchemaField(t, name) ==
    LET o == OperationalType(t)
    IN  IF o[1] = "variant" THEN VariantFieldOf(o, name)
        ELSE IF name \in DOMAIN o[2] THEN o[2][name] ELSE NoField

\* FieldSchema::lookup_type: a field that is not required reads as optional.
FieldLookupType(f) == Optionalize(f.ty, FieldMayBeNull(f))

-----------------------------------------------------------------------------
(***************************************************************************)
(* Coercion of an authored value to a declared type.  Values: Null,        *)
(* <<kind, scalar>>, <<"list", seq>>, <<"coll", seq of <<key, value>> >>,  *)
(* <<"rec", fields>>, <<"doc", nodes>>, and the authored form of a variant *)
(* <<"invoke", case, fields>>.                                             *)
(***************************************************************************)
IsAggregate(v) == v[1] \in {"rec", "coll", "doc", "invoke"}

SortedByKey(items) == SortSeq(items, LAMBDA a, b : Before(a[1], b[1]))

NoErr(s) == \A i \in DOMAIN s : s[i] # Err

\* complete_record: unknown fields are refused, missing ones take their
\* default or null, a missing required field is refused.
RECURSIVE Coerce(_, _)
CompleteRecord(fields, given) ==
    LET Complete(n) ==
            IF n \in DOMAIN given
            THEN IF given[n] = Null /\ FieldMayBeNull(fields[n]) THEN Null
                 ELSE Coerce(given[n], fields[n].ty)
            ELSE IF fields[n].default # None THEN Coerce(fields[n].default, fields[n].ty)
            ELSE IF ~fields[n].required \/ IsOptional(fields[n].ty) THEN Null
            ELSE Err
        done == [n \in DOMAIN fields |-> Complete(n)]
    IN  IF ~(DOMAIN given \subseteq DOMAIN fields) \/ ~NoErr(done) THEN Err
        ELSE <<"rec", done>>

\* variant_from_document and revalidate_variant_record: the active case's
\* fields are completed and the discriminator names the case.
CompleteVariant(t, case, given) ==
    IF case \notin DOMAIN t[3] THEN Err
    ELSE LET r == CompleteRecord(t[3][case], given)
         IN  IF r = Err THEN Err
             ELSE <<"rec", r[2] @@ (t[2] :> <<"str", case>>)>>

CoerceItems(items, t) == [i \in DOMAIN items |-> Coerce(items[i], t)]

CoerceKeyed(items, t) ==
    LET vs == [i \in DOMAIN items |-> Coerce(items[i][2], t)]
    IN  IF Len(items) > MaxCollection \/ ~NoErr(vs) THEN Err
        ELSE <<"coll", [i \in DOMAIN items |-> <<items[i][1], vs[i]>>]>>

\* A scalar authored for a list is a list of one: KDL cannot tell them apart.
CoerceList(v, t) ==
    LET items == IF v[1] = "list" THEN v[2] ELSE <<v>>
        vs    == CoerceItems(items, t)
    IN  IF IsAggregate(v) \/ Len(items) > MaxCollection \/ ~NoErr(vs) THEN Err
        ELSE <<"list", vs>>

\* dedup_and_sort_values: a set keeps one of each value, in value order.
DedupAndSort(vs) == SortSeq(SetToSeq(Range(vs)), LAMBDA a, b : Before(a[2], b[2]))

CoerceVariant(v, u) ==
    IF v[1] = "invoke" THEN CompleteVariant(u, v[2], v[3])
    ELSE IF v[1] = "rec" /\ u[2] \in DOMAIN v[2]
    THEN CompleteVariant(u, v[2][u[2]][2],
                         [n \in DOMAIN v[2] \ {u[2]} |-> v[2][n]])
    ELSE Err

Coerce(v, t) ==
    LET u == UnwrapOptional(t)
    IN  IF v = Null THEN IF IsOptional(t) THEN Null ELSE Err
        ELSE CASE u[1] \in {"bool", "int", "str"} -> IF v[1] = u[1] THEN v ELSE Err
               [] u[1] = "path" -> IF v[1] \in {"str", "path"} THEN <<"path", v[2]>> ELSE Err
               [] u[1] = "enum" -> IF v[1] = "str" /\ v[2] \in u[2] THEN v ELSE Err
               [] u[1] = "doc"  -> IF v[1] = "doc" /\ v[2] # <<>> THEN v ELSE Err
               [] u[1] = "list" -> CoerceList(v, u[2])
               [] u[1] = "set"  -> LET l == CoerceList(v, u[2])
                                   IN  IF l = Err THEN Err ELSE <<"list", DedupAndSort(l[2])>>
               [] u[1] = "tuple" ->
                     IF v[1] # "list" \/ Len(v[2]) # Len(u[2]) THEN Err
                     ELSE LET vs == [i \in DOMAIN v[2] |-> Coerce(v[2][i], u[2][i])]
                          IN  IF NoErr(vs) THEN <<"list", vs>> ELSE Err
               [] u[1] = "coll" -> IF v[1] = "coll" THEN CoerceKeyed(v[2], u[2]) ELSE Err
               [] u[1] = "map"  -> LET c == IF v[1] = "coll" THEN CoerceKeyed(v[2], u[2]) ELSE Err
                                   IN  IF c = Err THEN Err ELSE <<"coll", SortedByKey(c[2])>>
               [] u[1] = "rec"  -> IF v[1] = "rec" THEN CompleteRecord(u[2], v[2]) ELSE Err
               [] u[1] = "variant" -> CoerceVariant(v, u)
               [] u[1] = "refine"  -> LET c == Coerce(v, u[2])
                                      IN  IF c # Err /\ c \in u[3] THEN c ELSE Err
               [] OTHER -> Err

RECURSIVE CollectionsFit(_)
\* validate_value_collection_sizes: every nested list and collection.
CollectionsFit(v) ==
    CASE v[1] = "list" -> Len(v[2]) <= MaxCollection /\ \A i \in DOMAIN v[2] : CollectionsFit(v[2][i])
      [] v[1] = "coll" -> Len(v[2]) <= MaxCollection /\ \A i \in DOMAIN v[2] : CollectionsFit(v[2][i][2])
      [] v[1] = "rec"  -> \A n \in DOMAIN v[2] : CollectionsFit(v[2][n])
      [] OTHER         -> TRUE

-----------------------------------------------------------------------------
(***************************************************************************)
(* Reading a value along a dotted path, and the lexical scope.             *)
(***************************************************************************)
KeyIndex(items, key) == SelectInSeq(items, LAMBDA e : e[1] = key)

Indices == [i \in {"0", "1", "2"} |-> CASE i = "0" -> 1 [] i = "1" -> 2 [] OTHER -> 3]

RECURSIVE GetPath(_, _)
\* Absent keys and indices of a collection or a list read as null; an absent
\* record field, or a path into a scalar, is not a value at all.
GetPath(v, path) ==
    IF path = <<>> THEN v
    ELSE CASE v[1] = "rec"  -> IF Head(path) \in DOMAIN v[2]
                               THEN GetPath(v[2][Head(path)], Tail(path)) ELSE None
           [] v[1] = "coll" -> LET i == KeyIndex(v[2], Head(path))
                                   r == IF i = 0 THEN Null ELSE GetPath(v[2][i][2], Tail(path))
                               IN  IF r = None THEN Null ELSE r
           [] v[1] = "list" -> IF Head(path) \notin DOMAIN Indices THEN None
                               ELSE LET i == Indices[Head(path)]
                                        r == IF i > Len(v[2]) THEN Null
                                             ELSE GetPath(v[2][i], Tail(path))
                                    IN  IF r = None THEN Null ELSE r
           [] v = Null -> Null
           [] OTHER    -> None

\* Among <<name, x>> pairs: the innermost (last) one of exactly this name,
\* and the one whose name is the longest proper prefix of it; 0 for none.
ExactIndex(pairs, name) ==
    LET P == {i \in DOMAIN pairs : pairs[i][1] = name}
    IN  IF P = {} THEN 0 ELSE CHOOSE i \in P : \A j \in P : j <= i

LongestPrefix(pairs, name) ==
    LET P == {i \in DOMAIN pairs : IsStrictPrefix(pairs[i][1], name)}
    IN  IF P = {} THEN 0
        ELSE CHOOSE i \in P : \A j \in P : \/ Len(pairs[j][1]) < Len(pairs[i][1])
                                           \/ Len(pairs[j][1]) = Len(pairs[i][1]) /\ j <= i

Suffix(name, prefix) == SubSeq(name, Len(prefix) + 1, Len(name))

HasBinding(pairs, name) ==
    \E i \in DOMAIN pairs : pairs[i][1] = name \/ IsStrictPrefix(pairs[i][1], name)

\* Scope::lookup.  A scope is [bindings, globals, inputs]: bindings and
\* inputs are sequences of <<name, value>>, innermost binding last, and the
\* built-ins are among the globals.
ValueIn(pairs, name, exact, best) ==
    IF exact # 0 THEN pairs[exact][2]
    ELSE IF best # 0 THEN GetPath(pairs[best][2], Suffix(name, pairs[best][1]))
    ELSE None

ScopeLookup(scope, name) ==
    IF HasBinding(scope.bindings, name)
    THEN ValueIn(scope.bindings, name, ExactIndex(scope.bindings, name), LongestPrefix(scope.bindings, name))
    ELSE IF name \in DOMAIN scope.globals THEN scope.globals[name]
    ELSE ValueIn(scope.inputs, name, ExactIndex(scope.inputs, name), LongestPrefix(scope.inputs, name))

PushValue(scope, name, v) == [scope EXCEPT !.bindings = Append(@, <<name, v>>)]

-----------------------------------------------------------------------------
(***************************************************************************)
(* Predicates: [kind, ref, expected, negated] with kind "test", "set",     *)
(* "nonempty" or "eq".  EvalPredicate gives TRUE, FALSE or "stuck" when    *)
(* the value has a shape the predicate cannot test.                        *)
(***************************************************************************)
EvalPredicate(p, v) ==
    CASE p.kind = "set" -> IF v \notin {None, Null} THEN "true" ELSE "false"
      [] p.kind = "eq"  -> IF (v # None /\ SemanticEq(v, p.expected)) # p.negated
                           THEN "true" ELSE "false"
      [] p.kind = "test" /\ v[1] = "bool" -> v[2]
      [] p.kind = "nonempty" /\ v[1] \in {"list", "coll"} -> IF v[2] # <<>> THEN "true" ELSE "false"
      [] OTHER -> "stuck"
=============================================================================
