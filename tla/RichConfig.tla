----------------------------- MODULE RichConfig -----------------------------
(***************************************************************************)
(* Evaluation of a rich-config workspace: the capture of every document    *)
(* that can be reached from the entry, the depth-first walk that orders    *)
(* them, the selection of a profile with its layers and outputs, the       *)
(* resolution of variables, and the statements that build the document     *)
(* and its provenance.  One variable holds the evaluation; every action is *)
(* one step of evaluate_graph or of ParsedRichConfigSetV1::evaluate.       *)
(*                                                                         *)
(* A workspace is [packs, files, entry, profile]: packs[p] = [deps,        *)
(* modules, docs], files[<<p, path>>] a document [edges, vars, frags,      *)
(* stmts, default, slots, profiles].                                       *)
(***************************************************************************)
EXTENDS RichValues, Relation

CONSTANTS MaxIncludeDepth,    \* MAX_RICH_INCLUDE_DEPTH
          MaxProfileDepth,    \* MAX_RICH_PROFILE_DEPTH
          MaxLoop,            \* MAX_RICH_LOOP_ITERATIONS
          MaxTotalLoop,       \* MAX_RICH_TOTAL_LOOP_ITERATIONS
          MaxRecords          \* MAX_RICH_PROVENANCE_RECORDS

VARIABLE rich

Root == "root"
Entry(w) == <<Root, w.entry>>

\* An evaluation of workspace w that has not begun.
Fresh(w) ==
  [set |-> w, phase |-> "capture", code |-> Fine,
   pending |-> <<Entry(w)>>, queued |-> {Entry(w)}, docs |-> {},
   stack |-> <<<<Entry(w), 1>>>>, order |-> <<>>,
   selected |-> "none", layers |-> <<>>, outputs |-> <<>>, extra |-> <<>>,
   vars |-> <<>>, frags |-> <<>>,
   env |-> [code |-> Fine, resolved |-> <<>>, active |-> {}, at |-> 0, steps |-> 0],
   loops |-> 0, todo |-> <<>>, root |-> <<"rec", <<>>>>, prov |-> <<>>, written |-> <<>>]

File(id) == rich.set.files[id]
In(p) == rich.phase = p
Refuse(code) == rich' = [rich EXCEPT !.phase = "refused", !.code = code]

(***************************************************************************)
(* Capture: a queue of documents, each one resolved within its own pack or *)
(* a direct dependency of it.                                              *)
(***************************************************************************)
\* resolve_scope, resolve_include, resolve_module: the target, or None.
Target(id, e) ==
  LET packs == rich.set.packs
      pack == IF e.dep = "none" THEN id[1]
              ELSE IF e.dep \in DOMAIN packs[id[1]].deps THEN packs[id[1]].deps[e.dep] ELSE "none"
  IN IF pack = "none" THEN None
     ELSE IF e.k = "include" THEN IF e.path \in packs[pack].docs THEN <<pack, e.path>> ELSE None
     ELSE IF e.path \in DOMAIN packs[pack].modules THEN <<pack, packs[pack].modules[e.path]>> ELSE None

\* The edges of a document are its includes, then its modules.
Targets(id) == [i \in DOMAIN File(id).edges |-> Target(id, File(id).edges[i])]

Queue(q, t) == IF t \in ToSet(q) \cup rich.queued THEN q ELSE Append(q, t)

\* evaluate_graph, one document.
CaptureDocument ==
  /\ In("capture") /\ rich.pending # <<>>
  /\ LET id == Head(rich.pending) IN
     IF id \notin DOMAIN rich.set.files THEN Refuse("missing-document")
     ELSE LET ts == Targets(id)
          IN IF None \in ToSet(ts) THEN Refuse("unresolved-reference")
             ELSE rich' = [rich EXCEPT !.pending = FoldLeft(Queue, Tail(@), ts),
                                       !.queued = @ \cup ToSet(ts), !.docs = @ \cup {id}]

\* ParsedRichConfigSetV1::new: a document names each target once.
Assemble ==
  /\ In("capture") /\ rich.pending = <<>>
  /\ IF \E id \in rich.docs : ~IsInjective(Targets(id)) THEN Refuse("duplicate-target")
     ELSE rich' = [rich EXCEPT !.phase = "visit"]

(***************************************************************************)
(* The walk of the includes: a document in state 1 is on the stack, one in *)
(* state 2 is in the order.                                                *)
(***************************************************************************)
Top == Last(rich.stack)
Ordered == ToSet(rich.order)

VisitInclude ==
  /\ In("visit") /\ rich.stack # <<>> /\ Top[2] <= Len(File(Top[1]).edges)
  /\ LET t == Targets(Top[1])[Top[2]]
         here == [rich.stack EXCEPT ![Len(rich.stack)] = <<@[1], @[2] + 1>>]
     IN IF t \notin rich.docs THEN Refuse("missing-include")
        ELSE IF t \in Ordered THEN rich' = [rich EXCEPT !.stack = here]
        ELSE IF \E i \in DOMAIN rich.stack : rich.stack[i][1] = t THEN Refuse("include-cycle")
        ELSE IF Len(rich.stack) >= MaxIncludeDepth THEN Refuse("include-depth-limit")
        ELSE rich' = [rich EXCEPT !.stack = Append(here, <<t, 1>>)]

LeaveDocument ==
  /\ In("visit") /\ rich.stack # <<>> /\ Top[2] > Len(File(Top[1]).edges)
  /\ rich' = [rich EXCEPT !.stack = Front(@), !.order = Append(@, Top[1])]

FinishVisit ==
  /\ In("visit") /\ rich.stack = <<>>
  /\ IF Len(rich.order) # Cardinality(rich.docs) THEN Refuse("unreachable-captured-document")
     ELSE rich' = [rich EXCEPT !.phase = "select"]

(***************************************************************************)
(* Profiles.                                                               *)
(***************************************************************************)
\* The declarations of one kind in the ordered documents; a name twice is
\* refused.
Twice(kind) ==
  \E i, j \in DOMAIN rich.order : i < j
     /\ DOMAIN File(rich.order[i])[kind] \cap DOMAIN File(rich.order[j])[kind] # {}
Declared(kind) ==
  LET Holder(n) == CHOOSE id \in Ordered : n \in DOMAIN File(id)[kind]
  IN [n \in UNION {DOMAIN File(id)[kind] : id \in Ordered} |->
        [doc |-> Holder(n), d |-> File(Holder(n))[kind][n]]]

RECURSIVE VisitProfile(_, _, _, _)
\* visit_profile: [code, active, done] after the profile and its parents.
VisitProfile(ps, n, st, depth) ==
  IF st.code # Fine \/ (n \in st.done /\ depth <= MaxProfileDepth) THEN st
  ELSE IF depth > MaxProfileDepth THEN [st EXCEPT !.code = "profile-depth-limit"]
  ELSE IF n \in st.active THEN [st EXCEPT !.code = "profile-cycle"]
  ELSE LET up == FoldLeft(LAMBDA s, p : VisitProfile(ps, p, s, depth + 1),
                          [st EXCEPT !.active = @ \cup {n}], ps[n].d.extends)
       IN IF up.code # Fine THEN up
          ELSE [up EXCEPT !.active = @ \ {n}, !.done = @ \cup {n}]

\* validate_profile_graph.
GraphCode(ps) ==
  IF \E n \in DOMAIN ps : ~(ToSet(ps[n].d.extends) \subseteq DOMAIN ps) THEN "unknown-profile-parent"
  ELSE FoldLeft(LAMBDA s, n : VisitProfile(ps, n, s, 1),
                [code |-> Fine, active |-> {}, done |-> {}], Keys(DOMAIN ps)).code

RECURSIVE Layers(_, _, _)
\* effective_profiles: parents before children, each profile once.
Layers(ps, n, acc) ==
  IF n \in ToSet(acc) THEN acc
  ELSE Append(FoldLeft(LAMBDA a, p : Layers(ps, p, a), acc, ps[n].d.extends), n)

SelectProfile ==
  /\ In("select")
  /\ LET ps == Declared("profiles")
         n == IF rich.set.profile # "none" THEN rich.set.profile ELSE File(Entry(rich.set)).default
         graph == GraphCode(ps)
     IN IF n = "none" THEN Refuse("missing-default-profile")
        ELSE IF Twice("slots") \/ Twice("profiles") THEN Refuse("duplicate-declaration")
        ELSE IF graph # Fine THEN Refuse(graph)
        ELSE IF n \notin DOMAIN ps THEN Refuse("unknown-profile")
        ELSE IF ps[n].d.abstract THEN Refuse("abstract-profile")
        ELSE rich' = [rich EXCEPT !.phase = "outputs", !.selected = n, !.layers = Layers(ps, n, <<>>)]

\* The outputs of a layer, after those of the layers before it.
Providers(outs, s) == Cardinality({i \in DOMAIN outs : outs[i].slot = s})
OutputCode(outs) ==
  LET o == Last(outs)
      max == Declared("slots")
  IN IF \E i \in 1 .. (Len(outs) - 1) : outs[i].name = o.name THEN "duplicate-inherited-output"
     ELSE IF o.slot # "none" /\ o.slot \notin DOMAIN max THEN "unknown-output-slot"
     ELSE IF o.slot # "none" /\ Providers(outs, o.slot) > max[o.slot].d THEN "slot-provider-limit"
     ELSE IF o.dep \notin {"none"} \cup DOMAIN rich.set.packs[o.pack].deps THEN "invalid-pack-file-reference"
     ELSE Fine

TakeLayer ==
  /\ In("outputs") /\ rich.layers # <<>>
  /\ LET l == Declared("profiles")[Head(rich.layers)]
         outs == rich.outputs \o [i \in DOMAIN l.d.outputs |-> l.d.outputs[i] @@ [pack |-> l.doc[1]]]
         codes == SelectSeq([i \in DOMAIN l.d.outputs |-> OutputCode(SubSeq(outs, 1, Len(rich.outputs) + i))],
                            LAMBDA c : c # Fine)
     IN IF codes # <<>> THEN Refuse(Head(codes))
        ELSE rich' = [rich EXCEPT !.layers = Tail(@), !.outputs = outs,
                                  !.extra = @ \o [i \in DOMAIN l.d.stmts |-> <<l.doc, l.d.stmts[i]>>]]

\* validate_output_destinations, a destination being its segments.
FinishOutputs ==
  /\ In("outputs") /\ rich.layers = <<>>
  /\ IF \E i, j \in DOMAIN rich.outputs : i # j /\ IsPrefix(rich.outputs[i].dest, rich.outputs[j].dest)
     THEN Refuse("overlapping-output-destination")
     ELSE rich' = [rich EXCEPT !.phase = "collect"]
(***************************************************************************)
(* The program: declarations of all documents, their statements in order   *)
(* and then those of the selected layers.                                  *)
(***************************************************************************)
Task(doc, s, locals, frames) == [doc |-> doc, s |-> s, locals |-> locals, frames |-> frames]
Tasks(doc, body, locals, frames) == [i \in DOMAIN body |-> Task(doc, body[i], locals, frames)]

\* collect_program, and the evaluator over it.
CollectProgram ==
  /\ In("collect")
  /\ IF Twice("vars") THEN Refuse("duplicate-variable")
     ELSE IF Twice("frags") THEN Refuse("duplicate-fragment")
     ELSE LET vars == Declared("vars")
              own == FlattenSeq([i \in DOMAIN rich.order |->
                                   Tasks(rich.order[i], File(rich.order[i]).stmts, <<>>, <<>>)])
          IN rich' = [rich EXCEPT !.phase = "variables", !.frags = Declared("frags"),
                                  !.vars = [n \in DOMAIN vars |-> vars[n].d],
                                  !.todo = own \o [i \in DOMAIN rich.extra |->
                                                     Task(rich.extra[i][1], rich.extra[i][2], <<>>, <<>>)]]

Resolved(r) == IF r.env.code # Fine THEN Refuse(r.env.code) ELSE rich' = [rich EXCEPT !.env = r.env]

\* resolve_all_variables, one name of the loop.
ResolveNext ==
  /\ In("variables")
  /\ LET left == SelectSeq(Keys(DOMAIN rich.vars), LAMBDA n : n \notin DOMAIN rich.env.resolved)
     IN IF left = <<>> THEN rich' = [rich EXCEPT !.phase = "statements"]
        ELSE Resolved(Resolve(rich.vars, Head(left), rich.env))

(***************************************************************************)
(* Statements.  todo holds what is left of execute_statements, the body of *)
(* a block put in front of what follows it.                                *)
(***************************************************************************)
Now == Head(rich.todo)
AtStatement(kind) == In("statements") /\ rich.todo # <<>> /\ rich.env.steps < MaxSteps /\ Now.s.t = kind

\* Every statement and every operation of a patch is charged first.
OutOfSteps ==
  /\ In("statements") /\ rich.todo # <<>> /\ rich.env.steps >= MaxSteps
  /\ Refuse("evaluation-step-limit")

\* The statement is done; the tasks are what it puts in front of the rest.
Proceed(env, tasks) ==
  IF env.code # Fine THEN Refuse(env.code)
  ELSE rich' = [rich EXCEPT !.env = env, !.todo = tasks \o Tail(@)]

\* add_document_provenance: at is the path recorded, place what was written.
Record(env, root, at, place, prov) ==
  LET count == FoldFunctionOnSet(LAMBDA s, n : Len(s) + n, 0, prov, DOMAIN prov)
      entry == [at |-> env.at, doc |-> Now.doc, frames |-> Now.frames]
      old == IF at \in DOMAIN prov THEN prov[at] ELSE <<>>
  IN IF count >= MaxRecords THEN Refuse("provenance-limit")
     ELSE rich' = [rich EXCEPT !.env = [env EXCEPT !.at = @ + 1], !.root = root,
                               !.prov = (at :> Append(old, entry)) @@ prov,
                               !.written = (env.at :> [path |-> place, value |-> At(root, place)]) @@ @,
                               !.todo = Tail(@)]

\* The value e has where the statement stands.
Valued(e) == Eval(rich.vars, e, Now.locals, Charge(rich.env))

EmitValue(r, path) ==
  IF r.env.code # Fine THEN Refuse(r.env.code)
  ELSE Record(r.env, PutAt(rich.root, path, r.v), path, path, rich.prov)

Emit ==
  /\ AtStatement("emit")
  /\ IF Now.s.key \in DOMAIN rich.root[2] THEN Refuse("duplicate-document-key")
     ELSE EmitValue(Valued(Now.s.value), <<Now.s.key>>)

\* The operations of a patch are charged and applied one by one.
Patch ==
  /\ AtStatement("patch")
  /\ Proceed(Charge(rich.env), Tasks(Now.doc, Now.s.steps, Now.locals, Now.frames))

Compose ==
  /\ AtStatement("compose")
  /\ LET n == Now.s.fragment
         open == {Now.frames[i][2] : i \in {j \in DOMAIN Now.frames : Now.frames[j][1] = "fragment"}}
     IN IF n \in open THEN Refuse("fragment-cycle")
        ELSE IF Cardinality(open) >= MaxValueDepth THEN Refuse("fragment-depth-limit")
        ELSE IF n \notin DOMAIN rich.frags THEN Refuse("unknown-fragment")
        ELSE Proceed(Charge(rich.env), Tasks(rich.frags[n].doc, rich.frags[n].d, Now.locals,
                                             Append(Now.frames, <<"fragment", n>>)))

Branched(h) ==
  Proceed(h.env, Tasks(Now.doc, IF h.v THEN Now.s.then ELSE Now.s.else, Now.locals,
                       Append(Now.frames, <<"conditional", h.v>>)))

Conditional ==
  /\ AtStatement("conditional")
  /\ Branched(Holds(rich.vars, Now.s.condition, Now.locals, Charge(rich.env)))

\* loop_items, keys with their values.
Items(v) == IF v[1] = "list" THEN [i \in DOMAIN v[2] |-> <<<<"uint", i - 1>>, v[2][i]>>]
            ELSE LET ks == Keys(DOMAIN v[2]) IN [i \in DOMAIN ks |-> <<<<"str", ks[i]>>, v[2][ks[i]]>>]

\* charge_loop, and one copy of the body for each iteration.
Loop(env, binding, locals) ==
  LET n == Len(locals)
      Body(i) == Tasks(Now.doc, Now.s.body, locals[i], Append(Now.frames, <<"loop", binding, i - 1>>))
  IN IF n > MaxLoop THEN Refuse("loop-iteration-limit")
     ELSE IF rich.loops + n > MaxTotalLoop THEN Refuse("total-loop-iteration-limit")
     ELSE IF n > 0 /\ DOMAIN Now.locals \cap {Now.s.value, Now.s.key} # {} THEN Refuse("shadowed-loop-binding")
     ELSE rich' = [rich EXCEPT !.env = env, !.loops = @ + n,
                               !.todo = FlattenSeq([i \in 1 .. n |-> Body(i)]) \o Tail(@)]

Bound(item) == (Now.s.value :> item[2])
               @@ (IF Now.s.key = "none" THEN <<>> ELSE Now.s.key :> item[1]) @@ Now.locals

Iterate(env, items) == Loop(env, Now.s.value, [i \in DOMAIN items |-> Bound(items[i])])

EachOf(r) ==
  IF r.env.code # Fine THEN Refuse(r.env.code)
  ELSE IF r.v[1] \notin {"list", "coll"} THEN Refuse("loop-type-mismatch")
  ELSE Iterate(r.env, Items(r.v))

ForEach ==
  /\ AtStatement("each")
  /\ IF Now.s.key = Now.s.value THEN Refuse("duplicate-loop-binding") ELSE EachOf(Valued(Now.s.iterable))

RangeLoop ==
  /\ AtStatement("range")
  /\ IF Now.s.through < Now.s.from THEN Refuse("invalid-range-loop")
     ELSE Loop(Charge(rich.env), Now.s.value, [i \in 1 .. (Now.s.through - Now.s.from + 1) |->
                                       (Now.s.value :> <<"int", Now.s.from + i - 1>>) @@ Now.locals])

(***************************************************************************)
(* Operations of a patch.                                                  *)
(***************************************************************************)
Parent == At(rich.root, Front(Now.s.path))
There == At(rich.root, Now.s.path)
AtPatch(ops) == AtStatement("step") /\ Now.s.op \in ops
BadPatch(env) == Refuse(IF env.code # Fine THEN env.code ELSE "invalid-patch")

SetTo(r) ==
  IF r.env.code # Fine \/ Parent[1] # "rec" THEN BadPatch(r.env)
  ELSE Record(r.env, PutAt(rich.root, Now.s.path, r.v), Now.s.path, Now.s.path, rich.prov)

PatchSet == AtPatch({"set"}) /\ SetTo(Valued(Now.s.value))

PatchUnset ==
  /\ AtPatch({"unset"})
  /\ IF Parent[1] # "rec" \/ (There = None /\ ~Now.s.optional) THEN Refuse("invalid-patch")
     ELSE Record(Charge(rich.env), DropAt(rich.root, Front(Now.s.path), Last(Now.s.path)),
                 Now.s.path, Now.s.path, rich.prov)

AppendTo(list, r) ==
  IF r.env.code # Fine \/ list[1] # "list" THEN BadPatch(r.env)
  ELSE IF Len(list[2]) >= MaxItems THEN Refuse("patch-collection-limit")
  ELSE Record(r.env, PutAt(rich.root, Now.s.path, <<"list", Append(list[2], r.v)>>), Now.s.path, Now.s.path, rich.prov)

PatchAppend == AtPatch({"append"}) /\ AppendTo(There, Valued(Now.s.value))

\* Mutant: an entry is put down to its collection.
RecordEntryAbove(env, root, key) == Record(env, root, Now.s.path, Append(Now.s.path, key), rich.prov)

RecordEntry(env, root, key) ==
  LET place == Append(Now.s.path, key) IN Record(env, root, place, place, rich.prov)

\* CollectionInsert, CollectionReplace: the key is evaluated, and refused
\* unless it is a string, before the value is.
EntryOf(coll, key, r) ==
  IF r.env.code # Fine \/ coll[1] # "coll" THEN BadPatch(r.env)
  ELSE IF (key \in DOMAIN coll[2]) # (Now.s.op = "replace") THEN BadPatch(r.env)
  ELSE IF Now.s.op = "insert" /\ Cardinality(DOMAIN coll[2]) >= MaxItems THEN Refuse("patch-collection-limit")
  ELSE RecordEntry(r.env, PutAt(rich.root, Append(Now.s.path, key), r.v), key)

EntryUnder(r) ==
  IF r.env.code # Fine \/ r.v[1] # "str" THEN BadPatch(r.env)
  ELSE EntryOf(There, r.v[2], Eval(rich.vars, Now.s.value, Now.locals, r.env))

PatchEntry ==
  /\ AtPatch({"insert", "replace"})
  /\ EntryUnder(Eval(rich.vars, Now.s.key, Now.locals, Charge(rich.env)))

RemoveFrom(coll, r) ==
  IF r.env.code # Fine \/ r.v[1] # "str" \/ coll[1] # "coll" THEN BadPatch(r.env)
  ELSE IF r.v[2] \notin DOMAIN coll[2] /\ ~Now.s.optional THEN BadPatch(r.env)
  ELSE RecordEntry(r.env, DropAt(rich.root, Now.s.path, r.v[2]), r.v[2])

PatchRemove == AtPatch({"remove"}) /\ RemoveFrom(There, Valued(Now.s.key))

\* CollectionReplaceAll forgets what was recorded below the collection.
ReplaceBy(r) ==
  LET kept == {q \in DOMAIN rich.prov : ~(q # Now.s.path /\ IsPrefix(Now.s.path, q))}
  IN IF r.env.code # Fine \/ There[1] # "coll" THEN BadPatch(r.env)
     ELSE Record(r.env, PutAt(rich.root, Now.s.path, <<"coll", r.v>>), Now.s.path, Now.s.path,
                 [q \in kept |-> rich.prov[q]])

PatchReplaceAll ==
  /\ AtPatch({"replace-all"})
  /\ ReplaceBy(EvalMap(rich.vars, Now.s.values, Now.locals, Charge(rich.env)))

(***************************************************************************)
(* The canonical document validates itself.                                *)
(***************************************************************************)
Records == UNION {ToSet(rich.prov[q]) : q \in DOMAIN rich.prov}
FinishEvaluation ==
  /\ In("statements") /\ rich.todo = <<>>
  /\ IF ~ValidValue(rich.root) \/ \E r \in Records : Len(r.frames) > MaxValueDepth THEN Refuse("invalid-result")
     ELSE IF \/ \E q \in DOMAIN rich.prov : \E i, j \in DOMAIN rich.prov[q] : i < j /\ rich.prov[q][i].at >= rich.prov[q][j].at
             \/ \E p, q \in DOMAIN rich.prov : p # q /\ {r.at : r \in ToSet(rich.prov[p])} \cap {r.at : r \in ToSet(rich.prov[q])} # {}
             \/ \E r \in Records : r.doc \notin Ordered
     THEN Refuse("invalid-provenance")
     ELSE rich' = [rich EXCEPT !.phase = "done"]

Next ==
  \/ CaptureDocument \/ Assemble \/ VisitInclude \/ LeaveDocument \/ FinishVisit
  \/ SelectProfile \/ TakeLayer \/ FinishOutputs \/ CollectProgram \/ ResolveNext
  \/ OutOfSteps \/ Emit \/ Patch \/ Compose \/ Conditional \/ ForEach \/ RangeLoop
  \/ PatchSet \/ PatchUnset \/ PatchAppend \/ PatchEntry \/ PatchRemove \/ PatchReplaceAll
  \/ FinishEvaluation

Done == rich.phase \in {"done", "refused"}

-----------------------------------------------------------------------------
(***************************************************************************)
(* Properties.                                                             *)
(***************************************************************************)
Cyclic(S, R(_, _)) ==
  LET T == TransitiveClosure([e \in S \X S |-> R(e[1], e[2])], S) IN \E x \in S : T[x, x]

\* The parts of an expression or of a condition.
Parts(e) ==
  CASE "items" \in DOMAIN e -> e.items [] "fields" \in DOMAIN e -> e.fields
    [] "terms" \in DOMAIN e -> e.terms [] "left" \in DOMAIN e -> <<e.left, e.right>>
    [] "inner" \in DOMAIN e -> <<e.inner>>
    [] "condition" \in DOMAIN e -> <<e.condition, e.then, e.else>>
    [] "value" \in DOMAIN e /\ DOMAIN e # {"x", "value"} -> <<e.value>>
    [] OTHER -> <<>>

RECURSIVE Mentions(_)
\* The variables an expression or a condition names.
Mentions(e) ==
  LET parts == Parts(e)
  IN (IF "name" \in DOMAIN e THEN {e.name} ELSE {}) \cup UNION {Mentions(parts[i]) : i \in DOMAIN parts}

RECURSIVE Composed(_)
Composed(body) ==
  UNION {LET s == body[i] IN
         CASE s.t = "compose" -> {s.fragment}
           [] s.t = "conditional" -> Composed(s.then) \cup Composed(s.else)
           [] s.t \in {"each", "range"} -> Composed(s.body)
           [] OTHER -> {} : i \in DOMAIN body}

IncludeCycle == Cyclic(rich.docs, LAMBDA a, b : b \in ToSet(Targets(a)))
ProfileCycle == LET ps == Declared("profiles")
                IN Cyclic(DOMAIN ps, LAMBDA a, b : b \in ToSet(ps[a].d.extends))
VariableCycle == Cyclic(DOMAIN rich.vars, LAMBDA a, b : b \in Mentions(rich.vars[a].expr))
FragmentCycle == Cyclic(DOMAIN rich.frags, LAMBDA a, b : b \in Composed(rich.frags[a].d))

\* Evaluation refuses a workspace as cyclic only when it has that cycle, it
\* never accepts one whose includes or profiles have a cycle, and the checks
\* of what evaluation itself put together never fail.
RejectedForCause ==
  /\ rich.code = "include-cycle" => IncludeCycle
  /\ rich.code = "profile-cycle" => ProfileCycle
  /\ rich.code = "variable-cycle" => VariableCycle
  /\ rich.code = "fragment-cycle" => FragmentCycle
  /\ rich.phase = "done" => ~IncludeCycle /\ ~ProfileCycle
  /\ rich.code \notin {"missing-include", "unreachable-captured-document", "invalid-provenance"}

\* The newest record at a path or above it.
Newest(p) ==
  LET above == UNION {ToSet(rich.prov[q]) : q \in {r \in DOMAIN rich.prov : IsPrefix(r, p)}}
  IN CHOOSE r \in above : \A o \in above : o.at <= r.at

\* Every value of the document is what the newest record at its path, or
\* above it, says was written there.
Explained ==
  \A p \in Leaves(rich.root) :
    LET w == rich.written[Newest(p).at]
    IN /\ IsPrefix(w.path, p)
       /\ At(w.value, SubSeq(p, Len(w.path) + 1, Len(p))) = At(rich.root, p)
=============================================================================
