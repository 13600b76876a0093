---------------------------- MODULE MCAuthoring -----------------------------
(***************************************************************************)
(* The files and the data on which Authoring is model-checked.             *)
(***************************************************************************)
EXTENDS Authoring, TLC

Obj(f) == <<"object", f>>
NoFields == Obj(<<>>)
F(specs_, includes_) == [vars |-> {}, form |-> "workflows", specs |-> specs_, includes |-> includes_]
World(files, data) == [files |-> files, config |-> {"env"}, data |-> data]
Alone(spec, data) == World("m" :> F(<<spec>>, <<>>), data)

Sure(n) == Step(n, "shell", {"run", "sure"})
Unsure(n) == Step(n, "shell", {"run"})
Stopping(spec) == [spec EXCEPT !.error = <<"terminate">>]

\* every set of hooks on the first of three steps, and on the second
HookSets == SUBSET {"on_success", "on_failure", "ensure"}
Hooked(n, ks) == [Unsure(n) EXCEPT !.hooks = [k \in ks |-> Sure(<<n, k>>[2])]]
Never == <<"cmp", <<"inputs", "x">>, {<<"equals", <<"int", 9>>>>}>>
Hooking ==
  {Alone(Stopping(WorkflowSpec("w", <<[Hooked("a", ks) EXCEPT !.when = w], Sure("b"), Unsure("c")>>)),
         Obj("x" :> <<"int", 1>>)) : ks \in HookSets, w \in {<<>>, <<Never>>}}
    \cup {Alone(Stopping(WorkflowSpec("w", <<Unsure("a"), Hooked("b", ks)>>)), NoFields) : ks \in HookSets}

\* blocks, of two steps with hooks and nested
Blocking ==
  {Alone(Stopping(WorkflowSpec("w", <<Block("p", <<Unsure("a"), b>>), Unsure("c")>>)), NoFields) :
     b \in {Sure("b"), Hooked("b", {"on_failure"}), Block("q", <<Sure("b")>>)}}

HooksAndBlocks == Hooking \cup Blocking

\* one step of each type with more or less of its configuration, twice the
\* same name, an error behaviour that is none, a hook that is a block
Keys == {"run", "script", "image", "command", "dockerfile", "input", "push", "bad_pull", "workflow"}
Typed ==
  {Alone(WorkflowSpec("w", <<[Step("a", t, ks) EXCEPT !.child = IF t = "workflow" THEN <<"v">> ELSE <<>>]>>), NoFields) :
     t \in {"shell", "deno", "buildkit", "containerd", "kubernetes", "git-repo", "workflow", "cargo-build", "lisp"},
     ks \in {k \in SUBSET Keys : Cardinality(k) <= 3}}
    \cup {Alone(WorkflowSpec("w", <<Sure("a"), Sure("a")>>), NoFields),
          Alone(WorkflowSpec("w", <<[Sure("a") EXCEPT !.error = <<"explode">>]>>), NoFields),
          Alone(WorkflowSpec("w", <<[Unsure("a") EXCEPT !.error = <<"suspend">>]>>), NoFields),
          Alone(WorkflowSpec("w", <<[Sure("a") EXCEPT !.hooks = "ensure" :> Block("p", <<Sure("b")>>)]>>), NoFields),
          Alone([WorkflowSpec("w", <<Sure("a")>>) EXCEPT !.outputs = "y" :> <<"string">>], NoFields)}

\* conditions on a declared input, on a part of it, and on an output that is
\* there or not; data with an object of the prefix's name, and without
X == <<"inputs", "x">>
X0 == <<"inputs", "x", "0">>
Y == <<"outputs", "y">>
Cmps == {<<"cmp", X, {<<"gt", <<"int", 1>>>>}>>, <<"cmp", X, {<<"equals", <<"int", 1>>>>}>>,
         <<"cmp", X, {<<"contains", <<"string", "a">>>>}>>, <<"cmp", X, {<<"is_null", Null>>}>>,
         <<"cmp", X0, {<<"contains", <<"string", "a">>>>}>>,
         <<"cmp", Y, {<<"equals", <<"int", 1>>>>}>>, <<"cmp", Y, {<<"not_equals", <<"int", 1>>>>}>>}
Simple == {c \in Cmps : \A o \in c[3] : o[1] \in {"equals", "not_equals"}}
Comb(k, cs) == <<"comb", {<<k, cs>>}>>
Conds ==
  Cmps \cup {Comb("not", <<c>>) : c \in Cmps}
       \cup {Comb(k, <<c, d>>) : k \in {"all", "any", "none", "one_of"}, c \in Cmps, d \in Simple}
       \cup {Comb("any", <<Comb("not", <<c>>), d>>) : c \in Cmps, d \in Simple}
       \cup {<<"comb", {}>>, <<"cmp", X, {}>>}
Types == {<<"number">>, <<"integer">>, <<"string">>, <<"list", "string">>, <<"list", "number">>, <<"optional", "number">>}
Xs == {<<"int", 1>>, <<"float", 3>>, <<"string", "ab">>, <<"array", <<<<"string", "a">>>>>>, <<"array", <<<<"int", 1>>>>>>, Null}
Prefixes == {"inputs" :> Obj("x" :> <<"string", "ab">>), "outputs" :> Obj("y" :> <<"int", 2>>), "outputs" :> <<"int", 1>>}
MCAllData ==
  {NoFields} \cup {Obj("x" :> v) : v \in Xs} \cup {Obj("x" :> v @@ "y" :> <<"int", n>>) : v \in Xs, n \in 1 .. 2}
    \cup {Obj("x" :> <<"int", 1>> @@ "y" :> <<"int", 1>> @@ p) : p \in Prefixes}
MCPartOf == {<<"a", "ab">>}
Conditional ==
  {Alone([WorkflowSpec("w", <<[Sure("a") EXCEPT !.when = <<c>>, !.outs = {"y"}]>>) EXCEPT !.inputs = "x" :> t], d) :
     c \in Conds, t \in Types, d \in MCAllData}
    \cup {Alone(WorkflowSpec("w", <<[Sure("a") EXCEPT !.when = <<c>>]>>), d) :
            c \in {<<"cmp", <<"y">>, {<<"equals", <<"int", 1>>>>}>>, Comb("not", <<<<"cmp", <<"y">>, {<<"equals", <<"int", 2>>>>}>>>>)},
            d \in MCAllData}

\* three files that include and refer to one another
Refers(id, refs) ==
  WorkflowSpec(id, <<Sure("a")>> \o [i \in DOMAIN refs |-> [Step(refs[i], "workflow", {"workflow"}) EXCEPT !.child = <<refs[i]>>]])

Included ==
  {World("m" :> F(<<Refers("u", u)>>, i) @@ "n" :> F(<<Refers("u", <<>>), Refers("v", v)>>, j) @@ "o" :> F(<<Refers("w", w)>>, k), NoFields) :
     u \in {<<>>, <<"v">>, <<"u">>}, v \in {<<>>, <<"w">>, <<"u", "w">>}, w \in {<<>>, <<"u">>},
     i \in {<<"n">>, <<"n", "o">>, <<"o", "x">>}, j \in {<<>>, <<"o">>, <<"m">>}, k \in {<<>>, <<"n">>}}
    \cup {World("m" :> [F(<<WorkflowSpec("w", <<Sure("a")>>)>>, <<>>) EXCEPT !.form = "both"], NoFields),
          World("m" :> [F(<<WorkflowSpec("w", <<Sure("a")>>)>>, <<>>) EXCEPT !.vars = {"host"}], NoFields)}

\* two workflows of one file, each with a step of the same name
Sharing == {World("m" :> F(<<WorkflowSpec("u", <<Step("a", "shell", {"run"})>>), WorkflowSpec("w", <<Step("a", "shell", {"file"})>>)>>, <<>>), NoFields)}

Programs == {World(<<>>, NoFields)}
AllWorlds == Hooking \cup Blocking \cup Typed \cup Conditional \cup Included \cup Sharing \cup Programs
=============================================================================
