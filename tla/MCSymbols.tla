------------------------------ MODULE MCSymbols ------------------------------
(* Symbols on small instances: all programs of a few lines.                  *)
EXTENDS Symbols, TLC

CONSTANT MaxLines   \* bound: lines of both files, the directives apart

SomeSignatures ==
  {[params |-> <<>>, rets |-> <<>>], [params |-> <<"u64">>, rets |-> <<>>],
   [params |-> <<"i32">>, rets |-> <<"i32">>]}
SomeArguments == {<<>>, <<Literal>>, <<"i32">>}
NameSymmetry == Permutations(Names)

\* `ret' ends the main part, functions follow it, and the program defines a
\* function once.
Shaped(f) ==
  \A r \in Kinds(f, "ret") : /\ \A d \in Kinds(f, "define") : r < d
                            /\ r < Len(f) => f[r + 1].kind = "define"
OnceDefined(m, l) ==
  \A f, g \in {m, l} : \A i \in Kinds(f, "define"), j \in Kinds(g, "define") :
    f[i].name = g[j].name => f = g /\ i = j
BodyLines == {l \in Lines : l.kind \in Signed \cup {"call"}}
SomeLines(most) == UNION {[1 .. k -> BodyLines] : k \in 0 .. most}
With(f, line) == {SubSeq(f, 1, i) \o <<line>> \o SubSeq(f, i + 1, Len(f)) : i \in 0 .. Len(f)}
\* The directives of the main file are in its main part.
WithDirective(files, d) ==
  files \cup {g \in UNION {With(f, Directive(d)) : f \in files} :
                \A i \in Kinds(g, d), r \in Kinds(g, "ret") : i < r}
MainFiles(f) ==
  WithDirective(WithDirective({g \in With(f, Ret) : Shaped(g)}, "compile_all"), "no_import_all_self")
LibFiles(f) == {g \in With(f, Ret) \cup {f} : Shaped(g)}
MCInit ==
  /\ \E m \in SomeLines(MaxLines) : \E l \in SomeLines(MaxLines - Len(m)) :
       /\ OnceDefined(m, l)
       /\ \E f \in MainFiles(m), g \in LibFiles(l) :
            /\ l # <<>> => Kinds(f, "compile_all") # {}
            /\ text = [main |-> f, lib |-> g]
  /\ Start
MCSpec == MCInit /\ [][Next]_vars
=============================================================================
