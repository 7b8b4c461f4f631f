------------------------------- MODULE Symbols -------------------------------
(***************************************************************************)
(* The table of functions and labels, fn_ids, over the compilation of one  *)
(* program: import_all_from reads the main file once for its signatures    *)
(* and for the names it calls, then compile goes through it line by line,  *)
(* and at a `#compile_all' through another file, of which skip_function    *)
(* passes over the main part.  label_meta enters signatures, fn_call looks *)
(* them up.                                                                *)
(*                                                                         *)
(* A file is a sequence of the lines that concern the table: a definition, *)
(* a label, `#declare', a call, the directives, and the `ret' at the end   *)
(* of the file's main part.  A function returns what its own line says it  *)
(* returns.  The first diagnostic ends a behaviour.                        *)
(***************************************************************************)
EXTENDS Integers, Sequences

CONSTANTS Names,       \* functions and labels
          Signatures,  \* what a line may say a function takes and returns
          Arguments,   \* the lists of arguments a call may have
          Beyond       \* families of programs the code gets wrong

ASSUME SignaturesAssumption ==
  \A s \in Signatures : Len(s.params) \in Nat /\ Len(s.rets) \in Nat

VARIABLES
  text,        \* the two files: "main" and "lib"
  pass,        \* "import" or "compile"
  file,        \* the file that is read
  at,          \* the lines read of each file in this pass
  skipping,    \* skip_function is at work
  fn,          \* per file, the definition being compiled
  fn_ids,      \* the table
  signatures,  \* every signature that label_meta has accepted
  calls,       \* calls put out
  compiled,    \* functions put out
  state        \* "running", "done", or "error"

vars == <<text, pass, file, at, skipping, fn, fn_ids, signatures, calls, compiled, state>>
Known(family) == family \in Beyond
-----------------------------------------------------------------------------
(* Lines *)

Label == [params |-> <<>>, rets |-> <<>>]
Define(n, s) == [kind |-> "define", name |-> n, sig |-> s, is_fn |-> TRUE]
Declare(n, s) == [kind |-> "declare", name |-> n, sig |-> s, is_fn |-> TRUE]
SetLabel(n) == [kind |-> "label", name |-> n, sig |-> Label, is_fn |-> FALSE]
Call(n, a) == [kind |-> "call", name |-> n, args |-> a]
Directive(d) == [kind |-> d]
Ret == Directive("ret")

Files == {"main", "lib"}
Lines == {Define(n, s) : n \in Names, s \in Signatures} \cup {Declare(n, s) : n \in Names, s \in Signatures}
         \cup {SetLabel(n) : n \in Names} \cup {Call(n, a) : n \in Names, a \in Arguments}
         \cup {Directive(d) : d \in {"ret", "compile_all", "no_import_all_self"}}
Signed == {"define", "declare", "label"}

Kinds(f, kind) == {i \in DOMAIN f : f[i].kind = kind}
\* A file that skip_function stops in: its main part has a `ret', and a line
\* before that.
Headed(f) == \E r \in Kinds(f, "ret") : r > 1
-----------------------------------------------------------------------------
(* Signatures *)

None == [is_fn |-> FALSE, is_placeholder |-> FALSE, valid |-> FALSE, sig |-> Label]
Placeholder == [is_fn |-> FALSE, is_placeholder |-> TRUE, valid |-> TRUE, sig |-> Label]
\* mutant: what is defined stays a placeholder
SymbolStillCalled(line) == [is_fn |-> line.is_fn, is_placeholder |-> TRUE, valid |-> TRUE, sig |-> line.sig]
Symbol(line) == [is_fn |-> line.is_fn, is_placeholder |-> FALSE, valid |-> TRUE, sig |-> line.sig]

Bound(n) == fn_ids[n].valid /\ ~fn_ids[n].is_placeholder
\* An argument that takes the type asked for
Literal == "literal"

airity(sig) == Len(sig.params)
\* mutant: whatever is defined again is taken for the same
RedefinesNever(line) == FALSE
\* mutant: a placeholder counts as a definition
RedefinesPlaceholder(line) ==
  /\ fn_ids[line.name].valid
  /\ airity(fn_ids[line.name].sig) # airity(line.sig) \/ fn_ids[line.name].is_fn # line.is_fn
\* label_meta compares the number of parameters, and whether it is a function.
Redefines(line) ==
  /\ Bound(line.name)
  /\ airity(fn_ids[line.name].sig) # airity(line.sig) \/ fn_ids[line.name].is_fn # line.is_fn
\* Other types of parameters pass unseen.
Retypes(line) ==
  /\ Bound(line.name) /\ airity(fn_ids[line.name].sig) = airity(line.sig)
  /\ fn_ids[line.name].sig.params # line.sig.params

Fail == state' = "error" /\ UNCHANGED <<fn_ids, signatures, calls, compiled>>
label_meta(line) ==
  /\ ~Redefines(line)
  /\ Retypes(line) => Known("retyped")
  /\ fn_ids' = IF Bound(line.name) THEN fn_ids ELSE [fn_ids EXCEPT ![line.name] = Symbol(line)]
  /\ signatures' = signatures \cup {[name |-> line.name, sig |-> line.sig, is_fn |-> line.is_fn]}

\* read_and_check_types
Takes(params, args) ==
  /\ Len(args) = Len(params)
  /\ \A i \in DOMAIN args : args[i] \in {Literal, params[i]}

-----------------------------------------------------------------------------
(* import_all_from *)

Running(p, f) == state = "running" /\ pass = p /\ file = f
HasLine(f) == at[f] < Len(text[f])
Line(f) == text[f][at[f] + 1]
Next1(f) == at' = [at EXCEPT ![f] = @ + 1]
Importing(kinds) == Running("import", "main") /\ HasLine("main") /\ Line("main").kind \in kinds

ImportSignature ==
  /\ Importing(Signed)
  /\ \/ label_meta(Line("main")) /\ UNCHANGED <<calls, compiled, state>>
     \/ Redefines(Line("main")) /\ Fail
  /\ Next1("main")
  /\ UNCHANGED <<text, pass, file, skipping, fn>>
ImportCall ==
  /\ Importing({"call"})
  /\ LET n == Line("main").name
     IN  fn_ids' = IF fn_ids[n].valid THEN fn_ids ELSE [fn_ids EXCEPT ![n] = Placeholder]
  /\ Next1("main")
  /\ UNCHANGED <<text, pass, file, skipping, fn, signatures, calls, compiled, state>>
ImportOther ==
  /\ Importing({"ret", "compile_all"})
  /\ Next1("main")
  /\ UNCHANGED <<text, pass, file, skipping, fn, fn_ids, signatures, calls, compiled, state>>
\* mutant: compile goes on where the import has ended
ImportEndKeepsPlace ==
  /\ Running("import", "main")
  /\ HasLine("main") => Line("main").kind = "no_import_all_self"
  /\ pass' = "compile"
  /\ UNCHANGED <<text, file, at, skipping, fn, fn_ids, signatures, calls, compiled, state>>
\* At the end of the file, or where it opts out; compile starts at its top.
ImportEnd ==
  /\ Running("import", "main")
  /\ HasLine("main") => Line("main").kind = "no_import_all_self"
  /\ pass' = "compile" /\ at' = [at EXCEPT !["main"] = 0]
  /\ UNCHANGED <<text, file, skipping, fn, fn_ids, signatures, calls, compiled, state>>
-----------------------------------------------------------------------------
(* compile, function *)

NoFn == [params |-> <<"none">>, rets |-> <<>>, name |-> "none"]
InFn == fn[file] # NoFn
Compiling(kinds) ==
  /\ Running("compile", file) /\ ~skipping
  /\ HasLine(file) /\ Line(file).kind \in kinds

\* stmt_label, of a definition: the function before it has ended.
CompileFunction ==
  /\ Compiling({"define"}) /\ ~InFn
  /\ LET line == Line(file)
     IN  \/ /\ label_meta(line)
            /\ compiled' = compiled \cup {line.name}
            /\ fn' = [fn EXCEPT ![file] = [params |-> line.sig.params, rets |-> line.sig.rets, name |-> line.name]]
            /\ UNCHANGED <<calls, state>>
         \/ Redefines(line) /\ Fail /\ UNCHANGED fn
  /\ Next1(file)
  /\ UNCHANGED <<text, pass, file, skipping>>
\* stmt_ret at the end of the function: the values, if there are any, are
\* checked against what the table says.
EndFunction ==
  /\ Running("compile", file) /\ InFn
  /\ HasLine(file) => Line(file).kind = "define"
  /\ IF fn[file].rets = <<>> \/ Takes(fn_ids[fn[file].name].sig.rets, fn[file].rets)
     THEN UNCHANGED <<fn_ids, signatures, calls, compiled, state>> ELSE Fail
  /\ fn' = [fn EXCEPT ![file] = NoFn]
  /\ UNCHANGED <<text, pass, file, at, skipping>>
\* stmt_label within a function, and `#declare'
CompileSignature ==
  /\ Compiling({"label", "declare"})
  /\ \/ label_meta(Line(file)) /\ UNCHANGED <<calls, compiled, state>>
     \/ Redefines(Line(file)) /\ Fail
  /\ Next1(file)
  /\ UNCHANGED <<text, pass, file, skipping, fn>>
\* fn_call
CallFunction ==
  /\ Compiling({"call"})
  /\ LET line == Line(file)   symbol == fn_ids[line.name]
     IN  \/ /\ symbol.valid /\ Takes(symbol.sig.params, line.args)
            /\ symbol.is_placeholder => Known("placeholder")
            /\ symbol.is_fn \/ symbol.is_placeholder \/ Known("label")
            /\ calls' = calls \cup {[name |-> line.name, args |-> line.args]}
            /\ UNCHANGED <<fn_ids, signatures, compiled, state>>
         \/ ~(symbol.valid /\ Takes(symbol.sig.params, line.args)) /\ Fail
  /\ Next1(file)
  /\ UNCHANGED <<text, pass, file, skipping, fn>>
\* The directive comes too late if a function has been put out.
CompileNoImport ==
  /\ Compiling({"no_import_all_self"})
  /\ IF compiled = {} THEN UNCHANGED <<fn_ids, signatures, calls, compiled, state>> ELSE Fail
  /\ Next1(file)
  /\ UNCHANGED <<text, pass, file, skipping, fn>>
\* The end of the main part
CompileRet ==
  /\ Compiling({"ret"})
  /\ Next1(file)
  /\ UNCHANGED <<text, pass, file, skipping, fn, fn_ids, signatures, calls, compiled, state>>

CompileAll ==
  /\ Compiling({"compile_all"})
  /\ Headed(text["lib"]) \/ Known("headless")
  /\ file' = "lib" /\ skipping' = TRUE
  /\ Next1(file)
  /\ UNCHANGED <<text, pass, fn, fn_ids, signatures, calls, compiled, state>>
\* skip_function follows directives and ends after a `ret' at the start of a
\* line, as the first of the file is not.
Skipping == Running("compile", "lib") /\ skipping /\ HasLine("lib")
SkipDeclare ==
  /\ Skipping /\ Line("lib").kind = "declare"
  /\ \/ label_meta(Line("lib")) /\ UNCHANGED <<calls, compiled, state>>
     \/ Redefines(Line("lib")) /\ Fail
  /\ Next1("lib")
  /\ UNCHANGED <<text, pass, file, skipping, fn>>
SkipLine ==
  /\ Skipping /\ Line("lib").kind # "declare"
  /\ skipping' = ~(Line("lib").kind = "ret" /\ at["lib"] > 0)
  /\ Next1("lib")
  /\ UNCHANGED <<text, pass, file, fn, fn_ids, signatures, calls, compiled, state>>

EndFile ==
  /\ Running("compile", file) /\ ~HasLine(file) /\ ~InFn
  /\ IF file = "lib" THEN file' = "main" /\ skipping' = FALSE /\ UNCHANGED state
                     ELSE state' = "done" /\ UNCHANGED <<file, skipping>>
  /\ UNCHANGED <<text, pass, at, fn, fn_ids, signatures, calls, compiled>>

\* Before the main file is imported, whatever the files are.
Start ==
  /\ pass = "import" /\ file = "main" /\ at = [main |-> 0, lib |-> 0]
  /\ skipping = FALSE /\ fn = [main |-> NoFn, lib |-> NoFn]
  /\ fn_ids = [n \in Names |-> None]
  /\ signatures = {} /\ calls = {} /\ compiled = {} /\ state = "running"
Init == text \in [Files -> Seq(Lines)] /\ Start

Next ==
  \/ ImportSignature \/ ImportCall \/ ImportOther \/ ImportEnd
  \/ CompileFunction \/ EndFunction \/ CompileSignature \/ CallFunction
  \/ CompileNoImport \/ CompileRet \/ CompileAll
  \/ SkipDeclare \/ SkipLine \/ EndFile
Spec == Init /\ [][Next]_vars

-----------------------------------------------------------------------------
(* Properties. *)

\* An entry is a function or a label with its signature, a placeholder for a
\* name that is only known to be called, or empty.
TypeOK ==
  /\ fn_ids \in [Names -> {None, Placeholder} \cup [is_fn : BOOLEAN, is_placeholder : {FALSE}, valid : {TRUE},
                                                  sig : Signatures \cup {Label}]]
  /\ pass \in {"import", "compile"} /\ file \in Files /\ state \in {"running", "done", "error"}
  /\ \A f \in Files : at[f] \in 0 .. Len(text[f])
  /\ skipping \in BOOLEAN /\ compiled \subseteq Names
  /\ signatures \subseteq [name : Names, sig : Signatures \cup {Label}, is_fn : BOOLEAN]
  /\ calls \subseteq [name : Names, args : Arguments]

\* A call that the compiler has put out is of something that is a function,
\* and its arguments are those that every definition and declaration of the
\* function asks for, the ones that come after the call included.
CallsAgree ==
  \A c \in calls :
    /\ \E s \in signatures : s.name = c.name /\ s.is_fn
    /\ \A s \in signatures : s.name = c.name => Takes(s.sig.params, c.args)

\* Lines whose signatures the program gives to the names, as specs/grammar.md
\* has it: all of the main file's, and of an included file's main part the
\* declarations.
Included == Kinds(text["main"], "compile_all") # {}
SignedLines(f) ==
  {i \in DOMAIN text[f] :
     /\ text[f][i].kind \in Signed
     /\ f = "lib" => Included /\ (text[f][i].kind = "declare" \/ \E r \in Kinds(text[f], "ret") : r < i)}
CompiledCalls(f) ==
  {i \in Kinds(text[f], "call") : f = "lib" => Included /\ \E r \in Kinds(text[f], "ret") : r < i}
Answers(line, call) == line.name = call.name /\ line.is_fn /\ Takes(line.sig.params, call.args)
SelfImport == Kinds(text["main"], "no_import_all_self") = {}
\* Line j of file g is known at line i of file f.
KnownAt(f, i, g, j) ==
  IF f = g THEN j < i \/ (f = "main" /\ SelfImport) \/ (f = "lib" /\ Known("forward"))
  ELSE \/ f = "lib" /\ SelfImport
       \/ \E k \in Kinds(text["main"], "compile_all") : IF f = "main" THEN k < i ELSE j < k
Legal ==
  /\ \A f, g \in Files : \A i \in SignedLines(f), j \in SignedLines(g) :
       text[f][i].name = text[g][j].name =>
         text[f][i].is_fn = text[g][j].is_fn /\ text[f][i].sig = text[g][j].sig
  /\ \A f \in Files : \A i \in CompiledCalls(f) :
       \E g \in Files : \E j \in SignedLines(g) :
         KnownAt(f, i, g, j) /\ Answers(text[g][j], text[f][i])
  /\ \A k \in Kinds(text["main"], "no_import_all_self"), j \in SignedLines("main") \cup Kinds(text["main"], "compile_all") :
       k < j

\* The compiler has nothing to say against a program that gives each name one
\* signature, calls functions as that asks where it is known, and opts out of
\* the import before anything else, however calls, definitions, declarations
\* and the directives follow each other.
AcceptsLegal == state = "error" => ~Legal

\* Every function of the main file and of the file it includes is put out.
EveryFunctionCompiled ==
  state = "done" =>
    \A f \in Files : \A i \in Kinds(text[f], "define") \cap SignedLines(f) : text[f][i].name \in compiled
=============================================================================
