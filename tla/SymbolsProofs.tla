---------------------------- MODULE SymbolsProofs ----------------------------
(* Theorems about Symbols: the entries of the table keep their form, and     *)
(* what the compiler puts out as a call agrees with every signature of the   *)
(* function, before and after the call, in programs of any length; a legal   *)
(* program is accepted, and all of its functions are compiled.               *)
EXTENDS Symbols, TLAPS

\* Where the compiler reads, and the table's entries.
Entries == {None, Placeholder} \cup [is_fn : BOOLEAN, is_placeholder : {FALSE}, valid : {TRUE},
                                    sig : Signatures \cup {Label}]
ReadInv ==
  /\ text \in [Files -> Seq(Lines)]
  /\ at \in [Files -> Nat]
  /\ TypeOK

\* A line of a file is one of the lines; what it names and says has its type.
LEMMA LineFact ==
  ASSUME ReadInv, NEW f \in Files, HasLine(f)
  PROVE  /\ Line(f) \in Lines
         /\ at[f] + 1 \in 0 .. Len(text[f])
         /\ Line(f).kind \in Signed => Line(f).name \in Names /\ Line(f).sig \in Signatures \cup {Label}
                                       /\ Line(f).is_fn \in BOOLEAN
         /\ Line(f).kind = "call" => Line(f).name \in Names /\ Line(f).args \in Arguments
<1>1. text[f] \in Seq(Lines) /\ at[f] \in Nat
  BY DEF ReadInv
<1>2. at[f] + 1 \in 1 .. Len(text[f])
  BY <1>1 DEF HasLine
<1>3. Line(f) \in Lines
  BY <1>1, <1>2 DEF Line
<1>4. ASSUME NEW l \in Lines
      PROVE  /\ l.kind \in Signed => l.name \in Names /\ l.sig \in Signatures \cup {Label} /\ l.is_fn \in BOOLEAN
             /\ l.kind = "call" => l.name \in Names /\ l.args \in Arguments
  <2>1. CASE \E n \in Names, s \in Signatures : l = Define(n, s) \/ l = Declare(n, s)
    <3>1. PICK n \in Names, s \in Signatures : l = Define(n, s) \/ l = Declare(n, s)
      BY <2>1
    <3>2. l.name = n /\ l.sig = s /\ l.is_fn = TRUE /\ l.kind \in {"define", "declare"}
      BY <3>1 DEF Define, Declare
    <3> QED BY <3>2
  <2>2. CASE \E n \in Names : l = SetLabel(n)
    BY <2>2 DEF SetLabel
  <2>3. CASE \E n \in Names, a \in Arguments : l = Call(n, a)
    BY <2>3 DEF Call, Signed
  <2>4. CASE \E d \in {"ret", "compile_all", "no_import_all_self"} : l = Directive(d)
    BY <2>4 DEF Directive, Signed
  <2> QED BY <1>4, <2>1, <2>2, <2>3, <2>4 DEF Lines
<1> QED BY <1>1, <1>2, <1>3, <1>4

\* Reading one more line of f keeps the places within the files.
LEMMA NextLine ==
  ASSUME ReadInv, NEW f \in Files, HasLine(f), Next1(f), UNCHANGED text
  PROVE  at' \in [Files -> Nat] /\ \A g \in Files : at'[g] \in 0 .. Len(text'[g])
<1>1. at \in [Files -> Nat] /\ \A g \in Files : at[g] \in 0 .. Len(text[g])
  BY DEF ReadInv, TypeOK
<1>2. at' = [at EXCEPT ![f] = at[f] + 1]
  BY DEF Next1
<1>3. at[f] + 1 \in 0 .. Len(text[f])
  BY LineFact
<1> QED BY <1>1, <1>2, <1>3

\* label_meta enters a signature of the line's types, or keeps the entry.
LEMMA MetaTyped ==
  ASSUME fn_ids \in [Names -> Entries],
         signatures \subseteq [name : Names, sig : Signatures \cup {Label}, is_fn : BOOLEAN],
         NEW line, line.name \in Names, line.sig \in Signatures \cup {Label}, line.is_fn \in BOOLEAN,
         label_meta(line)
  PROVE  /\ fn_ids' \in [Names -> Entries]
         /\ signatures' \subseteq [name : Names, sig : Signatures \cup {Label}, is_fn : BOOLEAN]
<1>1. Symbol(line) \in Entries
  BY DEF Symbol, Entries
<1> QED BY <1>1 DEF label_meta

\* label_meta on a signed line of f, or a diagnostic instead of it.
LEMMA SignedLineTyped ==
  ASSUME ReadInv, NEW f \in Files, HasLine(f), Line(f).kind \in Signed,
         \/ label_meta(Line(f)) /\ UNCHANGED <<calls, state>> /\ (compiled' = compiled \/ compiled' = compiled \cup {Line(f).name})
         \/ Fail
  PROVE  /\ fn_ids' \in [Names -> Entries]
         /\ signatures' \subseteq [name : Names, sig : Signatures \cup {Label}, is_fn : BOOLEAN]
         /\ state' \in {"running", "done", "error"} /\ compiled' \subseteq Names
         /\ calls' = calls
<1> DEFINE l == Line(f)
<1>1. l.name \in Names /\ l.sig \in Signatures \cup {Label} /\ l.is_fn \in BOOLEAN
  BY LineFact
<1>2. /\ fn_ids \in [Names -> Entries]
      /\ signatures \subseteq [name : Names, sig : Signatures \cup {Label}, is_fn : BOOLEAN]
      /\ state \in {"running", "done", "error"} /\ compiled \subseteq Names
  BY DEF ReadInv, TypeOK, Entries
<1>3. CASE label_meta(l) /\ UNCHANGED <<calls, state>> /\ (compiled' = compiled \/ compiled' = compiled \cup {l.name})
  <2>1. /\ fn_ids' \in [Names -> Entries]
        /\ signatures' \subseteq [name : Names, sig : Signatures \cup {Label}, is_fn : BOOLEAN]
    BY <1>1, <1>2, <1>3, MetaTyped
  <2> QED BY <1>1, <1>2, <1>3, <2>1
<1>4. CASE Fail
  BY <1>2, <1>4 DEF Fail
<1> QED BY <1>3, <1>4

\* Whatever is read, declared, called or put out, the table's entries keep
\* their form, and what is put out names what the program names.
LEMMA ReadStep ==
  ASSUME ReadInv, [Next]_vars
  PROVE  ReadInv'
<1> USE DEF Entries
<1>0. /\ text \in [Files -> Seq(Lines)] /\ at \in [Files -> Nat]
      /\ fn_ids \in [Names -> Entries]
      /\ pass \in {"import", "compile"} /\ file \in Files /\ state \in {"running", "done", "error"}
      /\ \A f \in Files : at[f] \in 0 .. Len(text[f])
      /\ skipping \in BOOLEAN /\ compiled \subseteq Names
      /\ signatures \subseteq [name : Names, sig : Signatures \cup {Label}, is_fn : BOOLEAN]
      /\ calls \subseteq [name : Names, args : Arguments]
  BY DEF ReadInv, TypeOK
<1>1. "main" \in Files /\ "lib" \in Files
  BY DEF Files
<1>2. ASSUME /\ text' = text /\ at' \in [Files -> Nat] /\ \A f \in Files : at'[f] \in 0 .. Len(text'[f])
             /\ fn_ids' \in [Names -> Entries]
             /\ pass' \in {"import", "compile"} /\ file' \in Files /\ state' \in {"running", "done", "error"}
             /\ skipping' \in BOOLEAN /\ compiled' \subseteq Names
             /\ signatures' \subseteq [name : Names, sig : Signatures \cup {Label}, is_fn : BOOLEAN]
             /\ calls' \subseteq [name : Names, args : Arguments]
      PROVE  ReadInv'
  BY <1>0, <1>2 DEF ReadInv, TypeOK
<1>3. CASE ImportSignature
  <2>1. HasLine("main") /\ Line("main").kind \in Signed /\ Next1("main") /\ UNCHANGED <<text, pass, file, skipping>>
    BY <1>3 DEF ImportSignature, Importing
  <2>2. \/ label_meta(Line("main")) /\ UNCHANGED <<calls, state>> /\ compiled' = compiled
        \/ Fail
    BY <1>3 DEF ImportSignature
  <2> QED BY <1>0, <1>1, <1>2, <2>1, <2>2, SignedLineTyped, NextLine
<1>4. CASE ImportCall
  <2>1. HasLine("main") /\ Line("main").kind = "call" /\ Next1("main")
        /\ UNCHANGED <<text, pass, file, skipping, signatures, calls, compiled, state>>
    BY <1>4 DEF ImportCall, Importing
  <2>2. fn_ids' = fn_ids \/ fn_ids' = [fn_ids EXCEPT ![Line("main").name] = Placeholder]
    BY <1>4 DEF ImportCall
  <2>3. fn_ids' \in [Names -> Entries]
    BY <1>0, <2>2
  <2>4. at' \in [Files -> Nat] /\ \A g \in Files : at'[g] \in 0 .. Len(text'[g])
    BY <1>1, <2>1, NextLine
  <2>5. /\ text' = text
        /\ signatures' \subseteq [name : Names, sig : Signatures \cup {Label}, is_fn : BOOLEAN]
        /\ calls' \subseteq [name : Names, args : Arguments]
        /\ pass' \in {"import", "compile"} /\ file' \in Files /\ state' \in {"running", "done", "error"}
        /\ skipping' \in BOOLEAN /\ compiled' \subseteq Names
    BY <1>0, <2>1
  <2> HIDE DEF Entries
  <2> QED BY <1>2, <2>3, <2>4, <2>5
<1>5. CASE ImportOther
  <2>1. HasLine("main") /\ Next1("main")
        /\ UNCHANGED <<text, pass, file, skipping, fn_ids, signatures, calls, compiled, state>>
    BY <1>5 DEF ImportOther, Importing
  <2> QED BY <1>0, <1>1, <1>2, <2>1, NextLine
<1>6. CASE ImportEnd
  <2>1. /\ text' = text /\ pass' = "compile" /\ at' = [at EXCEPT !["main"] = 0]
        /\ UNCHANGED <<file, skipping, fn_ids, signatures, calls, compiled, state>>
    BY <1>6 DEF ImportEnd
  <2>2. at' \in [Files -> Nat] /\ \A g \in Files : at'[g] \in 0 .. Len(text'[g])
    <3>1. \A g \in Files : text[g] \in Seq(Lines)
      BY <1>0
    <3>2. \A g \in Files : Len(text[g]) \in Nat
      BY <3>1
    <3>3. at' \in [Files -> Nat]
      BY <1>0, <2>1
    <3>4. ASSUME NEW g \in Files PROVE at'[g] \in 0 .. Len(text[g])
      <4>1. at[g] \in 0 .. Len(text[g]) /\ Len(text[g]) \in Nat
        BY <1>0, <3>2
      <4>2. at'[g] = 0 \/ at'[g] = at[g]
        BY <1>0, <2>1
      <4> QED BY <4>1, <4>2
    <3> QED BY <2>1, <3>3, <3>4
  <2> QED BY <1>0, <1>2, <2>1, <2>2
<1>7. CASE CompileFunction
  <2>1. HasLine(file) /\ Line(file).kind \in Signed /\ Next1(file) /\ UNCHANGED <<text, pass, file, skipping>>
    BY <1>7 DEF CompileFunction, Compiling, Signed
  <2>2. \/ label_meta(Line(file)) /\ UNCHANGED <<calls, state>> /\ compiled' = compiled \cup {Line(file).name}
        \/ Fail
    BY <1>7 DEF CompileFunction
  <2> QED BY <1>0, <1>2, <2>1, <2>2, SignedLineTyped, NextLine
<1>8. CASE EndFunction
  <2>1. UNCHANGED <<text, pass, file, at, skipping>>
    BY <1>8 DEF EndFunction
  <2>2. \/ UNCHANGED <<fn_ids, signatures, calls, compiled, state>>
        \/ Fail
    BY <1>8 DEF EndFunction
  <2> QED BY <1>0, <1>2, <2>1, <2>2 DEF Fail
<1>9. CASE CompileSignature
  <2>1. HasLine(file) /\ Line(file).kind \in Signed /\ Next1(file) /\ UNCHANGED <<text, pass, file, skipping>>
    BY <1>9 DEF CompileSignature, Compiling, Signed
  <2>2. \/ label_meta(Line(file)) /\ UNCHANGED <<calls, state>> /\ compiled' = compiled
        \/ Fail
    BY <1>9 DEF CompileSignature
  <2> QED BY <1>0, <1>2, <2>1, <2>2, SignedLineTyped, NextLine
<1>10. CASE CallFunction
  <2>1. HasLine(file) /\ Line(file).kind = "call" /\ Next1(file) /\ UNCHANGED <<text, pass, file, skipping>>
    BY <1>10 DEF CallFunction, Compiling
  <2>2. \/ calls' = calls \cup {[name |-> Line(file).name, args |-> Line(file).args]}
           /\ UNCHANGED <<fn_ids, signatures, compiled, state>>
        \/ Fail
    BY <1>10 DEF CallFunction
  <2>3. Line(file).name \in Names /\ Line(file).args \in Arguments
    BY <1>0, <2>1, LineFact
  <2>4. CASE Fail
    BY <1>0, <1>2, <2>1, <2>4, NextLine DEF Fail
  <2>5. CASE calls' = calls \cup {[name |-> Line(file).name, args |-> Line(file).args]}
             /\ UNCHANGED <<fn_ids, signatures, compiled, state>>
    <3>1. calls' \subseteq [name : Names, args : Arguments]
      BY <1>0, <2>3, <2>5
    <3>2. at' \in [Files -> Nat] /\ \A g \in Files : at'[g] \in 0 .. Len(text'[g])
      BY <1>0, <2>1, NextLine
    <3> QED BY <1>0, <1>2, <2>1, <2>5, <3>1, <3>2
  <2> QED BY <2>2, <2>4, <2>5
<1>11. CASE CompileNoImport
  <2>1. HasLine(file) /\ Next1(file) /\ UNCHANGED <<text, pass, file, skipping>>
    BY <1>11 DEF CompileNoImport, Compiling
  <2>2. UNCHANGED <<fn_ids, signatures, calls, compiled, state>> \/ Fail
    BY <1>11 DEF CompileNoImport
  <2> QED BY <1>0, <1>2, <2>1, <2>2, NextLine DEF Fail
<1>12. CASE CompileRet
  <2>1. HasLine(file) /\ Next1(file)
        /\ UNCHANGED <<text, pass, file, skipping, fn_ids, signatures, calls, compiled, state>>
    BY <1>12 DEF CompileRet, Compiling
  <2> QED BY <1>0, <1>2, <2>1, NextLine
<1>13. CASE CompileAll
  <2>1. HasLine(file) /\ Next1(file) /\ file' = "lib" /\ skipping' = TRUE
        /\ UNCHANGED <<text, pass, fn_ids, signatures, calls, compiled, state>>
    BY <1>13 DEF CompileAll, Compiling
  <2> QED BY <1>0, <1>1, <1>2, <2>1, NextLine
<1>14. CASE SkipDeclare
  <2>1. HasLine("lib") /\ Line("lib").kind \in Signed /\ Next1("lib") /\ UNCHANGED <<text, pass, file, skipping>>
    BY <1>14 DEF SkipDeclare, Skipping, Signed
  <2>2. \/ label_meta(Line("lib")) /\ UNCHANGED <<calls, state>> /\ compiled' = compiled
        \/ Fail
    BY <1>14 DEF SkipDeclare
  <2> QED BY <1>0, <1>1, <1>2, <2>1, <2>2, SignedLineTyped, NextLine
<1>15. CASE SkipLine
  <2>1. HasLine("lib") /\ Next1("lib") /\ skipping' \in BOOLEAN
        /\ UNCHANGED <<text, pass, file, fn_ids, signatures, calls, compiled, state>>
    BY <1>15 DEF SkipLine, Skipping
  <2> QED BY <1>0, <1>1, <1>2, <2>1, NextLine
<1>16. CASE EndFile
  BY <1>0, <1>1, <1>2, <1>16 DEF EndFile
<1>17. CASE UNCHANGED vars
  BY <1>0, <1>2, <1>17 DEF vars
<1> QED BY <1>3, <1>4, <1>5, <1>6, <1>7, <1>8, <1>9, <1>10, <1>11, <1>12, <1>13, <1>14, <1>15, <1>16, <1>17
        DEF Next

\* Nothing is read and nothing is known at the start.
LEMMA InitRead == Init => ReadInv
<1> SUFFICES ASSUME Init PROVE ReadInv
  OBVIOUS
<1>1. text \in [Files -> Seq(Lines)] /\ at = [f \in Files |-> 0]
  BY DEF Init, Start, Files
<1>2. \A f \in Files : Len(text[f]) \in Nat
  BY <1>1
<1>3. at \in [Files -> Nat] /\ \A f \in Files : at[f] \in 0 .. Len(text[f])
  BY <1>1, <1>2
<1> QED BY <1>1, <1>3 DEF Init, Start, ReadInv, TypeOK, Files

\* The table's entries keep their form.
THEOREM TypeSound == Spec => []TypeOK
<1>1. Init => ReadInv
  BY InitRead
<1>2. ReadInv /\ [Next]_vars => ReadInv'
  BY ReadStep
<1>3. ReadInv => TypeOK
  BY DEF ReadInv
<1> QED BY <1>1, <1>2, <1>3, PTL DEF Spec

-----------------------------------------------------------------------------
(* Calls *)

\* Every accepted signature of a name takes what the table says the name
\* takes, and a call that was put out is of a function of the table that
\* takes the call's arguments.
TableInv ==
  /\ \A s \in signatures : /\ Bound(s.name) /\ fn_ids[s.name].is_fn = s.is_fn
                           /\ fn_ids[s.name].sig.params = s.sig.params
  /\ \A n \in Names : Bound(n) => \E s \in signatures : s.name = n
  /\ \A c \in calls : /\ Bound(c.name) /\ fn_ids[c.name].is_fn
                      /\ Takes(fn_ids[c.name].sig.params, c.args)

\* label_meta does not change a function that the table has, and a new entry
\* is of a name that nothing was said about.
LEMMA MetaKeeps ==
  ASSUME ReadInv, TableInv, "retyped" \notin Beyond,
         NEW line, line.name \in Names, label_meta(line), UNCHANGED calls
  PROVE  TableInv'
<1>1. /\ ~Redefines(line) /\ ~Retypes(line)
      /\ fn_ids' = IF Bound(line.name) THEN fn_ids ELSE [fn_ids EXCEPT ![line.name] = Symbol(line)]
      /\ signatures' = signatures \cup {[name |-> line.name, sig |-> line.sig, is_fn |-> line.is_fn]}
  BY DEF label_meta, Known
<1>2. DOMAIN fn_ids = Names
  BY DEF ReadInv, TypeOK
<1>3. CASE Bound(line.name)
  <2>1. fn_ids' = fn_ids
    BY <1>1, <1>3
  <2>2. fn_ids[line.name].is_fn = line.is_fn /\ fn_ids[line.name].sig.params = line.sig.params
    BY <1>1, <1>3 DEF Redefines, Retypes
  <2>3. \A n : Bound(n)' <=> Bound(n)
    BY <2>1 DEF Bound
  <2> QED BY <1>1, <1>3, <2>1, <2>2, <2>3 DEF TableInv
<1>4. CASE ~Bound(line.name)
  <2>1. fn_ids' = [fn_ids EXCEPT ![line.name] = Symbol(line)]
    BY <1>1, <1>4
  <2>2. Bound(line.name)' /\ fn_ids'[line.name].is_fn = line.is_fn /\ fn_ids'[line.name].sig = line.sig
    BY <1>2, <2>1 DEF Bound, Symbol
  <2>3. \A n : n # line.name => fn_ids'[n] = fn_ids[n] /\ (Bound(n)' <=> Bound(n))
    BY <1>2, <2>1 DEF Bound
  <2>4. \A s \in signatures : s.name # line.name
    BY <1>4 DEF TableInv
  <2>5. \A c \in calls : c.name # line.name
    BY <1>4 DEF TableInv
  <2>6. ASSUME NEW s \in signatures'
        PROVE  /\ Bound(s.name)' /\ fn_ids'[s.name].is_fn = s.is_fn
               /\ fn_ids'[s.name].sig.params = s.sig.params
    <3>1. CASE s \in signatures
      BY <2>3, <2>4, <3>1 DEF TableInv
    <3>2. CASE s = [name |-> line.name, sig |-> line.sig, is_fn |-> line.is_fn]
      BY <2>2, <3>2
    <3> QED BY <1>1, <3>1, <3>2
  <2>7. ASSUME NEW n \in Names, Bound(n)'
        PROVE  \E s \in signatures' : s.name = n
    <3>1. CASE n = line.name
      <4>1. [name |-> line.name, sig |-> line.sig, is_fn |-> line.is_fn] \in signatures'
        BY <1>1
      <4> QED BY <3>1, <4>1
    <3>2. CASE n # line.name
      <4>1. Bound(n)
        BY <2>3, <2>7, <3>2
      <4>2. PICK s \in signatures : s.name = n
        BY <4>1 DEF TableInv
      <4> QED BY <1>1, <4>2
    <3> QED BY <3>1, <3>2
  <2>8. ASSUME NEW c \in calls'
        PROVE  /\ Bound(c.name)' /\ fn_ids'[c.name].is_fn
               /\ Takes(fn_ids'[c.name].sig.params, c.args)
    BY <2>3, <2>5 DEF TableInv
  <2> QED BY <2>6, <2>7, <2>8 DEF TableInv
<1> QED BY <1>3, <1>4

\* No step changes what the table says of a function, and a call is put out
\* only of what the table has.
LEMMA TableStep ==
  ASSUME ReadInv, TableInv, [Next]_vars,
         "placeholder" \notin Beyond, "label" \notin Beyond, "retyped" \notin Beyond
  PROVE  TableInv'
<1>1. file \in Files /\ "main" \in Files /\ "lib" \in Files /\ DOMAIN fn_ids = Names
  BY DEF ReadInv, TypeOK, Files
<1>2. ASSUME UNCHANGED <<fn_ids, signatures, calls>>
      PROVE  TableInv'
  BY <1>2 DEF TableInv, Bound
<1>3. ASSUME Fail PROVE TableInv'
  BY <1>2, <1>3 DEF Fail
<1>4. ASSUME NEW f \in Files, HasLine(f), Line(f).kind \in Signed, label_meta(Line(f)), UNCHANGED calls
      PROVE  TableInv'
  BY <1>4, LineFact, MetaKeeps
<1>5. CASE ImportSignature
  BY <1>1, <1>3, <1>4, <1>5 DEF ImportSignature, Importing
<1>6. CASE ImportCall
  <2>0. PICK n : n = Line("main").name
    OBVIOUS
  <2>1. /\ fn_ids' = IF fn_ids[n].valid THEN fn_ids ELSE [fn_ids EXCEPT ![n] = Placeholder]
        /\ UNCHANGED <<signatures, calls>>
    BY <1>6, <2>0 DEF ImportCall
  <2>2. CASE fn_ids[n].valid
    BY <1>2, <2>1, <2>2
  <2>3. CASE ~fn_ids[n].valid
    <3>1. \A m \in Names : m # n => fn_ids'[m] = fn_ids[m] /\ (Bound(m)' <=> Bound(m))
      BY <1>1, <2>1, <2>3 DEF Bound
    <3>2. ~Bound(n)
      BY <2>3 DEF Bound
    <3>3. \A s \in signatures : s.name \in Names /\ s.name # n
      BY <3>2 DEF TableInv, ReadInv, TypeOK
    <3>4. \A c \in calls : c.name \in Names /\ c.name # n
      BY <3>2 DEF TableInv, ReadInv, TypeOK
    <3>5. \A m \in Names : Bound(m)' => Bound(m)
      <4>1. n \in Names => fn_ids'[n] = Placeholder
        BY <1>1, <2>1, <2>3
      <4>2. n \in Names => ~Bound(n)'
        BY <4>1 DEF Bound, Placeholder
      <4> QED BY <3>1, <4>2
    <3> QED BY <2>1, <3>1, <3>3, <3>4, <3>5 DEF TableInv
  <2> QED BY <2>2, <2>3
<1>7. CASE ImportOther
  BY <1>2, <1>7 DEF ImportOther
<1>8. CASE ImportEnd
  BY <1>2, <1>8 DEF ImportEnd
<1>9. CASE CompileFunction
  BY <1>1, <1>3, <1>4, <1>9 DEF CompileFunction, Compiling, Signed
<1>10. CASE EndFunction
  BY <1>2, <1>3, <1>10 DEF EndFunction
<1>11. CASE CompileSignature
  BY <1>1, <1>3, <1>4, <1>11 DEF CompileSignature, Compiling, Signed
<1>12. CASE CallFunction
  <2> DEFINE line == Line(file)   symbol == fn_ids[line.name]
  <2>1. \/ /\ symbol.valid /\ Takes(symbol.sig.params, line.args)
           /\ ~symbol.is_placeholder /\ symbol.is_fn
           /\ calls' = calls \cup {[name |-> line.name, args |-> line.args]}
           /\ UNCHANGED <<fn_ids, signatures>>
        \/ Fail
    BY <1>12 DEF CallFunction, Known
  <2> HIDE DEF line, symbol
  <2>2. CASE Fail
    BY <1>3, <2>2
  <2>3. CASE /\ symbol.valid /\ Takes(symbol.sig.params, line.args)
             /\ ~symbol.is_placeholder /\ symbol.is_fn
             /\ calls' = calls \cup {[name |-> line.name, args |-> line.args]}
             /\ UNCHANGED <<fn_ids, signatures>>
    <3>1. \A c \in calls' : c \in calls \/ (c.name = line.name /\ c.args = line.args)
      BY <2>3
    <3>2. Bound(line.name)
      BY <2>3 DEF Bound, symbol
    <3>3. \A n : Bound(n)' <=> Bound(n)
      BY <2>3 DEF Bound
    <3>4. \A c \in calls' : Bound(c.name) /\ fn_ids[c.name].is_fn /\ Takes(fn_ids[c.name].sig.params, c.args)
      BY <2>3, <3>1, <3>2 DEF TableInv, symbol
    <3> QED BY <2>3, <3>3, <3>4 DEF TableInv
  <2> QED BY <2>1, <2>2, <2>3
<1>13. CASE CompileNoImport
  BY <1>2, <1>3, <1>13 DEF CompileNoImport
<1>14. CASE CompileRet
  BY <1>2, <1>14 DEF CompileRet
<1>15. CASE CompileAll
  BY <1>2, <1>15 DEF CompileAll
<1>16. CASE SkipDeclare
  BY <1>1, <1>3, <1>4, <1>16 DEF SkipDeclare, Skipping, Signed
<1>17. CASE SkipLine
  BY <1>2, <1>17 DEF SkipLine
<1>18. CASE EndFile
  BY <1>2, <1>18 DEF EndFile
<1>19. CASE UNCHANGED vars
  BY <1>2, <1>19 DEF vars
<1> QED BY <1>5, <1>6, <1>7, <1>8, <1>9, <1>10, <1>11, <1>12, <1>13, <1>14, <1>15, <1>16, <1>17, <1>18, <1>19
        DEF Next

\* Where no call names a label or a function that is only a placeholder, and
\* no signature is given again with other types, every call that is put out
\* agrees with every signature of its function.
THEOREM CallsSound ==
  ASSUME "placeholder" \notin Beyond, "label" \notin Beyond, "retyped" \notin Beyond
  PROVE  Spec => []CallsAgree
<1>1. Init => ReadInv /\ TableInv
  <2>1. Init => TableInv
    BY DEF Init, Start, TableInv, Bound, None
  <2> QED BY <2>1, InitRead
<1>2. ReadInv /\ TableInv /\ [Next]_vars => (ReadInv /\ TableInv)'
  BY ReadStep, TableStep
<1>3. ReadInv /\ TableInv => CallsAgree
  <2> SUFFICES ASSUME ReadInv, TableInv, NEW c \in calls
               PROVE  /\ \E s \in signatures : s.name = c.name /\ s.is_fn
                      /\ \A s \in signatures : s.name = c.name => Takes(s.sig.params, c.args)
    BY DEF CallsAgree
  <2>1. /\ c.name \in Names /\ Bound(c.name) /\ fn_ids[c.name].is_fn
        /\ Takes(fn_ids[c.name].sig.params, c.args)
    BY DEF ReadInv, TypeOK, TableInv
  <2> QED BY <2>1 DEF TableInv
<1> QED BY <1>1, <1>2, <1>3, PTL DEF Spec

-----------------------------------------------------------------------------
(* Legal programs *)

\* The directives of the two files stand where a program has them: the main file
\* has one `#compile_all' at most, and the other file's main part has one end
\* and no directives that read or leave out a file.
Regular ==
  /\ \A k, l \in Kinds(text["main"], "compile_all") : k = l
  /\ \A r, q \in Kinds(text["lib"], "ret") : r = q
  /\ Kinds(text["lib"], "compile_all") = {} /\ Kinds(text["lib"], "no_import_all_self") = {}

\* What has been met: the main file's directive, and the end of lib's main part.
Met == \E k \in Kinds(text["main"], "compile_all") : k <= at["main"]
Passed == \E r \in Kinds(text["lib"], "ret") : r <= at["lib"]

\* Where the compiler is.
PlaceInv ==
  /\ pass = "import" => /\ file = "main" /\ at["lib"] = 0 /\ compiled = {}
                        /\ fn["main"] = NoFn /\ state = "running"
  /\ pass = "compile" /\ ~Met => at["lib"] = 0 /\ file = "main"
  /\ pass = "compile" /\ Met /\ file = "main" => at["lib"] = Len(text["lib"])
  /\ file = "lib" => Headed(text["lib"]) /\ (skipping <=> ~Passed)
  /\ file = "main" => ~skipping
  /\ compiled # {} => Met \/ \E j \in SignedLines("main") : j <= at["main"]
  /\ state = "done" => pass = "compile" /\ file = "main" /\ at["main"] = Len(text["main"])

\* The table has the names of all lines read so far that give a signature, and
\* each entry is from such a line; what is defined by them is put out.
ReadTo(f, j) == j <= at[f] \/ (f = "main" /\ pass = "compile" /\ SelfImport)
From(n, f, j) ==
  text[f][j].name = n /\ fn_ids[n].sig = text[f][j].sig /\ fn_ids[n].is_fn = text[f][j].is_fn
SeenInv ==
  /\ \A f \in Files : \A j \in SignedLines(f) : ReadTo(f, j) => Bound(text[f][j].name)
  /\ \A n \in Names : Bound(n) => \E f \in Files : \E j \in SignedLines(f) : From(n, f, j)
  /\ pass = "compile" =>
       \A f \in Files : \A j \in SignedLines(f) :
         text[f][j].kind = "define" /\ j <= at[f] => text[f][j].name \in compiled
  /\ \A f \in Files : fn[f] # NoFn =>
       \E j \in SignedLines(f) :
         j <= at[f] /\ text[f][j].name = fn[f].name /\ text[f][j].sig.rets = fn[f].rets

\* Nothing writes the files.
LEMMA SameText ==
  ASSUME UNCHANGED text
  PROVE  /\ Legal' <=> Legal
         /\ Regular' <=> Regular
         /\ \A f : SignedLines(f)' = SignedLines(f)
         /\ SelfImport' <=> SelfImport
<1>1. \A f, k : Kinds(text'[f], k) = Kinds(text[f], k)
  OBVIOUS
<1>2. Included' <=> Included
  BY <1>1 DEF Included
<1>3. ASSUME NEW f PROVE SignedLines(f)' = SignedLines(f)
  BY <1>1, <1>2 DEF SignedLines
<1>4. ASSUME NEW f PROVE CompiledCalls(f)' = CompiledCalls(f)
  BY <1>1, <1>2 DEF CompiledCalls
<1>5. SelfImport' <=> SelfImport
  BY DEF SelfImport
<1>6. \A f, i, g, j : KnownAt(f, i, g, j)' <=> KnownAt(f, i, g, j)
  BY <1>1, <1>5 DEF KnownAt
<1>7. Regular' <=> Regular
  BY DEF Regular
<1>8. Legal' <=> Legal
  BY <1>3, <1>4, <1>6 DEF Legal
<1> QED BY <1>3, <1>5, <1>7, <1>8

\* The lines of a file are numbered.
LEMMA TextIndex ==
  ASSUME ReadInv, NEW f \in Files
  PROVE  /\ Len(text[f]) \in Nat /\ DOMAIN text[f] = 1 .. Len(text[f])
         /\ \A k : \A i \in Kinds(text[f], k) : i \in Nat
         /\ \A i \in SignedLines(f) : i \in Nat /\ i \in 1 .. Len(text[f])
<1>1. text[f] \in Seq(Lines)
  BY DEF ReadInv
<1>2. Len(text[f]) \in Nat /\ DOMAIN text[f] = 1 .. Len(text[f])
  BY <1>1
<1>3. \A i \in DOMAIN text[f] : i \in Nat
  BY <1>2
<1> QED BY <1>2, <1>3 DEF Kinds, SignedLines

\* The line that is read, as one of its file's.
LEMMA LineIndex ==
  ASSUME ReadInv, NEW f \in Files, HasLine(f)
  PROVE  /\ at[f] \in Nat /\ at[f] + 1 \in DOMAIN text[f] /\ Line(f) = text[f][at[f] + 1]
         /\ \A k : at[f] + 1 \in Kinds(text[f], k) <=> Line(f).kind = k
<1>1. at[f] \in Nat
  BY DEF ReadInv
<1>2. at[f] + 1 \in DOMAIN text[f]
  BY <1>1, TextIndex DEF HasLine
<1> QED BY <1>1, <1>2 DEF Line, Kinds

\* The signatures that the compiler reads are those that the program gives.
LEMMA SignedHere ==
  ASSUME ReadInv, PlaceInv, NEW f \in Files, HasLine(f), Line(f).kind \in Signed,
         f = "main" \/ (file = "lib" /\ f = "lib" /\ (skipping => Line(f).kind = "declare"))
  PROVE  at[f] + 1 \in SignedLines(f)
<1>1. at[f] \in Nat /\ at[f] + 1 \in DOMAIN text[f] /\ Line(f) = text[f][at[f] + 1]
  BY LineIndex
<1>2. CASE f = "main"
  BY <1>1, <1>2 DEF SignedLines
<1>3. CASE f = "lib"
  <2>1. Included /\ (~skipping => Passed)
    BY <1>3 DEF PlaceInv, Included, Met, ReadInv, TypeOK
  <2>2. Passed => \E r \in Kinds(text[f], "ret") : r < at[f] + 1
    <3>1. \A r \in Kinds(text[f], "ret") : r \in Nat
      BY TextIndex
    <3> QED BY <1>1, <1>3, <3>1 DEF Passed
  <2> QED BY <1>1, <1>3, <2>1, <2>2 DEF SignedLines
<1> QED BY <1>2, <1>3 DEF Files

\* A signature that the table contradicts, another line contradicts.
LEMMA RedefinesIllegal ==
  ASSUME ReadInv, SeenInv, NEW f \in Files, HasLine(f), at[f] + 1 \in SignedLines(f),
         Redefines(Line(f))
  PROVE  ~Legal
<1>1. Line(f) = text[f][at[f] + 1] /\ Line(f).name \in Names
  BY LineIndex, LineFact DEF SignedLines
<1>2. PICK g \in Files : \E j \in SignedLines(g) : From(Line(f).name, g, j)
  BY <1>1 DEF SeenInv, Redefines
<1>3. PICK j \in SignedLines(g) : From(Line(f).name, g, j)
  BY <1>2
<1> QED BY <1>1, <1>3 DEF Legal, Redefines, From

\* label_meta enters the name of its line, if the table has it not, and no other.
LEMMA MetaBinds ==
  ASSUME ReadInv, NEW line, line.name \in Names, label_meta(line)
  PROVE  /\ Bound(line.name)'
         /\ \A n \in Names : Bound(n) => Bound(n)' /\ fn_ids'[n] = fn_ids[n]
         /\ \A n \in Names : Bound(n)' /\ ~Bound(n) =>
              n = line.name /\ fn_ids'[n].sig = line.sig /\ fn_ids'[n].is_fn = line.is_fn
<1>1. fn_ids' = IF Bound(line.name) THEN fn_ids ELSE [fn_ids EXCEPT ![line.name] = Symbol(line)]
  BY DEF label_meta
<1>2. DOMAIN fn_ids = Names
  BY DEF ReadInv, TypeOK
<1>3. CASE Bound(line.name)
  BY <1>1, <1>3 DEF Bound
<1>4. CASE ~Bound(line.name)
  <2>1. fn_ids' = [fn_ids EXCEPT ![line.name] = Symbol(line)]
    BY <1>1, <1>4
  <2>2. fn_ids'[line.name] = Symbol(line) /\ \A n \in Names : n # line.name => fn_ids'[n] = fn_ids[n]
    BY <1>2, <2>1
  <2>3. Bound(line.name)' /\ fn_ids'[line.name].sig = line.sig /\ fn_ids'[line.name].is_fn = line.is_fn
    BY <2>2 DEF Bound, Symbol
  <2> QED BY <1>4, <2>2, <2>3 DEF Bound
<1> QED BY <1>3, <1>4

\* One more line of f is read.
LEMMA SeenOn ==
  ASSUME ReadInv, SeenInv, NEW f \in Files, HasLine(f), Next1(f), UNCHANGED <<text, pass>>,
         \A n \in Names : Bound(n) => Bound(n)' /\ fn_ids'[n] = fn_ids[n],
         \A n \in Names : Bound(n)' /\ ~Bound(n) =>
            /\ at[f] + 1 \in SignedLines(f) /\ n = Line(f).name
            /\ fn_ids'[n].sig = Line(f).sig /\ fn_ids'[n].is_fn = Line(f).is_fn,
         \A n \in Names : at[f] + 1 \in SignedLines(f) /\ n = Line(f).name => Bound(n)',
         at[f] + 1 \in SignedLines(f) /\ Line(f).kind = "define" /\ pass = "compile" =>
            Line(f).name \in compiled',
         compiled \subseteq compiled',
         \A g \in Files : \/ fn'[g] = fn[g] \/ fn'[g] = NoFn
                          \/ /\ g = f /\ at[f] + 1 \in SignedLines(f)
                             /\ Line(f).name = fn'[g].name /\ Line(f).sig.rets = fn'[g].rets
  PROVE  SeenInv'
<1>1. at \in [Files -> Nat] /\ Line(f) = text[f][at[f] + 1]
  BY LineIndex DEF ReadInv
<1>2. \A g \in Files : at'[g] = IF g = f THEN at[f] + 1 ELSE at[g]
  BY <1>1 DEF Next1
<1>3. \A g : SignedLines(g)' = SignedLines(g)
  BY SameText
<1>4. SelfImport' <=> SelfImport
  BY SameText
<1>5. \A g \in Files : \A j \in SignedLines(g) : j \in Nat
  BY TextIndex
<1>6. \A g \in Files : \A j \in SignedLines(g) :
        /\ j <= at[g] => j <= at'[g]
        /\ j <= at'[g] => j <= at[g] \/ (g = f /\ j = at[f] + 1)
  BY <1>1, <1>2, <1>5
<1>7. \A g \in Files : \A j \in SignedLines(g) :
        text[g][j].name \in Names
  <2> SUFFICES ASSUME NEW g \in Files, NEW j \in SignedLines(g)
               PROVE  text[g][j].name \in Names
    OBVIOUS
  <2>1. j \in DOMAIN text[g] /\ text[g][j].kind \in Signed
    BY DEF SignedLines
  <2>2. text[g][j] \in Lines
    BY <2>1 DEF ReadInv
  <2> QED BY <2>1, <2>2 DEF Lines, Signed, Define, Declare, SetLabel, Call, Directive
<1>8. ASSUME NEW g \in Files, NEW j \in SignedLines(g), ReadTo(g, j)'
      PROVE  Bound(text[g][j].name)'
  <2>1. ReadTo(g, j) \/ (g = f /\ j = at[f] + 1)
    BY <1>4, <1>6, <1>8 DEF ReadTo
  <2>2. PICK n \in Names : n = text[g][j].name
    BY <1>7
  <2>3. Bound(n)'
    <3>1. CASE ReadTo(g, j)
      BY <2>2, <3>1 DEF SeenInv
    <3>2. CASE g = f /\ j = at[f] + 1
      BY <1>1, <2>2, <3>2
    <3> QED BY <2>1, <3>1, <3>2
  <2> QED BY <2>2, <2>3
<1>9. ASSUME NEW n \in Names, Bound(n)'
      PROVE  \E g \in Files : \E j \in SignedLines(g) : From(n, g, j)'
  <2>1. CASE Bound(n)
    <3>1. PICK g \in Files : \E j \in SignedLines(g) : From(n, g, j)
      BY <2>1 DEF SeenInv
    <3>2. PICK j \in SignedLines(g) : From(n, g, j)
      BY <3>1
    <3>3. From(n, g, j)'
      BY <2>1, <3>2 DEF From
    <3> QED BY <3>3
  <2>2. CASE ~Bound(n)
    <3>1. PICK j : j = at[f] + 1
      OBVIOUS
    <3>2. j \in SignedLines(f) /\ From(n, f, j)'
      BY <1>1, <1>9, <2>2, <3>1 DEF From
    <3> QED BY <3>2
  <2> QED BY <2>1, <2>2
<1>10. ASSUME pass = "compile", NEW g \in Files, NEW j \in SignedLines(g),
              text[g][j].kind = "define", j <= at'[g]
       PROVE  text[g][j].name \in compiled'
  BY <1>1, <1>6, <1>10 DEF SeenInv
<1>11. ASSUME NEW g \in Files, fn'[g] # NoFn
       PROVE  \E j \in SignedLines(g) :
                j <= at'[g] /\ text[g][j].name = fn'[g].name /\ text[g][j].sig.rets = fn'[g].rets
  <2>1. CASE fn'[g] = fn[g]
    BY <1>6, <1>11, <2>1 DEF SeenInv
  <2>2. CASE fn'[g] # fn[g]
    <3>1. /\ g = f /\ at[f] + 1 \in SignedLines(f)
          /\ Line(f).name = fn'[g].name /\ Line(f).sig.rets = fn'[g].rets
      BY <1>11, <2>2
    <3>2. at[f] + 1 <= at'[f]
      BY <1>1, <1>2
    <3> QED BY <1>1, <3>1, <3>2
  <2> QED BY <2>1, <2>2
<1> QED BY <1>3, <1>8, <1>9, <1>10, <1>11 DEF SeenInv

\* Nothing is read.
LEMMA SeenIdle ==
  ASSUME SeenInv, UNCHANGED <<text, at, pass, fn_ids, compiled>>,
         \A g \in Files : fn'[g] = fn[g] \/ fn'[g] = NoFn
  PROVE  SeenInv'
<1>1. (\A g : SignedLines(g)' = SignedLines(g)) /\ (SelfImport' <=> SelfImport)
  BY SameText
<1>2. \A n : Bound(n)' <=> Bound(n)
  BY DEF Bound
<1>3. \A f, j : ReadTo(f, j)' <=> ReadTo(f, j)
  BY <1>1 DEF ReadTo
<1>4. \A n, f, j : From(n, f, j)' <=> From(n, f, j)
  BY DEF From
<1> QED BY <1>1, <1>2, <1>3, <1>4 DEF SeenInv

\* A line of the main file.
LEMMA PlaceMain ==
  ASSUME ReadInv, PlaceInv, HasLine("main"), Next1("main"), file = "main", state = "running",
         UNCHANGED <<text, pass, file, skipping, state>>,
         pass = "import" \/ Line("main").kind # "compile_all",
         compiled' = compiled \/ (pass = "compile" /\ at["main"] + 1 \in SignedLines("main")),
         pass = "import" => fn'["main"] = fn["main"]
  PROVE  PlaceInv'
<1>1. at \in [Files -> Nat] /\ "main" \in Files /\ "lib" \in Files
  BY DEF ReadInv, Files
<1>2. at'["main"] = at["main"] + 1 /\ at'["lib"] = at["lib"] /\ at["main"] \in Nat
  BY <1>1 DEF Next1
<1>3. \A k \in Kinds(text["main"], "compile_all") : k \in Nat
  BY <1>1, TextIndex
<1>4. pass = "compile" => (Met' <=> Met)
  <2> SUFFICES ASSUME pass = "compile" PROVE Met' <=> Met
    OBVIOUS
  <2>1. at["main"] + 1 \notin Kinds(text["main"], "compile_all")
    BY <1>1, LineIndex DEF PlaceInv
  <2>2. \A k \in Nat : k <= at["main"] + 1 <=> k <= at["main"] \/ k = at["main"] + 1
    BY <1>2
  <2> QED BY <1>2, <1>3, <2>1, <2>2 DEF Met
<1>5. SignedLines("main")' = SignedLines("main")
  BY SameText
<1>6. compiled' # {} => Met' \/ \E j \in SignedLines("main") : j <= at'["main"]
  <2>1. CASE pass = "compile" /\ at["main"] + 1 \in SignedLines("main")
    BY <1>2, <2>1
  <2>2. CASE compiled' = compiled
    <3>1. \A j \in SignedLines("main") : j \in Nat
      BY <1>1, TextIndex
    <3>2. \A j \in Nat : j <= at["main"] => j <= at["main"] + 1
      BY <1>2
    <3> QED BY <1>2, <1>3, <2>2, <3>1, <3>2 DEF PlaceInv, Met
  <2> QED BY <2>1, <2>2
<1>7. pass = "import" => compiled' = {} /\ fn'["main"] = NoFn
  BY DEF PlaceInv
<1> QED BY <1>2, <1>4, <1>5, <1>6, <1>7 DEF PlaceInv

\* A line of the other file.
LEMMA PlaceLib ==
  ASSUME ReadInv, PlaceInv, HasLine("lib"), Next1("lib"), file = "lib", state = "running",
         UNCHANGED <<text, pass, file, state>>, skipping' <=> ~(Passed \/ Line("lib").kind = "ret")
  PROVE  PlaceInv'
<1>1. at \in [Files -> Nat] /\ "main" \in Files /\ "lib" \in Files
  BY DEF ReadInv, Files
<1>2. at'["lib"] = at["lib"] + 1 /\ at'["main"] = at["main"] /\ at["lib"] \in Nat
  BY <1>1 DEF Next1
<1>3. Passed' <=> Passed \/ Line("lib").kind = "ret"
  <2>1. \A r \in Kinds(text["lib"], "ret") : r \in Nat
    BY <1>1, TextIndex
  <2>2. at["lib"] + 1 \in Kinds(text["lib"], "ret") <=> Line("lib").kind = "ret"
    BY <1>1, LineIndex
  <2>3. \A r \in Nat : r <= at["lib"] + 1 <=> r <= at["lib"] \/ r = at["lib"] + 1
    BY <1>2
  <2> QED BY <1>2, <2>1, <2>2, <2>3 DEF Passed
<1>4. Met' <=> Met
  BY <1>2 DEF Met
<1>5. pass = "compile" /\ Met
  BY DEF PlaceInv, ReadInv, TypeOK
<1> QED BY <1>3, <1>4, <1>5 DEF PlaceInv

\* What a step leads to: a diagnostic of what is not legal, or the next place.
Accepts == (state = "error" => ~Legal) /\ (state # "error" => PlaceInv /\ SeenInv)

LEMMA ImportSound ==
  ASSUME ReadInv, PlaceInv, SeenInv, ImportSignature \/ ImportCall \/ ImportOther \/ ImportEnd
  PROVE  Accepts'
<1>1. Running("import", "main") /\ state = "running" /\ pass = "import" /\ file = "main" /\ "main" \in Files
  BY DEF ImportSignature, ImportCall, ImportOther, ImportEnd, Importing, Running, Files
<1>2. compiled = {} /\ at["lib"] = 0 /\ fn["main"] = NoFn
  BY <1>1 DEF PlaceInv
<1>3. CASE ImportSignature
  <2>1. /\ HasLine("main") /\ Line("main").kind \in Signed /\ Next1("main")
        /\ UNCHANGED <<text, pass, file, skipping, fn>>
        /\ \/ label_meta(Line("main")) /\ UNCHANGED <<calls, compiled, state>>
           \/ Redefines(Line("main")) /\ Fail
    BY <1>3 DEF ImportSignature, Importing
  <2>2. at["main"] + 1 \in SignedLines("main")
    BY <1>1, <2>1, SignedHere
  <2>3. CASE Redefines(Line("main")) /\ Fail
    BY <1>1, <2>1, <2>2, <2>3, RedefinesIllegal, SameText DEF Fail, Accepts
  <2>4. CASE label_meta(Line("main")) /\ UNCHANGED <<calls, compiled, state>>
    <3>1. PlaceInv'
      BY <1>1, <2>1, <2>4, PlaceMain
    <3>2. PICK line : line = Line("main")
      OBVIOUS
    <3>3. line.name \in Names /\ label_meta(line)
      BY <1>1, <2>1, <2>4, <3>2, LineFact
    <3>4. SeenInv'
      BY <1>1, <2>1, <2>2, <2>4, <3>2, <3>3, MetaBinds, SeenOn
    <3> QED BY <1>1, <2>4, <3>1, <3>4 DEF Accepts
  <2> QED BY <2>1, <2>3, <2>4
<1>4. CASE ImportCall \/ ImportOther
  <2>1. /\ HasLine("main") /\ Line("main").kind \notin Signed /\ Next1("main")
        /\ UNCHANGED <<text, pass, file, skipping, fn, compiled, state>>
    BY <1>4 DEF ImportCall, ImportOther, Importing, Signed
  <2>2. at["main"] + 1 \notin SignedLines("main")
    BY <1>1, <2>1, LineIndex DEF SignedLines
  <2>3. PlaceInv'
    BY <1>1, <2>1, PlaceMain
  <2>4. \A n \in Names : /\ Bound(n) => Bound(n)' /\ fn_ids'[n] = fn_ids[n]
                         /\ Bound(n)' => Bound(n)
    <3>1. CASE UNCHANGED fn_ids
      BY <3>1 DEF Bound
    <3>2. CASE ~UNCHANGED fn_ids
      <4>0. PICK m : m = Line("main").name
        OBVIOUS
      <4>1. ~fn_ids[m].valid /\ fn_ids' = [fn_ids EXCEPT ![m] = Placeholder]
        BY <1>4, <3>2, <4>0 DEF ImportCall, ImportOther
      <4>2. DOMAIN fn_ids = Names
        BY DEF ReadInv, TypeOK
      <4>3. \A n \in Names : fn_ids'[n] = IF n = m THEN Placeholder ELSE fn_ids[n]
        BY <4>1, <4>2
      <4>4. ~Placeholder.valid \/ Placeholder.is_placeholder
        BY DEF Placeholder
      <4> QED BY <4>1, <4>3, <4>4 DEF Bound
    <3> QED BY <3>1, <3>2
  <2>5. SeenInv'
    BY <1>1, <2>1, <2>2, <2>4, SeenOn
  <2> QED BY <1>1, <2>1, <2>3, <2>5 DEF Accepts
<1>5. CASE ImportEnd
  <2>1. /\ HasLine("main") => Line("main").kind = "no_import_all_self"
        /\ pass' = "compile" /\ at' = [at EXCEPT !["main"] = 0]
        /\ UNCHANGED <<text, file, skipping, fn, fn_ids, compiled, state>>
    BY <1>5 DEF ImportEnd
  <2>2. at \in [Files -> Nat] /\ "lib" \in Files /\ \A f \in Files : at[f] \in 0 .. Len(text[f])
    BY DEF ReadInv, TypeOK, Files
  <2>3. at'["main"] = 0 /\ at'["lib"] = 0
    BY <1>1, <1>2, <2>1, <2>2
  <2>4. \A f \in Files : \A i \in DOMAIN text[f] : i \in Nat \ {0} /\ i \in 1 .. Len(text[f])
    <3>1. \A f \in Files : \A i \in 1 .. Len(text[f]) : i \in Nat \ {0}
      BY TextIndex
    <3> QED BY <3>1, TextIndex
  <2>5. ~Met'
    BY <1>1, <2>1, <2>3, <2>4 DEF Met, Kinds
  <2>6. PlaceInv'
    BY <1>1, <1>2, <2>1, <2>3, <2>5 DEF PlaceInv
  <2>7. \A g : SignedLines(g)' = SignedLines(g)
    BY <2>1, SameText
  <2>8. SelfImport => at["main"] = Len(text["main"])
    <3>1. SelfImport => ~HasLine("main")
      BY <1>1, <2>1, LineIndex DEF SelfImport
    <3> QED BY <1>1, <2>2, <3>1, TextIndex DEF HasLine
  <2>9. \A f \in Files : \A j \in SignedLines(f) : ~(j <= at'[f])
    <3>1. \A f \in Files : f = "main" \/ f = "lib"
      BY DEF Files
    <3>2. \A f \in Files : at'[f] = 0
      BY <2>3, <3>1
    <3> QED BY <2>4, <3>2 DEF SignedLines
  <2>10. ASSUME NEW f \in Files, NEW j \in SignedLines(f), ReadTo(f, j)' PROVE ReadTo(f, j)
    <3>1. f = "main" /\ SelfImport
      BY <2>1, <2>9, <2>10, SameText DEF ReadTo
    <3> QED BY <1>1, <2>2, <2>4, <2>8, <3>1 DEF ReadTo, SignedLines
  <2>11. \A f \in Files : fn[f] = NoFn
    <3>1. \A f \in Files : f = "main" \/ f = "lib"
      BY DEF Files
    <3>2. ASSUME fn["lib"] # NoFn PROVE FALSE
      <4>1. PICK j \in SignedLines("lib") : j <= at["lib"]
        BY <2>2, <3>2 DEF SeenInv
      <4> QED BY <1>2, <2>2, <2>4, <4>1 DEF SignedLines
    <3> QED BY <1>2, <3>1, <3>2
  <2>12. (\A n : Bound(n)' <=> Bound(n)) /\ (\A n, f, j : From(n, f, j)' <=> From(n, f, j))
    BY <2>1 DEF Bound, From
  <2>13. SeenInv'
    BY <2>1, <2>7, <2>9, <2>10, <2>11, <2>12 DEF SeenInv
  <2> QED BY <1>1, <2>1, <2>6, <2>13 DEF Accepts
<1> QED BY <1>3, <1>4, <1>5

\* The table agrees with every line of a legal program that was read.
LEMMA LegalTable ==
  ASSUME ReadInv, SeenInv, Legal, NEW f \in Files, NEW j \in SignedLines(f), ReadTo(f, j)
  PROVE  /\ Bound(text[f][j].name)
         /\ fn_ids[text[f][j].name].sig = text[f][j].sig
<1>1. Bound(text[f][j].name)
  BY DEF SeenInv
<1>2. text[f][j].name \in Names
  <2>1. j \in DOMAIN text[f] /\ text[f][j].kind \in Signed
    BY DEF SignedLines
  <2>2. text[f][j] \in Lines
    BY <2>1 DEF ReadInv
  <2> QED BY <2>1, <2>2 DEF Lines, Signed, Define, Declare, SetLabel, Call, Directive
<1>3. PICK g \in Files : \E k \in SignedLines(g) : From(text[f][j].name, g, k)
  BY <1>1, <1>2 DEF SeenInv
<1>4. PICK k \in SignedLines(g) : From(text[f][j].name, g, k)
  BY <1>3
<1>5. text[f][j].sig = text[g][k].sig
  BY <1>4 DEF Legal, From
<1> QED BY <1>1, <1>4, <1>5 DEF From

\* A function that returns what its line says returns what the table says.
LEMMA ReturnsIllegal ==
  ASSUME ReadInv, SeenInv, file \in Files, InFn,
         ~(fn[file].rets = <<>> \/ Takes(fn_ids[fn[file].name].sig.rets, fn[file].rets))
  PROVE  ~Legal
<1> SUFFICES ASSUME Legal PROVE FALSE
  OBVIOUS
<1>1. PICK j \in SignedLines(file) :
        j <= at[file] /\ text[file][j].name = fn[file].name /\ text[file][j].sig.rets = fn[file].rets
  BY DEF InFn, SeenInv
<1>2. fn_ids[fn[file].name].sig.rets = fn[file].rets
  BY <1>1, LegalTable DEF ReadTo
<1> QED BY <1>2 DEF Takes

\* A call of what is known where it stands is compiled.
LEMMA CallIllegal ==
  ASSUME ReadInv, Regular, PlaceInv, SeenInv, "forward" \notin Beyond, Compiling({"call"}),
         ~(fn_ids[Line(file).name].valid /\ Takes(fn_ids[Line(file).name].sig.params, Line(file).args))
  PROVE  ~Legal
<1> SUFFICES ASSUME Legal PROVE FALSE
  OBVIOUS
<1>1. /\ HasLine(file) /\ Line(file).kind = "call" /\ pass = "compile" /\ ~skipping /\ file \in Files
      /\ at \in [Files -> Nat] /\ "main" \in Files /\ "lib" \in Files
  BY DEF Compiling, Running, ReadInv, TypeOK, Files
<1>2. at[file] + 1 \in Kinds(text[file], "call") /\ Line(file) = text[file][at[file] + 1] /\ at[file] \in Nat
  BY <1>1, LineIndex
<1>3. file = "lib" => Met /\ Passed
  BY <1>1 DEF PlaceInv
<1>4. at[file] + 1 \in CompiledCalls(file)
  <2>1. Met => Included
    BY DEF Met, Included
  <2>2. file = "lib" /\ Passed => \E r \in Kinds(text["lib"], "ret") : r < at[file] + 1
    <3>1. \A r \in Kinds(text["lib"], "ret") : r \in Nat
      BY <1>1, TextIndex
    <3> QED BY <1>2, <3>1 DEF Passed
  <2> QED BY <1>2, <1>3, <2>1, <2>2 DEF CompiledCalls
<1>5. PICK g \in Files : \E j \in SignedLines(g) :
        KnownAt(file, at[file] + 1, g, j) /\ Answers(text[g][j], Line(file))
  BY <1>1, <1>2, <1>4 DEF Legal
<1>6. PICK j \in SignedLines(g) : KnownAt(file, at[file] + 1, g, j) /\ Answers(text[g][j], Line(file))
  BY <1>5
<1>7. j \in 1 .. Len(text[g]) /\ Len(text[g]) \in Nat
  BY TextIndex
<1>8. \A k \in Kinds(text["main"], "compile_all") : k \in Nat
  BY <1>1, TextIndex
<1>9. ReadTo(g, j)
  <2>1. CASE g = file
    <3>1. j < at[file] + 1 \/ (file = "main" /\ SelfImport)
      BY <1>6, <2>1 DEF KnownAt, Known
    <3> QED BY <1>1, <1>2, <1>7, <2>1, <3>1 DEF ReadTo
  <2>2. CASE g # file /\ file = "main"
    <3>1. g = "lib"
      BY <2>2 DEF Files
    <3>2. PICK k \in Kinds(text["main"], "compile_all") : k < at["main"] + 1
      BY <1>6, <2>2, <3>1 DEF KnownAt
    <3>3. Met
      BY <1>1, <1>8, <3>2 DEF Met
    <3>4. at["lib"] = Len(text["lib"])
      BY <1>1, <2>2, <3>3 DEF PlaceInv
    <3> QED BY <1>7, <3>1, <3>4 DEF ReadTo
  <2>3. CASE g # file /\ file = "lib"
    <3>1. g = "main"
      BY <2>3 DEF Files
    <3>2. SelfImport \/ \E k \in Kinds(text["main"], "compile_all") : j < k
      BY <1>6, <2>3, <3>1 DEF KnownAt
    <3>3. CASE SelfImport
      BY <1>1, <3>1, <3>3 DEF ReadTo
    <3>4. CASE \E k \in Kinds(text["main"], "compile_all") : j < k
      <4>1. PICK k \in Kinds(text["main"], "compile_all") : j < k
        BY <3>4
      <4>2. k <= at["main"] /\ k \in Nat
        BY <1>3, <1>8, <2>3 DEF Met, Regular
      <4> QED BY <1>1, <1>7, <3>1, <4>1, <4>2 DEF ReadTo
    <3> QED BY <3>2, <3>3, <3>4
  <2> QED BY <1>1, <2>1, <2>2, <2>3 DEF Files
<1>10. Bound(text[g][j].name) /\ fn_ids[text[g][j].name].sig = text[g][j].sig
  BY <1>9, LegalTable
<1> QED BY <1>6, <1>10 DEF Answers, Bound

\* The directive that opts out of the import is not too late where it comes first.
LEMMA OptOutIllegal ==
  ASSUME ReadInv, Regular, PlaceInv, Compiling({"no_import_all_self"}), compiled # {}
  PROVE  ~Legal
<1> SUFFICES ASSUME Legal PROVE FALSE
  OBVIOUS
<1>1. /\ HasLine(file) /\ Line(file).kind = "no_import_all_self" /\ file \in Files
      /\ at \in [Files -> Nat] /\ "main" \in Files
  BY DEF Compiling, Running, ReadInv, TypeOK, Files
<1>2. at[file] + 1 \in Kinds(text[file], "no_import_all_self") /\ at[file] \in Nat
  BY <1>1, LineIndex
<1>3. file = "main"
  BY <1>1, <1>2 DEF Regular, Files
<1>4. \A j \in SignedLines("main") \cup Kinds(text["main"], "compile_all") :
        at["main"] + 1 < j /\ j \in Nat
  <2>1. \A j \in SignedLines("main") \cup Kinds(text["main"], "compile_all") : j \in Nat
    BY <1>1, TextIndex
  <2>2. at["main"] + 1 \in Kinds(text["main"], "no_import_all_self")
    BY <1>2, <1>3
  <2>3. \A j \in SignedLines("main") \cup Kinds(text["main"], "compile_all") : at["main"] + 1 < j
    BY <2>2 DEF Legal
  <2> QED BY <2>1, <2>3
<1>5. \A j \in Nat : at["main"] + 1 < j => ~(j <= at["main"])
  BY <1>2, <1>3
<1> QED BY <1>4, <1>5 DEF PlaceInv, Met

\* A line that gives a signature, met where it counts.
LEMMA SignatureSound ==
  ASSUME ReadInv, PlaceInv, SeenInv, state = "running", pass = "compile",
         HasLine(file), Line(file).kind \in Signed, skipping => file = "lib" /\ Line(file).kind = "declare",
         Next1(file), UNCHANGED <<text, pass, file, skipping>>,
         \/ /\ label_meta(Line(file)) /\ state' = state
            /\ compiled \subseteq compiled'
            /\ Line(file).kind = "define" => Line(file).name \in compiled'
            /\ \A g \in Files : \/ fn'[g] = fn[g] \/ fn'[g] = NoFn
                                \/ /\ g = file /\ Line(file).name = fn'[g].name
                                   /\ Line(file).sig.rets = fn'[g].rets
         \/ Redefines(Line(file)) /\ Fail
  PROVE  Accepts'
<1>1. file \in Files
  BY DEF ReadInv, TypeOK
<1>2. at[file] + 1 \in SignedLines(file)
  BY <1>1, SignedHere DEF Files
<1>3. CASE Redefines(Line(file)) /\ Fail
  BY <1>1, <1>2, <1>3, RedefinesIllegal, SameText DEF Fail, Accepts
<1>4. CASE ~(Redefines(Line(file)) /\ Fail)
  <2>1. PICK line : line = Line(file)
    OBVIOUS
  <2>2. line.name \in Names /\ label_meta(line) /\ state' = "running"
    BY <1>1, <1>4, <2>1, LineFact
  <2>3. SeenInv'
    BY <1>1, <1>2, <1>4, <2>1, <2>2, MetaBinds, SeenOn
  <2>4. PlaceInv'
    <3>1. CASE file = "main"
      BY <1>2, <1>4, <3>1, PlaceMain DEF Signed
    <3>2. CASE file = "lib"
      <4>1. skipping <=> ~Passed
        BY <3>2 DEF PlaceInv
      <4>2. Line("lib").kind # "ret"
        BY <3>2 DEF Signed
      <4> QED BY <3>2, <4>1, <4>2, <2>2, PlaceLib
    <3> QED BY <1>1, <3>1, <3>2 DEF Files
  <2> QED BY <2>2, <2>3, <2>4 DEF Accepts
<1> QED BY <1>3, <1>4

\* A line of a function or a main part that gives none.
LEMMA OtherSound ==
  ASSUME ReadInv, PlaceInv, SeenInv, state = "running", pass = "compile", ~skipping,
         HasLine(file), Line(file).kind \in {"call", "no_import_all_self", "ret"},
         Next1(file), UNCHANGED <<text, pass, file, skipping, fn>>,
         UNCHANGED <<fn_ids, compiled, state>> \/ (Fail /\ ~Legal)
  PROVE  Accepts'
<1>1. file \in Files
  BY DEF ReadInv, TypeOK
<1>2. CASE Fail /\ ~Legal
  BY <1>2, SameText DEF Fail, Accepts
<1>3. CASE UNCHANGED <<fn_ids, compiled, state>>
  <2>1. at[file] + 1 \notin SignedLines(file)
    BY <1>1, LineIndex DEF SignedLines, Signed
  <2>2. \A n : Bound(n)' <=> Bound(n)
    BY <1>3 DEF Bound
  <2>3. SeenInv'
    BY <1>1, <1>3, <2>1, <2>2, SeenOn
  <2>4. PlaceInv'
    <3>1. CASE file = "main"
      BY <1>3, <3>1, PlaceMain
    <3>2. CASE file = "lib"
      <4>1. Passed
        BY <3>2 DEF PlaceInv
      <4> QED BY <1>3, <3>2, <4>1, PlaceLib
    <3> QED BY <1>1, <3>1, <3>2 DEF Files
  <2> QED BY <1>3, <2>3, <2>4 DEF Accepts
<1> QED BY <1>2, <1>3

\* The main part of the other file is passed over up to its `ret'.
LEMMA SkipSound ==
  ASSUME ReadInv, Regular, PlaceInv, SeenInv, SkipLine
  PROVE  Accepts'
<1>1. /\ state = "running" /\ pass = "compile" /\ file = "lib" /\ skipping /\ HasLine("lib")
      /\ Line("lib").kind # "declare" /\ Next1("lib") /\ "lib" \in Files
      /\ skipping' = ~(Line("lib").kind = "ret" /\ at["lib"] > 0)
      /\ UNCHANGED <<text, pass, file, fn, fn_ids, compiled, state>>
  BY DEF SkipLine, Skipping, Running, Files
<1>2. ~Passed /\ Headed(text["lib"])
  BY <1>1 DEF PlaceInv
<1>3. at["lib"] \in Nat /\ Line("lib") = text["lib"][at["lib"] + 1]
      /\ (at["lib"] + 1 \in Kinds(text["lib"], "ret") <=> Line("lib").kind = "ret")
  BY <1>1, LineIndex
<1>4. at["lib"] + 1 \notin SignedLines("lib")
  <2>1. \A r \in Kinds(text["lib"], "ret") : r \in Nat
    BY <1>1, TextIndex
  <2>2. ~ \E r \in Kinds(text["lib"], "ret") : r < at["lib"] + 1
    BY <1>2, <1>3, <2>1 DEF Passed
  <2> QED BY <1>1, <1>3, <2>2 DEF SignedLines
<1>5. \A n : Bound(n)' <=> Bound(n)
  BY <1>1 DEF Bound
<1>6. SeenInv'
  BY <1>1, <1>4, <1>5, SeenOn
<1>7. Line("lib").kind = "ret" => at["lib"] > 0
  <2> SUFFICES ASSUME Line("lib").kind = "ret" PROVE at["lib"] > 0
    OBVIOUS
  <2>1. PICK r \in Kinds(text["lib"], "ret") : r > 1
    BY <1>2 DEF Headed
  <2>2. r = at["lib"] + 1
    BY <1>3, <2>1 DEF Regular
  <2> QED BY <1>3, <2>1, <2>2
<1>8. PlaceInv'
  BY <1>1, <1>2, <1>7, PlaceLib
<1> QED BY <1>1, <1>6, <1>8 DEF Accepts

\* `#compile_all' is met once, and leads to the other file's first line.
LEMMA IncludeSound ==
  ASSUME ReadInv, Regular, PlaceInv, SeenInv, "headless" \notin Beyond, CompileAll
  PROVE  Accepts'
<1>1. /\ state = "running" /\ pass = "compile" /\ ~skipping /\ HasLine(file)
      /\ Line(file).kind = "compile_all" /\ Next1(file) /\ file \in Files
      /\ file' = "lib" /\ skipping' = TRUE /\ Headed(text["lib"])
      /\ UNCHANGED <<text, pass, fn, fn_ids, compiled, state>>
      /\ at \in [Files -> Nat] /\ "main" \in Files /\ "lib" \in Files
  BY DEF CompileAll, Compiling, Running, Known, ReadInv, TypeOK, Files
<1>2. at[file] + 1 \in Kinds(text[file], "compile_all") /\ Line(file) = text[file][at[file] + 1]
      /\ at[file] \in Nat
  BY <1>1, LineIndex
<1>3. file = "main"
  BY <1>1, <1>2 DEF Regular, Files
<1>4. at'["main"] = at["main"] + 1 /\ at'["lib"] = at["lib"]
  BY <1>1, <1>3 DEF Next1
<1>5. ~Met
  <2> SUFFICES ASSUME Met PROVE FALSE
    OBVIOUS
  <2>1. PICK k \in Kinds(text["main"], "compile_all") : k <= at["main"]
    BY DEF Met
  <2>2. k = at["main"] + 1
    BY <1>2, <1>3, <2>1 DEF Regular
  <2> QED BY <1>2, <1>3, <2>1, <2>2
<1>6. at["lib"] = 0
  BY <1>1, <1>5 DEF PlaceInv
<1>7. Met'
  BY <1>1, <1>2, <1>3, <1>4 DEF Met
<1>8. ~Passed'
  <2>1. \A r \in Kinds(text["lib"], "ret") : r \in Nat /\ r >= 1
    BY <1>1, TextIndex DEF Kinds
  <2> QED BY <1>1, <1>4, <1>6, <2>1 DEF Passed
<1>9. PlaceInv'
  BY <1>1, <1>7, <1>8 DEF PlaceInv
<1>10. at[file] + 1 \notin SignedLines(file)
  BY <1>1, <1>2 DEF SignedLines, Signed
<1>11. \A n : Bound(n)' <=> Bound(n)
  BY <1>1 DEF Bound
<1>12. SeenInv'
  BY <1>1, <1>10, <1>11, SeenOn
<1> QED BY <1>1, <1>9, <1>12 DEF Accepts

\* The ends of functions and files.
LEMMA EndSound ==
  ASSUME ReadInv, DOMAIN fn = Files, PlaceInv, SeenInv, EndFunction \/ EndFile
  PROVE  Accepts'
<1>1. /\ state = "running" /\ pass = "compile" /\ file \in Files
      /\ \A f \in Files : at[f] \in 0 .. Len(text[f])
      /\ UNCHANGED <<text, pass, at>>
  BY DEF EndFunction, EndFile, Running, ReadInv, TypeOK
<1>2. Met' = Met /\ Passed' = Passed /\ SignedLines("main")' = SignedLines("main")
  BY <1>1, SameText DEF Met, Passed
<1>3. CASE EndFunction
  <2>1. /\ InFn /\ fn' = [fn EXCEPT ![file] = NoFn] /\ UNCHANGED <<file, skipping>>
        /\ IF fn[file].rets = <<>> \/ Takes(fn_ids[fn[file].name].sig.rets, fn[file].rets)
           THEN UNCHANGED <<fn_ids, signatures, calls, compiled, state>> ELSE Fail
    BY <1>3 DEF EndFunction
  <2>2. CASE ~(fn[file].rets = <<>> \/ Takes(fn_ids[fn[file].name].sig.rets, fn[file].rets))
    BY <1>1, <2>1, <2>2, ReturnsIllegal, SameText DEF Fail, Accepts
  <2>3. CASE fn[file].rets = <<>> \/ Takes(fn_ids[fn[file].name].sig.rets, fn[file].rets)
    <3>1. UNCHANGED <<fn_ids, compiled, state>>
      BY <2>1, <2>3
    <3>2. PlaceInv'
      BY <1>1, <1>2, <2>1, <3>1 DEF PlaceInv
    <3>3. \A g \in Files : fn'[g] = fn[g] \/ fn'[g] = NoFn
      BY <2>1
    <3>4. SeenInv'
      BY <1>1, <2>1, <3>1, <3>3, SeenIdle
    <3> QED BY <1>1, <3>1, <3>2, <3>4 DEF Accepts
  <2> QED BY <2>2, <2>3
<1>4. CASE EndFile
  <2>1. /\ ~HasLine(file) /\ UNCHANGED <<fn, fn_ids, compiled>>
        /\ IF file = "lib" THEN file' = "main" /\ skipping' = FALSE /\ UNCHANGED state
                           ELSE state' = "done" /\ UNCHANGED <<file, skipping>>
    BY <1>4 DEF EndFile
  <2>2. SeenInv'
    BY <1>1, <2>1, SeenIdle
  <2>3. at[file] = Len(text[file])
    BY <1>1, <2>1, TextIndex DEF HasLine
  <2>4. PlaceInv'
    BY <1>1, <1>2, <2>1, <2>3 DEF PlaceInv, Files
  <2>5. state' # "error"
    BY <1>1, <2>1
  <2> QED BY <2>2, <2>4, <2>5 DEF Accepts
<1> QED BY <1>3, <1>4

\* Nothing is read.
LEMMA Waiting ==
  ASSUME Accepts, UNCHANGED vars
  PROVE  Accepts'
<1>1. UNCHANGED <<text, pass, file, at, skipping, fn, fn_ids, compiled, state>>
  BY DEF vars
<1>2. (Legal' <=> Legal) /\ SignedLines("main")' = SignedLines("main")
  BY <1>1, SameText
<1>3. SeenInv => SeenInv'
  BY <1>1, SeenIdle
<1>4. PlaceInv => PlaceInv'
  BY <1>1, <1>2 DEF PlaceInv, Met, Passed
<1> QED BY <1>1, <1>2, <1>3, <1>4 DEF Accepts

\* One definition per file is being compiled.
LEMMA FnStep ==
  ASSUME DOMAIN fn = Files, [Next]_vars
  PROVE  DOMAIN fn' = Files
<1>1. UNCHANGED fn \/ CompileFunction \/ EndFunction
  BY DEF Next, vars, ImportSignature, ImportCall, ImportOther, ImportEnd, CompileSignature, CallFunction,
         CompileNoImport, CompileRet, CompileAll, SkipDeclare, SkipLine, EndFile
<1>2. CompileFunction => UNCHANGED fn \/ \E d : fn' = [fn EXCEPT ![file] = d]
  BY DEF CompileFunction
<1>3. EndFunction => \E d : fn' = [fn EXCEPT ![file] = d]
  BY DEF EndFunction
<1> QED BY <1>1, <1>2, <1>3

\* Every step of the compiler, with a program whose directives are regular.
LEMMA AcceptStep ==
  ASSUME "forward" \notin Beyond, "headless" \notin Beyond,
         ReadInv, Regular, DOMAIN fn = Files, Accepts, [Next]_vars
  PROVE  Accepts'
<1>1. CASE UNCHANGED vars
  BY <1>1, Waiting
<1>2. CASE Next
  <2>1. state = "running"
    BY <1>2 DEF Next, ImportSignature, ImportCall, ImportOther, ImportEnd, CompileFunction, EndFunction,
                CompileSignature, CallFunction, CompileNoImport, CompileRet, CompileAll, SkipDeclare,
                SkipLine, EndFile, Importing, Compiling, Skipping, Running
  <2>2. PlaceInv /\ SeenInv
    BY <2>1 DEF Accepts
  <2>3. CASE ImportSignature \/ ImportCall \/ ImportOther \/ ImportEnd
    BY <2>2, <2>3, ImportSound
  <2>4. CASE CompileFunction
    <3>1. /\ pass = "compile" /\ ~skipping /\ HasLine(file) /\ Line(file).kind = "define" /\ Next1(file)
          /\ UNCHANGED <<text, pass, file, skipping>>
      BY <2>4 DEF CompileFunction, Compiling, Running
    <3>2. CASE Redefines(Line(file)) /\ Fail
      BY <2>1, <2>2, <3>1, <3>2, SignatureSound DEF Signed
    <3>3. CASE ~(Redefines(Line(file)) /\ Fail)
      <4>1. PICK line : line = Line(file)
        OBVIOUS
      <4>2. /\ label_meta(line) /\ compiled' = compiled \cup {line.name} /\ state' = state
            /\ fn' = [fn EXCEPT ![file] = [params |-> line.sig.params, rets |-> line.sig.rets, name |-> line.name]]
        BY <2>4, <3>3, <4>1 DEF CompileFunction
      <4>3. file \in Files
        BY DEF ReadInv, TypeOK
      <4>4. \A g \in Files : \/ fn'[g] = fn[g]
                             \/ g = file /\ line.name = fn'[g].name /\ line.sig.rets = fn'[g].rets
        BY <4>2, <4>3
      <4> QED BY <2>1, <2>2, <3>1, <4>1, <4>2, <4>4, SignatureSound DEF Signed
    <3> QED BY <3>2, <3>3
  <2>5. CASE EndFunction \/ EndFile
    BY <2>2, <2>5, EndSound
  <2>6. CASE CompileSignature
    <3>1. /\ pass = "compile" /\ ~skipping /\ HasLine(file) /\ Line(file).kind \in {"label", "declare"}
          /\ Next1(file) /\ UNCHANGED <<text, pass, file, skipping, fn>>
          /\ \/ label_meta(Line(file)) /\ UNCHANGED <<calls, compiled, state>>
             \/ Redefines(Line(file)) /\ Fail
      BY <2>6 DEF CompileSignature, Compiling, Running
    <3> QED BY <2>1, <2>2, <3>1, SignatureSound DEF Signed
  <2>7. CASE CallFunction
    <3>1. /\ pass = "compile" /\ ~skipping /\ HasLine(file) /\ Line(file).kind = "call"
          /\ Next1(file) /\ UNCHANGED <<text, pass, file, skipping, fn>> /\ Compiling({"call"})
      BY <2>7 DEF CallFunction, Compiling, Running
    <3>2. \/ UNCHANGED <<fn_ids, compiled, state>>
          \/ /\ ~(fn_ids[Line(file).name].valid /\ Takes(fn_ids[Line(file).name].sig.params, Line(file).args))
             /\ Fail
      BY <2>7 DEF CallFunction
    <3>3. UNCHANGED <<fn_ids, compiled, state>> \/ (Fail /\ ~Legal)
      BY <2>2, <3>1, <3>2, CallIllegal
    <3> QED BY <2>1, <2>2, <3>1, <3>3, OtherSound
  <2>8. CASE CompileNoImport
    <3>1. /\ pass = "compile" /\ ~skipping /\ HasLine(file) /\ Line(file).kind = "no_import_all_self"
          /\ Next1(file) /\ UNCHANGED <<text, pass, file, skipping, fn>> /\ Compiling({"no_import_all_self"})
          /\ UNCHANGED <<fn_ids, compiled, state>> \/ (compiled # {} /\ Fail)
      BY <2>8 DEF CompileNoImport, Compiling, Running
    <3>2. UNCHANGED <<fn_ids, compiled, state>> \/ (Fail /\ ~Legal)
      BY <2>2, <3>1, OptOutIllegal
    <3> QED BY <2>1, <2>2, <3>1, <3>2, OtherSound
  <2>9. CASE CompileRet
    <3>1. /\ pass = "compile" /\ ~skipping /\ HasLine(file) /\ Line(file).kind = "ret"
          /\ Next1(file) /\ UNCHANGED <<text, pass, file, skipping, fn, fn_ids, compiled, state>>
      BY <2>9 DEF CompileRet, Compiling, Running
    <3> QED BY <2>1, <2>2, <3>1, OtherSound
  <2>10. CASE CompileAll
    BY <2>2, <2>10, IncludeSound
  <2>11. CASE SkipDeclare
    <3>1. /\ pass = "compile" /\ file = "lib" /\ skipping /\ HasLine(file) /\ Line(file).kind = "declare"
          /\ Next1(file) /\ UNCHANGED <<text, pass, file, skipping, fn>>
          /\ \/ label_meta(Line(file)) /\ UNCHANGED <<calls, compiled, state>>
             \/ Redefines(Line(file)) /\ Fail
      BY <2>11 DEF SkipDeclare, Skipping, Running
    <3> QED BY <2>1, <2>2, <3>1, SignatureSound DEF Signed
  <2>12. CASE SkipLine
    BY <2>2, <2>12, SkipSound
  <2> QED BY <1>2, <2>3, <2>4, <2>5, <2>6, <2>7, <2>8, <2>9, <2>10, <2>11, <2>12 DEF Next
<1> QED BY <1>1, <1>2

\* Before anything is read.
LEMMA AcceptInit ==
  ASSUME Init
  PROVE  ReadInv /\ DOMAIN fn = Files /\ Accepts
<1>1. ReadInv
  BY InitRead
<1>2. /\ pass = "import" /\ file = "main" /\ skipping = FALSE /\ compiled = {} /\ state = "running"
      /\ \A f \in Files : at[f] = 0 /\ fn[f] = NoFn
      /\ \A n \in Names : ~Bound(n)
      /\ DOMAIN fn = Files /\ "main" \in Files /\ "lib" \in Files
  BY DEF Init, Start, Files, Bound, None
<1>3. PlaceInv
  BY <1>2 DEF PlaceInv
<1>4. \A f \in Files : \A j \in SignedLines(f) : ~ReadTo(f, j)
  <2>1. \A f \in Files : \A j \in SignedLines(f) : j \in Nat /\ j >= 1
    BY <1>1, TextIndex
  <2> QED BY <1>2, <2>1 DEF ReadTo
<1>5. SeenInv
  BY <1>2, <1>4 DEF SeenInv
<1> QED BY <1>1, <1>2, <1>3, <1>5 DEF Accepts

\* The inductive invariant.
AcceptInv == ReadInv /\ Regular /\ DOMAIN fn = Files /\ Accepts

LEMMA AcceptInductive ==
  ASSUME "forward" \notin Beyond, "headless" \notin Beyond, AcceptInv, [Next]_vars
  PROVE  AcceptInv'
<1>1. text' = text
  BY DEF Next, vars, ImportSignature, ImportCall, ImportOther, ImportEnd, CompileFunction, EndFunction,
         CompileSignature, CallFunction, CompileNoImport, CompileRet, CompileAll, SkipDeclare, SkipLine, EndFile
<1> QED BY <1>1, SameText, ReadStep, FnStep, AcceptStep DEF AcceptInv

\* A program that gives each name one signature, calls functions as that asks
\* where it is known, and has its directives in their places is never refused,
\* however long its files are, wherever its definitions, declarations and calls
\* stand, and whatever the signatures and the arguments are.
THEOREM AcceptsSound ==
  ASSUME "forward" \notin Beyond, "headless" \notin Beyond
  PROVE  Spec /\ Regular => []AcceptsLegal
<1>1. Init /\ Regular => AcceptInv
  BY AcceptInit DEF AcceptInv
<1>2. AcceptInv /\ [Next]_vars => AcceptInv'
  BY AcceptInductive
<1>3. AcceptInv => AcceptsLegal
  BY DEF AcceptInv, Accepts, AcceptsLegal
<1> QED BY <1>1, <1>2, <1>3, PTL DEF Spec

\* When the compiler is done with such a program, legal or not, it has put out
\* every function of the main file and of the file that this includes.
THEOREM CompiledSound ==
  ASSUME "forward" \notin Beyond, "headless" \notin Beyond
  PROVE  Spec /\ Regular => []EveryFunctionCompiled
<1>1. Init /\ Regular => AcceptInv
  BY AcceptInit DEF AcceptInv
<1>2. AcceptInv /\ [Next]_vars => AcceptInv'
  BY AcceptInductive
<1>3. AcceptInv => EveryFunctionCompiled
  <2> USE DEF AcceptInv
  <2> SUFFICES ASSUME AcceptInv, state = "done", NEW f \in Files, NEW i \in Kinds(text[f], "define") \cap SignedLines(f)
               PROVE  text[f][i].name \in compiled
    BY DEF EveryFunctionCompiled
  <2>1. PlaceInv /\ SeenInv /\ pass = "compile" /\ file = "main" /\ at["main"] = Len(text["main"])
    BY DEF Accepts, PlaceInv
  <2>2. i \in 1 .. Len(text[f]) /\ Len(text[f]) \in Nat /\ "main" \in Files /\ Len(text["main"]) \in Nat
    BY TextIndex DEF Files
  <2>3. at[f] = Len(text[f])
    <3>1. CASE f = "main"
      BY <2>1, <3>1
    <3>2. CASE f = "lib"
      <4>1. PICK k : k \in Kinds(text["main"], "compile_all")
        BY <3>2 DEF SignedLines, Included
      <4>2. k <= at["main"]
        <5>1. k \in DOMAIN text["main"]
          BY <4>1 DEF Kinds
        <5>2. k \in 1 .. Len(text["main"])
          BY <2>2, <5>1, TextIndex
        <5> QED BY <2>1, <2>2, <5>2
      <4> QED BY <2>1, <3>2, <4>1, <4>2 DEF PlaceInv, Met
    <3> QED BY <3>1, <3>2 DEF Files
  <2>4. i <= at[f] /\ text[f][i].kind = "define"
    BY <2>2, <2>3 DEF Kinds
  <2> QED BY <2>1, <2>4 DEF SeenInv
<1> QED BY <1>1, <1>2, <1>3, PTL DEF Spec
=============================================================================
