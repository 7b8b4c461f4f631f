-------------------------- MODULE ExecutablesProofs --------------------------
(* The limits of the tables, the layouts of the files and where references    *)
(* lead in them, for every program.                                           *)
EXTENDS Executables, TLAPS

USE DEF vars, code_vars, import_vars, table_vars

Fixup == [kind : {"call", "str"}, key : Called \cup {""}, aux : Nat, site : Nat]
Extcall == [site : Nat, fixup : Nat, import : Nat]

CodeInv ==
  /\ target \in Targets
  /\ phase \in {"code", "resolve", "names", "hash", "end"}
  /\ code_len \in 0 .. CodeCap /\ cstrs_len \in 0 .. CstrCap
  /\ fixups \in Seq(Fixup) /\ Len(fixups) <= FixupCap
  /\ \A i \in DOMAIN fixups : fixups[i].kind = "call" => fixups[i].key \in Called
  /\ diagnosed \in BOOLEAN

\* In the code every field is still empty.
WordInv ==
  /\ phase = "code" => word \in Seq({0}) /\ next = 1
  /\ DOMAIN word = 1 .. Len(fixups)
  /\ next \in 1 .. Len(fixups) + 1

ImportInv ==
  /\ phase = "code" => imports = << >> /\ extcalls = << >>
  /\ imports \in Seq(Called) /\ Len(imports) <= ImportCap
  /\ \A i \in DOMAIN imports : ~Defined(imports[i]) /\ \A j \in 1 .. i - 1 : imports[i] # imports[j]
  /\ extcalls \in Seq(Extcall)
  /\ \A k \in DOMAIN extcalls : extcalls[k].import < Len(imports)

\* Where the names begin, and how far they can reach.
NameInv ==
  /\ phase \in {"code", "resolve"} => name_off = << >> /\ name_end = 0
  /\ name_off \in Seq(Nat) /\ Len(name_off) <= Len(imports) + 1
  /\ name_end \in Nat
  /\ \A i \in DOMAIN name_off : name_off[i] < name_end
  /\ phase = "names" /\ target = "pe-x86_64" => name_end >= 56 + 16 * (Len(imports) + 1)
  /\ phase = "names" /\ target = "macho" => Len(name_off) <= Len(imports) /\ name_end <= 1 + 97 * Len(name_off)
  /\ target \in {"elf-x86_64", "elf-aarch64"} /\ (phase = "hash" \/ (phase = "end" /\ ~diagnosed)) => Len(name_off) <= NameMost

TypeInv == CodeInv /\ WordInv /\ ImportInv /\ NameInv

-----------------------------------------------------------------------------
(* The code and bin_emit                                                     *)

LEMMA Caps ==
  /\ FixupCap \in Nat /\ ImportCap \in Nat /\ NameCap \in Nat /\ NameMost \in Nat /\ NameMost <= NameCap
  /\ CodeCap \in {8192, 131072} /\ CstrCap \in {4096, 8192} /\ Unit \in {1, 4}
BY CapsAssumption DEF CodeCap, CstrCap, Unit

LEMMA InitTyped == Init => TypeInv
<1> SUFFICES ASSUME Init PROVE TypeInv OBVIOUS
<1>1. CodeInv
  <2>1. code_len \in 0 .. CodeCap
    BY Caps, CapsAssumption DEF Init
  <2>2. cstrs_len \in 0 .. CstrCap /\ Len(fixups) <= FixupCap /\ fixups \in Seq(Fixup)
    BY Caps DEF Init
  <2>3. fixups = << >> /\ target \in Targets /\ phase = "code" /\ diagnosed = FALSE
    BY DEF Init
  <2>4. \A i \in DOMAIN fixups : fixups[i].kind = "call" => fixups[i].key \in Called
    BY <2>3
  <2>q. QED BY <2>1, <2>2, <2>3, <2>4 DEF CodeInv
<1>2. WordInv /\ ImportInv /\ NameInv
  BY Caps DEF Init, WordInv, ImportInv, NameInv
<1>q. QED BY <1>1, <1>2 DEF TypeInv

LEMMA FunctionTyped ==
  ASSUME TypeInv, NEW f \in Functions, EmitFunction(f) PROVE TypeInv'
<1> USE DEF TypeInv, EmitFunction
<1>1. CodeInv'
  <2>1. UNCHANGED <<CodeCap, CstrCap>> BY DEF CodeCap, CstrCap, Arm
  <2>2. code_len' \in 0 .. CodeCap BY Caps DEF CodeInv
  <2>q. QED BY <2>1, <2>2 DEF CodeInv
<1>2. WordInv' BY DEF WordInv
<1>3. ImportInv' BY DEF ImportInv, Defined
<1>4. NameInv' BY DEF NameInv
<1>q. QED BY <1>1, <1>2, <1>3, <1>4

LEMMA NotedTyped ==
  ASSUME TypeInv, NEW fixup \in Fixup, NEW size \in Nat, fixup.kind = "call" => fixup.key \in Called,
         phase = "code", Len(fixups) < FixupCap, code_len + size <= CodeCap,
         fixups' = Append(fixups, fixup), word' = Append(word, 0), code_len' = code_len + size,
         cstrs_len' \in 0 .. CstrCap,
         UNCHANGED <<target, phase, fn_syms, next, import_vars, table_vars, diagnosed>>
  PROVE  TypeInv'
<1>1. /\ code_len \in Nat /\ fixups \in Seq(Fixup) /\ diagnosed \in BOOLEAN /\ target \in Targets
      /\ \A i \in DOMAIN fixups : fixups[i].kind = "call" => fixups[i].key \in Called
  BY Caps DEF TypeInv, CodeInv
<1>2. UNCHANGED <<CodeCap, CstrCap>>
  BY DEF CodeCap, CstrCap, Arm
<1>3. code_len' \in 0 .. CodeCap
  BY <1>1, Caps
<1>4. /\ fixups' \in Seq(Fixup) /\ Len(fixups') = Len(fixups) + 1 /\ Len(fixups') <= FixupCap
      /\ \A i \in DOMAIN fixups' : fixups'[i].kind = "call" => fixups'[i].key \in Called
  BY <1>1, Caps
<1>5. CodeInv'
  BY <1>1, <1>2, <1>3, <1>4 DEF CodeInv
<1>6. WordInv'
  <2>1. word \in Seq({0}) /\ next = 1 /\ DOMAIN word = 1 .. Len(fixups) /\ Len(fixups) \in Nat
    BY <1>1 DEF TypeInv, WordInv
  <2>2. word' \in Seq({0}) /\ DOMAIN word' = 1 .. Len(fixups) + 1
    BY <2>1
  <2>q. QED BY <1>4, <2>1, <2>2 DEF WordInv
<1>7. ImportInv'
  BY DEF TypeInv, ImportInv, Defined
<1>8. NameInv'
  BY DEF TypeInv, NameInv
<1>q. QED BY <1>5, <1>6, <1>7, <1>8 DEF TypeInv

LEMMA ProgramTyped == ASSUME TypeInv, Program PROVE TypeInv'
<1> DEFINE at(opcode) == code_len + (IF Arm THEN 0 ELSE opcode)
           size(opcode) == IF Arm THEN 1 ELSE opcode + 4
<1>0. /\ code_len \in Nat /\ cstrs_len \in 0 .. CstrCap /\ cstrs_len \in Nat
      /\ \A opcode \in Nat : at(opcode) \in Nat /\ size(opcode) \in Nat
  BY Caps DEF TypeInv, CodeInv
<1>1. CASE \E f \in Functions : EmitFunction(f) BY <1>1, FunctionTyped
<1>2. ASSUME NEW f \in Called, emit_fn_call(f) PROVE TypeInv'
  <2> DEFINE fixup == [kind |-> "call", key |-> f, aux |-> 0, site |-> at(1)]
  <2>1. /\ phase = "code" /\ Len(fixups) < FixupCap /\ code_len + size(1) <= CodeCap
        /\ fixups' = Append(fixups, fixup) /\ word' = Append(word, 0) /\ code_len' = code_len + size(1)
        /\ cstrs_len' = cstrs_len
        /\ UNCHANGED <<target, phase, fn_syms, next, import_vars, table_vars, diagnosed>>
    BY <1>2 DEF emit_fn_call, Noted
  <2>2. fixup \in Fixup /\ (fixup.kind = "call" => fixup.key \in Called) /\ size(1) \in Nat
    BY <1>0 DEF Fixup
  <2> HIDE DEF fixup, at, size
  <2>q. QED BY <1>0, <2>1, <2>2, NotedTyped
<1>3. ASSUME emit_string_lit PROVE TypeInv'
  <2> DEFINE fixup == [kind |-> "str", key |-> "", aux |-> cstrs_len, site |-> at(3)]
  <2>1. /\ phase = "code" /\ Len(fixups) < FixupCap /\ code_len + size(3) <= CodeCap
        /\ fixups' = Append(fixups, fixup) /\ word' = Append(word, 0) /\ code_len' = code_len + size(3)
        /\ cstrs_len + 3 <= CstrCap /\ cstrs_len' = cstrs_len + 3
        /\ UNCHANGED <<target, phase, fn_syms, next, import_vars, table_vars, diagnosed>>
    BY <1>3 DEF emit_string_lit, Noted, StringSize
  <2>2. fixup \in Fixup /\ fixup.kind = "str" /\ size(3) \in Nat
    BY <1>0 DEF Fixup
  <2> HIDE DEF fixup, at, size
  <2>3. cstrs_len' \in 0 .. CstrCap
    <3>1. cstrs_len \in Nat /\ cstrs_len' = cstrs_len + 3 /\ cstrs_len + 3 <= CstrCap BY <1>0, <2>1
    <3>q. QED BY <3>1, Caps
  <2>q. QED BY <2>1, <2>2, <2>3, NotedTyped
<1>4. CASE EndCode
  <2> USE <1>4 DEF TypeInv, EndCode
  <2>1. CodeInv' BY DEF CodeInv, CodeCap, CstrCap, Arm
  <2>2. WordInv' BY DEF WordInv
  <2>3. ImportInv' BY DEF ImportInv, Defined
  <2>4. NameInv' BY DEF NameInv
  <2>q. QED BY <2>1, <2>2, <2>3, <2>4
<1>q. QED BY <1>1, <1>2, <1>3, <1>4 DEF Program

LEMMA SiteTyped == ASSUME NEW fx \in Fixup PROVE Site(fx) \in Nat
<1>1. fx.site \in Nat BY DEF Fixup
<1>2. Unit = 1 \/ Unit = 4 BY Caps
<1>q. QED BY <1>1, <1>2 DEF Site

LEMMA EmitTyped == ASSUME TypeInv, bin_emit PROVE TypeInv'
<1>1. /\ phase = "resolve" /\ next <= Len(fixups) /\ next' = next + 1
      /\ UNCHANGED <<target, phase, code_vars, table_vars>>
  BY DEF bin_emit, ResolveString, ResolveCall, ResolveImport, ImportOverflow, Resolving, Resolved
<1>2. CodeInv'
  <2>1. diagnosed' \in BOOLEAN
    BY DEF bin_emit, ResolveString, ResolveCall, ResolveImport, ImportOverflow, Resolved, TypeInv, CodeInv
  <2>q. QED BY <1>1, <2>1 DEF TypeInv, CodeInv, CodeCap, CstrCap, Arm
<1>3. WordInv'
  <2>1. DOMAIN word' = DOMAIN word
    BY DEF bin_emit, ResolveString, ResolveCall, ResolveImport, ImportOverflow, Resolved
  <2>q. QED BY <1>1, <2>1 DEF TypeInv, WordInv, CodeInv
<1>4. ImportInv' /\ Len(imports') >= Len(imports)
  <2>1. CASE UNCHANGED import_vars
    BY <1>1, <2>1 DEF TypeInv, ImportInv, Defined
  <2>2. CASE ResolveImport
    <3> DEFINE f == fixups[next].key
               list == IF Imported(imports, f) THEN imports ELSE Append(imports, f)
               at == CHOOSE k \in DOMAIN list : list[k] = f
               call == [site |-> Site(fixups[next]), fixup |-> next, import |-> at - 1]
    <3>1. imports' = list /\ extcalls' = Append(extcalls, call) /\ ~Defined(f)
      BY <2>2 DEF ResolveImport
    <3>2. next \in DOMAIN fixups /\ f \in Called /\ fixups[next] \in Fixup /\ next \in Nat
      BY <1>1, <2>2 DEF ResolveImport, Resolving, TypeInv, CodeInv, WordInv
    <3>3. /\ list \in Seq(Called) /\ Len(list) <= ImportCap /\ Len(list) >= Len(imports)
          /\ \A i \in DOMAIN list : ~Defined(list[i]) /\ \A j \in 1 .. i - 1 : list[i] # list[j]
          /\ \E k \in DOMAIN list : list[k] = f
      <4>1. CASE Imported(imports, f)
        <5>1. list = imports BY <4>1
        <5> HIDE DEF list, f
        <5>2. \E k \in DOMAIN imports : imports[k] = f BY <4>1 DEF Imported
        <5>3. /\ imports \in Seq(Called) /\ Len(imports) <= ImportCap /\ Len(imports) \in Nat
              /\ \A i \in DOMAIN imports : ~Defined(imports[i]) /\ \A j \in 1 .. i - 1 : imports[i] # imports[j]
          BY DEF TypeInv, ImportInv
        <5>4. Len(imports) >= Len(imports) BY <5>3
        <5>q. QED BY <5>1, <5>2, <5>3, <5>4
      <4>2. CASE ~Imported(imports, f)
        <5>1. Len(imports) < ImportCap /\ Len(imports) \in Nat
          BY <2>2, <4>2, Caps DEF ResolveImport, Full, TypeInv, ImportInv
        <5>2. list = Append(imports, f) /\ imports \in Seq(Called)
          BY <4>2 DEF TypeInv, ImportInv
        <5>3. \A i \in DOMAIN imports : imports[i] # f
          BY <4>2 DEF Imported
        <5> HIDE DEF list, f
        <5>4. /\ list \in Seq(Called) /\ Len(list) = Len(imports) + 1 /\ list[Len(imports) + 1] = f
              /\ \A i \in 1 .. Len(imports) : list[i] = imports[i]
          BY <5>2, <3>2
        <5>5. \A i \in DOMAIN imports : ~Defined(imports[i]) /\ \A j \in 1 .. i - 1 : imports[i] # imports[j]
          BY DEF TypeInv, ImportInv
        <5>6. \A i \in 1 .. Len(list) : ~Defined(list[i]) /\ \A j \in 1 .. i - 1 : list[i] # list[j]
          <6> SUFFICES ASSUME NEW i \in 1 .. Len(list)
                       PROVE  ~Defined(list[i]) /\ \A j \in 1 .. i - 1 : list[i] # list[j]
            OBVIOUS
          <6>1. CASE i = Len(imports) + 1 BY <6>1, <3>1, <5>1, <5>2, <5>3, <5>4
          <6>2. CASE i \in 1 .. Len(imports) BY <6>2, <5>1, <5>2, <5>4, <5>5
          <6>q. QED BY <6>1, <6>2, <5>1, <5>4
        <5>7. Len(imports) + 1 \in DOMAIN list BY <5>1, <5>4
        <5>8. \E k \in DOMAIN list : list[k] = f BY <5>4, <5>7
        <5>9. Len(list) <= ImportCap /\ Len(list) >= Len(imports) BY <5>1, <5>4, Caps
        <5>10. DOMAIN list = 1 .. Len(list) BY <5>4
        <5>q. QED BY <5>4, <5>6, <5>8, <5>9, <5>10
      <4>q. QED BY <4>1, <4>2
    <3>4. at \in 1 .. Len(list) BY <3>3
    <3>5. Site(fixups[next]) \in Nat
      <4> HIDE DEF list, f, at, call
      <4>q. QED BY <3>2, SiteTyped
    <3> HIDE DEF list, f, at
    <3>6. call \in Extcall /\ call.import < Len(list)
      BY <3>2, <3>3, <3>4, <3>5 DEF Extcall
    <3> HIDE DEF call
    <3>7. extcalls' \in Seq(Extcall) /\ \A k \in DOMAIN extcalls' : extcalls'[k].import < Len(imports')
      <4>1. extcalls \in Seq(Extcall) /\ Len(imports) \in Nat /\ Len(list) \in Nat
        BY <3>3 DEF TypeInv, ImportInv
      <4>2. \A k \in DOMAIN extcalls : extcalls[k].import < Len(list)
        <5> SUFFICES ASSUME NEW k \in DOMAIN extcalls PROVE extcalls[k].import < Len(list) OBVIOUS
        <5>1. extcalls[k] \in Extcall BY <4>1
        <5>2. extcalls[k].import \in Nat BY <5>1 DEF Extcall
        <5>3. extcalls[k].import < Len(imports) BY DEF TypeInv, ImportInv
        <5>q. QED BY <5>2, <5>3, <4>1, <3>3
      <4>q. QED BY <4>1, <4>2, <3>1, <3>6
    <3>q. QED BY <1>1, <3>1, <3>3, <3>7 DEF ImportInv, Defined
  <2>q. QED BY <2>1, <2>2 DEF bin_emit, ResolveString, ResolveCall, ImportOverflow, Resolved
<1>5. NameInv'
  BY <1>1, <1>4 DEF TypeInv, NameInv, ImportInv
<1>q. QED BY <1>2, <1>3, <1>4, <1>5 DEF TypeInv

-----------------------------------------------------------------------------
(* The steps of the writers                                                  *)

LEMMA RoundedUp ==
  ASSUME NEW x \in Nat, NEW a \in {2, 4, 8, 16, 512, 4096, 16384}
  PROVE  align_up(x, a) \in Nat /\ x <= align_up(x, a) /\ align_up(x, a) <= x + a - 1
<1>1. CASE a = 2 BY <1>1 DEF align_up
<1>2. CASE a = 4 BY <1>2 DEF align_up
<1>3. CASE a = 8 BY <1>3 DEF align_up
<1>4. CASE a = 16 BY <1>4 DEF align_up
<1>5. CASE a = 512 BY <1>5 DEF align_up
<1>6. CASE a = 4096 BY <1>6 DEF align_up
<1>7. CASE a = 16384 BY <1>7 DEF align_up
<1>q. QED BY <1>1, <1>2, <1>3, <1>4, <1>5, <1>6, <1>7

LEMMA PageRoundedUp ==
  ASSUME NEW x \in Nat
  PROVE  align_up(align_up(x, 16384), 16384) = align_up(x, 16384)
         /\ align_up(align_up(x, 16384) + 16384, 16384) = align_up(x, 16384) + 16384
BY DEF align_up

\* What a step of a writer leaves alone, besides the names.
Settled ==
  /\ phase \in {"resolve", "names", "hash"} /\ phase' \in {"names", "hash", "end"}
  /\ UNCHANGED <<target, code_vars, next, import_vars>>
  /\ DOMAIN word' = DOMAIN word /\ diagnosed' \in BOOLEAN

LEMMA SettledTyped ==
  ASSUME TypeInv, Settled PROVE CodeInv' /\ WordInv' /\ ImportInv'
<1>1. UNCHANGED <<CodeCap, CstrCap>> BY DEF Settled, CodeCap, CstrCap, Arm
<1>2. CodeInv' BY <1>1 DEF Settled, TypeInv, CodeInv
<1>3. WordInv' BY DEF Settled, TypeInv, WordInv
<1>4. ImportInv' BY DEF Settled, TypeInv, ImportInv, Defined
<1>q. QED BY <1>2, <1>3, <1>4

\* The names begin.
LEMMA StartTyped ==
  ASSUME TypeInv, NEW start \in Nat, Settled, phase = "resolve", phase' = "names",
         name_off' = name_off, name_end' = start,
         target = "pe-x86_64" => start >= 56 + 16 * (Len(imports) + 1), target = "macho" => start = 1
  PROVE  TypeInv'
<1>1. name_off = << >> /\ Len(imports) \in Nat /\ UNCHANGED <<target, imports>>
  BY DEF TypeInv, NameInv, ImportInv, Settled
<1>2. NameInv'
  BY <1>1 DEF NameInv
<1>q. QED BY <1>2, SettledTyped DEF TypeInv

\* A name is written.
LEMMA NameTyped ==
  ASSUME TypeInv, NEW size \in Nat \ {0}, Settled, phase = "names", phase' = "names",
         name_off' = Append(name_off, name_end), name_end' = name_end + size,
         Len(name_off) <= Len(imports), target = "macho" => Len(name_off) < Len(imports) /\ size <= 97
  PROVE  TypeInv'
<1>1. /\ name_off \in Seq(Nat) /\ name_end \in Nat /\ Len(name_off) \in Nat /\ Len(imports) \in Nat
      /\ \A i \in DOMAIN name_off : name_off[i] < name_end
      /\ UNCHANGED <<target, imports>>
  BY DEF TypeInv, NameInv, ImportInv, Settled
<1>2. /\ name_off' \in Seq(Nat) /\ Len(name_off') = Len(name_off) + 1 /\ DOMAIN name_off' = 1 .. Len(name_off) + 1
      /\ name_off'[Len(name_off) + 1] = name_end /\ \A i \in 1 .. Len(name_off) : name_off'[i] = name_off[i]
  BY <1>1
<1>3. \A i \in DOMAIN name_off' : name_off'[i] < name_end'
  <2> SUFFICES ASSUME NEW i \in 1 .. Len(name_off) + 1 PROVE name_off'[i] < name_end' BY <1>2
  <2>1. CASE i = Len(name_off) + 1 BY <2>1, <1>1, <1>2
  <2>2. CASE i \in 1 .. Len(name_off)
    <3>1. name_off[i] \in Nat /\ name_off[i] < name_end BY <2>2, <1>1
    <3>q. QED BY <2>2, <3>1, <1>1, <1>2
  <2>q. QED BY <2>1, <2>2, <1>1
<1>4. target = "pe-x86_64" => name_end' >= 56 + 16 * (Len(imports) + 1)
  BY <1>1 DEF TypeInv, NameInv
<1>5. target = "macho" => Len(name_off') <= Len(imports) /\ name_end' <= 1 + 97 * Len(name_off')
  BY <1>1, <1>2 DEF TypeInv, NameInv
<1>6. NameInv'
  BY <1>1, <1>2, <1>3, <1>4, <1>5 DEF NameInv
<1>q. QED BY <1>6, SettledTyped DEF TypeInv

\* The names are done.
LEMMA DoneTyped ==
  ASSUME TypeInv, Settled, phase' \in {"hash", "end"}, UNCHANGED <<name_off, name_end>>,
         phase = "names" /\ target \in {"elf-x86_64", "elf-aarch64"} =>
           IF phase' = "hash" THEN Len(name_off) <= NameMost ELSE diagnosed'
  PROVE  TypeInv'
<1>1. target \in {"elf-x86_64", "elf-aarch64"} /\ (phase' = "hash" \/ (phase' = "end" /\ ~diagnosed'))
        => Len(name_off) <= NameMost
  <2> SUFFICES ASSUME target \in {"elf-x86_64", "elf-aarch64"}, phase' = "hash" \/ (phase' = "end" /\ ~diagnosed')
               PROVE Len(name_off) <= NameMost OBVIOUS
  <2>1. CASE phase = "resolve"
    BY <2>1, Caps DEF TypeInv, NameInv
  <2>2. CASE phase = "names"
    BY <2>2
  <2>3. CASE phase = "hash"
    BY <2>3 DEF TypeInv, NameInv
  <2>q. QED BY <2>1, <2>2, <2>3 DEF Settled
<1>2. NameInv'
  BY <1>1 DEF TypeInv, NameInv, Settled
<1>q. QED BY <1>2, SettledTyped DEF TypeInv

LEMMA ElfTyped == ASSUME TypeInv, ElfWriter!Next PROVE TypeInv'
<1> DEFINE n == Len(imports)
<1>0. /\ n \in Nat /\ imports \in Seq(Called) /\ Len(name_off) \in Nat /\ Len(name_off) <= n + 1
      /\ diagnosed \in BOOLEAN
      /\ phase = "resolve" => name_off = << >>
  BY SMTT(20) DEF TypeInv, CodeInv, ImportInv, NameInv
<1>1. CASE ElfWriter!WriteStatic
  <2>1. Settled /\ phase = "resolve" /\ phase' = "end" /\ UNCHANGED <<name_off, name_end>>
    BY <1>0, <1>1 DEF ElfWriter!WriteStatic, ElfWriter!BinEmitted, ElfWriter!Write, ElfWriter!TooLarge, Settled,
       ElfWriter!code_vars, ElfWriter!import_vars, ElfWriter!table_vars
  <2>q. QED BY <2>1, DoneTyped
<1>2. CASE ElfWriter!StartNames
  <2>1. /\ Settled /\ phase = "resolve" /\ phase' = "names" /\ name_off' = name_off /\ name_end' = 11
        /\ target \in {"elf-x86_64", "elf-aarch64"}
    BY <1>0, <1>2 DEF ElfWriter!StartNames, ElfWriter!BinEmitted, ElfWriter!Elf, ElfWriter!NamesFrom, ElfWriter!Afterwards,
       Settled, ElfWriter!code_vars, ElfWriter!import_vars, ElfWriter!table_vars
  <2>2. 11 \in Nat /\ target # "pe-x86_64" /\ target # "macho" BY <2>1
  <2>q. QED BY <2>1, <2>2, StartTyped
<1>3. CASE ElfWriter!ImportName
  <2> DEFINE name == ElfWriter!ImportNames[Len(name_off) + 1]
             size == Length[name] + 1
  <2>1. /\ Settled /\ phase = "names" /\ phase' = "names" /\ Len(name_off) < n + 1
        /\ name_off' = Append(name_off, name_end) /\ name_end' = name_end + size
        /\ target \in {"elf-x86_64", "elf-aarch64"}
    BY <1>0, <1>3 DEF ElfWriter!ImportName, ElfWriter!Elf, ElfWriter!WriteName, ElfWriter!nimp,
       Settled, ElfWriter!code_vars, ElfWriter!import_vars, ElfWriter!table_vars
  <2>2. name \in Names
    BY <1>0, <2>1 DEF ElfWriter!ImportNames, Names
  <2> HIDE DEF name
  <2>3. size \in Nat \ {0} BY <2>2, NamesAssumption
  <2>4. Len(name_off) <= n /\ target # "macho" BY <1>0, <2>1
  <2> HIDE DEF size
  <2>q. QED BY <2>1, <2>3, <2>4, NameTyped
<1>4. CASE ElfWriter!EndNames
  <2>1. Settled /\ phase' \in {"hash", "end"} /\ UNCHANGED <<name_off, name_end>>
    BY <1>0, <1>4 DEF ElfWriter!EndNames, ElfWriter!TooLarge, Settled,
       ElfWriter!code_vars, ElfWriter!import_vars, ElfWriter!table_vars
  <2>2. IF phase' = "hash" THEN Len(name_off) <= NameMost ELSE diagnosed'
    BY <1>0, <1>4, Caps DEF ElfWriter!EndNames, ElfWriter!TooLarge, ElfWriter!TooManyNames, ElfWriter!nimp
  <2>q. QED BY <2>1, <2>2, DoneTyped
<1>5. CASE ElfWriter!HashSymbol
  <2>1. Settled /\ phase = "hash" /\ phase' = "hash" /\ UNCHANGED <<name_off, name_end>>
    BY <1>0, <1>5 DEF ElfWriter!HashSymbol, Settled, ElfWriter!code_vars, ElfWriter!import_vars, ElfWriter!table_vars
  <2>q. QED BY <2>1, DoneTyped
<1>6. CASE ElfWriter!WriteDynamic
  <2>1. Settled /\ phase = "hash" /\ phase' = "end" /\ UNCHANGED <<name_off, name_end>>
    BY <1>0, <1>6 DEF ElfWriter!WriteDynamic, ElfWriter!Write, ElfWriter!TooLarge, ElfWriter!Patched, Settled,
       ElfWriter!code_vars, ElfWriter!import_vars, ElfWriter!table_vars
  <2>q. QED BY <2>1, DoneTyped
<1>q. QED BY <1>1, <1>2, <1>3, <1>4, <1>5, <1>6 DEF ElfWriter!Next

LEMMA PeTyped == ASSUME TypeInv, PeWriter!Next PROVE TypeInv'
<1> DEFINE n == Len(imports)
<1>0. /\ n \in Nat /\ imports \in Seq(Called) /\ Len(name_off) \in Nat /\ Len(name_off) <= n + 1
      /\ diagnosed \in BOOLEAN
      /\ phase = "resolve" => name_off = << >>
  BY SMTT(30) DEF TypeInv, CodeInv, ImportInv, NameInv
<1>1. CASE PeWriter!StartNames
  <2> DEFINE start == PeWriter!iat_off + PeWriter!iat_size
  <2>1. /\ Settled /\ phase = "resolve" /\ phase' = "names" /\ name_off' = name_off /\ name_end' = start
        /\ target = "pe-x86_64"
    BY <1>0, <1>1 DEF PeWriter!StartNames, PeWriter!BinEmitted, PeWriter!Pe, PeWriter!NamesFrom, PeWriter!Afterwards,
       Settled, PeWriter!code_vars, PeWriter!import_vars, PeWriter!table_vars
  <2>2. start = 56 + 16 * (n + 1)
    BY <1>0 DEF PeWriter!iat_off, PeWriter!iat_size, PeWriter!ilt_off, PeWriter!ilt_size, PeWriter!desc_size,
       PeWriter!nimp, PeWriter!PE_THUNK_ENTRY
  <2> HIDE DEF start
  <2>3. start \in Nat /\ start >= 56 + 16 * (n + 1) /\ target # "macho" BY <1>0, <2>1, <2>2
  <2>q. QED BY <2>1, <2>3, StartTyped
<1>2. CASE PeWriter!ImportName
  <2> DEFINE name == PeWriter!pe_import_name(Len(name_off))
             bytes == 2 + Length[name] + 1
             size == align_up(bytes, 2)
  <2>1. /\ Settled /\ phase = "names" /\ phase' = "names" /\ Len(name_off) < n + 1
        /\ name_off' = Append(name_off, name_end) /\ name_end' = name_end + size
        /\ target = "pe-x86_64"
    BY <1>0, <1>2 DEF PeWriter!ImportName, PeWriter!Pe, PeWriter!WriteName, PeWriter!nimp, align_up, PeWriter!align_up,
       Settled, PeWriter!code_vars, PeWriter!import_vars, PeWriter!table_vars
  <2>2. name \in Names
    <3>1. CASE Len(name_off) = n
      BY <3>1 DEF PeWriter!pe_import_name, PeWriter!exit_idx, Names
    <3>2. CASE Len(name_off) # n
      <4>1. imports[Len(name_off) + 1] \in Called BY <1>0, <2>1, <3>2
      <4>q. QED BY <3>2, <4>1 DEF PeWriter!pe_import_name, PeWriter!pe_export_name, PeWriter!exit_idx, Names
    <3>q. QED BY <3>1, <3>2
  <2> HIDE DEF name
  <2>3. bytes \in Nat /\ bytes > 0 BY <2>2, NamesAssumption
  <2> HIDE DEF bytes
  <2>4. size \in Nat \ {0} BY <2>3, RoundedUp
  <2>5. Len(name_off) <= n /\ target # "macho" BY <1>0, <2>1
  <2> HIDE DEF size
  <2>q. QED BY <2>1, <2>4, <2>5, NameTyped
<1>3. CASE PeWriter!WritePe
  <2>1. Settled /\ phase' = "end" /\ UNCHANGED <<name_off, name_end>>
    BY <1>0, <1>3 DEF PeWriter!WritePe, PeWriter!Write, PeWriter!TooLarge, PeWriter!Patched, Settled,
       PeWriter!code_vars, PeWriter!import_vars, PeWriter!table_vars
  <2>2. target \notin {"elf-x86_64", "elf-aarch64"}
    BY <1>3 DEF PeWriter!WritePe, PeWriter!Pe
  <2>q. QED BY <2>1, <2>2, DoneTyped
<1>q. QED BY <1>1, <1>2, <1>3 DEF PeWriter!Next

LEMMA MachOTyped == ASSUME TypeInv, MachOWriter!Next PROVE TypeInv'
<1> DEFINE n == Len(imports)
<1>0. /\ n \in Nat /\ imports \in Seq(Called) /\ Len(name_off) \in Nat /\ Len(name_off) <= n + 1
      /\ diagnosed \in BOOLEAN
      /\ phase = "resolve" => name_off = << >>
  BY SMTT(30) DEF TypeInv, CodeInv, ImportInv, NameInv
<1>1. CASE MachOWriter!StartNames
  <2>1. /\ Settled /\ phase = "resolve" /\ phase' = "names" /\ name_off' = name_off /\ name_end' = 1
        /\ target # "pe-x86_64"
    BY <1>0, <1>1 DEF MachOWriter!StartNames, MachOWriter!BinEmitted, MachOWriter!MachO, MachOWriter!NamesFrom,
       MachOWriter!Afterwards, Settled, MachOWriter!code_vars, MachOWriter!import_vars, MachOWriter!table_vars
  <2>2. 1 \in Nat OBVIOUS
  <2>q. QED BY <2>1, <2>2, StartTyped
<1>2. CASE MachOWriter!ImportName
  <2> DEFINE name == imports[Len(name_off) + 1]
             size == Length[name] + 2
  <2>1. /\ Settled /\ phase = "names" /\ phase' = "names" /\ Len(name_off) < n
        /\ name_off' = Append(name_off, name_end) /\ name_end' = name_end + size
    BY <1>0, <1>2 DEF MachOWriter!ImportName, MachOWriter!MachO, MachOWriter!WriteName, MachOWriter!n_imp,
       Settled, MachOWriter!code_vars, MachOWriter!import_vars, MachOWriter!table_vars
  <2>2. name \in Names
    BY <1>0, <2>1 DEF Names
  <2> HIDE DEF name
  <2>3. size \in Nat \ {0} /\ size <= 97 BY <2>2, NamesAssumption
  <2>4. Len(name_off) <= n BY <1>0, <2>1
  <2> HIDE DEF size
  <2>q. QED BY <2>1, <2>3, <2>4, NameTyped
<1>3. CASE MachOWriter!WriteMachO
  <2>1. Settled /\ phase' = "end" /\ UNCHANGED <<name_off, name_end>>
    BY <1>0, <1>3 DEF MachOWriter!WriteMachO, MachOWriter!Write, MachOWriter!Patched, Settled,
       MachOWriter!code_vars, MachOWriter!import_vars, MachOWriter!table_vars
  <2>2. target \notin {"elf-x86_64", "elf-aarch64"}
    BY <1>3 DEF MachOWriter!WriteMachO, MachOWriter!MachO
  <2>q. QED BY <2>1, <2>2, DoneTyped
<1>q. QED BY <1>1, <1>2, <1>3 DEF MachOWriter!Next

LEMMA TypeInductive == TypeInv /\ [Next]_vars => TypeInv'
<1> SUFFICES ASSUME TypeInv, [Next]_vars PROVE TypeInv' OBVIOUS
<1>1. CASE UNCHANGED vars
  <2>1. UNCHANGED <<CodeCap, CstrCap>> BY <1>1 DEF CodeCap, CstrCap, Arm
  <2>2. CodeInv' BY <1>1, <2>1 DEF TypeInv, CodeInv
  <2>3. WordInv' BY <1>1 DEF TypeInv, WordInv
  <2>4. ImportInv' BY <1>1 DEF TypeInv, ImportInv, Defined
  <2>5. NameInv' BY <1>1 DEF TypeInv, NameInv
  <2>q. QED BY <2>2, <2>3, <2>4, <2>5 DEF TypeInv
<1>2. CASE Next
  BY <1>2, ProgramTyped, EmitTyped, ElfTyped, PeTyped, MachOTyped DEF Next
<1>q. QED BY <1>1, <1>2

LEMMA TypeInvOK == TypeInv => TypeOK
<1> SUFFICES ASSUME TypeInv PROVE TypeOK OBVIOUS
<1>1. /\ target \in Targets /\ phase \in {"code", "resolve", "names", "hash", "end"} /\ diagnosed \in BOOLEAN
      /\ code_len \in 0 .. CodeCap /\ cstrs_len \in 0 .. CstrCap
      /\ Len(fixups) \in 0 .. FixupCap /\ DOMAIN fixups = 1 .. Len(fixups)
  BY Caps DEF TypeInv, CodeInv
<1>2. DOMAIN word = DOMAIN fixups /\ next \in 1 .. Len(fixups) + 1
  BY <1>1 DEF TypeInv, WordInv
<1>3. /\ imports \in Seq(Called) /\ Len(imports) \in 0 .. ImportCap
      /\ \A i \in DOMAIN imports : ~Defined(imports[i]) /\ \A j \in 1 .. i - 1 : imports[i] # imports[j]
  BY Caps DEF TypeInv, ImportInv
<1>4. \A i \in DOMAIN imports : imports[i] \in Called
  BY <1>3
<1>5. \A k \in DOMAIN extcalls : extcalls[k].import \in 0 .. Len(imports) - 1
  <2> SUFFICES ASSUME NEW k \in DOMAIN extcalls PROVE extcalls[k].import \in 0 .. Len(imports) - 1 OBVIOUS
  <2>1. extcalls[k] \in Extcall /\ extcalls[k].import < Len(imports) BY DEF TypeInv, ImportInv
  <2>q. QED BY <1>3, <2>1 DEF Extcall
<1>6. name_end \in Nat /\ \A i \in DOMAIN name_off : name_off[i] < name_end
  BY DEF TypeInv, NameInv
<1>7. ElfWriter!Overrun => phase = "names" \/ (phase = "end" /\ diagnosed)
  <2> SUFFICES ASSUME ElfWriter!Overrun, phase # "names", ~(phase = "end" /\ diagnosed) PROVE FALSE OBVIOUS
  <2>1. /\ target \in {"elf-x86_64", "elf-aarch64"} /\ Len(name_off) > NameCap /\ Len(name_off) \in Nat
    BY DEF ElfWriter!Overrun, ElfWriter!Elf, TypeInv, NameInv
  <2>2. CASE phase \in {"code", "resolve"}
    BY <2>1, <2>2, Caps DEF TypeInv, NameInv
  <2>3. CASE phase \in {"hash", "end"}
    BY <2>1, <2>3, Caps DEF TypeInv, NameInv
  <2>q. QED BY <1>1, <2>2, <2>3
<1>q. QED BY <1>1, <1>2, <1>3, <1>4, <1>5, <1>6, <1>7 DEF TypeOK

\* Fixups, code, strings and imports stay within the limits of their tables and
\* what refers to an import refers to one that bin_emit has noted, for every
\* program and every limit of the tables.  Names may overrun sym_name_off, also
\* by one where it has as many places as there may be imports; then the writer
\* makes no hash table and no file of them, and an error is reported.
THEOREM TablesBounded == Spec => []TypeOK
<1>1. Init => TypeInv BY InitTyped
<1>2. TypeInv /\ [Next]_vars => TypeInv' BY TypeInductive
<1>3. TypeInv => TypeOK BY TypeInvOK
<1>q. QED BY <1>1, <1>2, <1>3, PTL DEF Spec

-----------------------------------------------------------------------------
(* The layouts.  Apart says of any file what PartsApart says of the one that *)
(* is written.                                                               *)

Apart(f) ==
  LET ps == f.parts
      segs == f.segments
      End(p) == p.at + p.n
  IN /\ \A i \in 1 .. Len(ps) - 1 : End(ps[i]) <= ps[i + 1].at
     /\ \A i \in DOMAIN ps : End(ps[i]) <= f.size
     /\ f.size <= f.room
     /\ \A i \in 1 .. f.loaded : \E s \in DOMAIN segs :
          segs[s].off <= ps[i].at /\ End(ps[i]) <= segs[s].off + segs[s].filesz
     /\ \A s \in DOMAIN segs :
          segs[s].filesz <= segs[s].memsz /\ segs[s].off + segs[s].filesz <= f.size
     /\ \A s \in 1 .. Len(segs) - 1 :
          align_up(segs[s].addr + segs[s].memsz, f.page) <= segs[s + 1].addr

LEMMA SizesTyped ==
  ASSUME TypeInv
  PROVE  /\ text_size \in Nat /\ name_end \in Nat /\ Len(imports) \in Nat /\ Len(imports) <= 64
         /\ target = "macho" => text_size <= 36864
<1>0. name_end \in Nat BY DEF TypeInv, NameInv
<1>1. Len(imports) \in Nat /\ Len(imports) <= 64
  <2>1. imports \in Seq(Called) /\ Len(imports) <= ImportCap BY DEF TypeInv, ImportInv
  <2>q. QED BY SMTT(20), <2>1, CapsAssumption
<1>2. code_len \in 0 .. CodeCap /\ cstrs_len \in 0 .. CstrCap
  BY DEF TypeInv, CodeInv
<1>3. CASE Arm
  BY <1>0, <1>1, <1>2, <1>3 DEF CodeCap, CstrCap, text_size, code_bytes, Unit
<1>4. CASE ~Arm
  BY <1>0, <1>1, <1>2, <1>4 DEF CodeCap, CstrCap, text_size, code_bytes, Unit, Arm
<1>q. QED BY <1>3, <1>4

LEMMA StaticApart ==
  ASSUME TypeInv, ~(ElfWriter!StaticFile.size > ElfWriter!ImgSize)
  PROVE  Apart(ElfWriter!StaticFile)
<1> DEFINE F == ElfWriter!StaticFile
           P == F.parts
           stub == ElfWriter!elf_start_stub_size
           image == ElfWriter!static_image_size
           shdr == ElfWriter!static_shdr_off
<1>1. stub \in {12, 14} /\ ElfWriter!text_size = text_size /\ text_size \in Nat
  BY SizesTyped DEF ElfWriter!elf_start_stub_size, ElfWriter!text_size, text_size,
     ElfWriter!code_bytes, code_bytes, ElfWriter!Unit, Unit, ElfWriter!Arm, Arm
<1>2. image = 120 + stub + text_size
  BY <1>1 DEF ElfWriter!static_image_size, ElfWriter!static_text_off, ElfWriter!static_stub_off
<1>3. shdr \in Nat /\ image + 17 <= shdr
  BY <1>1, <1>2, RoundedUp DEF ElfWriter!static_shdr_off, ElfWriter!align_up, align_up
<1> DEFINE base == ElfWriter!LOAD_BASE
<1>4. /\ P = <<[at |-> 0, n |-> 120], [at |-> 120, n |-> stub], [at |-> 120 + stub, n |-> text_size],
                [at |-> image, n |-> 17], [at |-> shdr, n |-> 192]>>
      /\ F.loaded = 3 /\ F.size = shdr + 192 /\ F.room = ElfWriter!ImgSize
      /\ F.segments = <<[off |-> 0, filesz |-> image, addr |-> base, memsz |-> image]>>
  BY <1>1 DEF ElfWriter!StaticFile, ElfWriter!static_parts, ElfWriter!Part, ElfWriter!Segment,
     ElfWriter!static_text_off, ElfWriter!static_stub_off
<1> HIDE DEF F, stub, image, shdr, base
<1>5. F.size <= F.room
  <2>1. ElfWriter!ImgSize \in Nat BY SMT DEF ElfWriter!ImgSize
  <2>q. QED BY <1>3, <1>4, <2>1 DEF F
<1>q. QED BY <1>1, <1>2, <1>3, <1>4, <1>5 DEF Apart, F

LEMMA DynamicApart ==
  ASSUME TypeInv, ~(ElfWriter!DynamicFile.size > ElfWriter!ImgSize)
  PROVE  Apart(ElfWriter!DynamicFile)
<1> DEFINE F == ElfWriter!DynamicFile
           P == F.parts
           base == ElfWriter!LOAD_BASE
           n == ElfWriter!nimp
           interp == ElfWriter!elf_interp_size
           start == ElfWriter!elf_dyn_start_stub_size
           plt0 == ElfWriter!elf_plt0_size
           dynsym == ElfWriter!dynsym_off
           dynstr == ElfWriter!dynstr_off
           hash == ElfWriter!hash_off
           rela == ElfWriter!rela_off
           stub == ElfWriter!stub_off
           text == ElfWriter!text_off
           ro == ElfWriter!ro_filesz
           dyn == ElfWriter!dynamic_off
           image == ElfWriter!image_size
           shdr == ElfWriter!shdr_off
<1>1. /\ n \in Nat /\ name_end \in Nat /\ text_size \in Nat
      /\ interp \in {27, 28} /\ start \in {8, 12} /\ plt0 \in {16, 32}
  BY SizesTyped DEF ElfWriter!nimp, ElfWriter!elf_interp_size, ElfWriter!elf_dyn_start_stub_size, ElfWriter!elf_plt0_size
<1>0. base = 4096 * 1024
  BY SMT DEF ElfWriter!LOAD_BASE
<1> HIDE DEF base
<1>2. ElfWriter!text_size = text_size
  BY DEF ElfWriter!text_size, text_size, ElfWriter!code_bytes, code_bytes, ElfWriter!Unit, Unit, ElfWriter!Arm, Arm
<1>3. \A x, a : ElfWriter!align_up(x, a) = align_up(x, a)
  BY DEF ElfWriter!align_up, align_up
<1>4. dynsym \in Nat /\ 344 + interp <= dynsym
  <2>1. 344 + interp \in Nat BY <1>1
  <2>q. QED BY <1>3, <2>1, RoundedUp DEF ElfWriter!dynsym_off, ElfWriter!interp_off
<1>5. dynstr = dynsym + (n + 1) * 24
  BY DEF ElfWriter!dynstr_off, ElfWriter!nsym
<1>6. hash \in Nat /\ dynstr + name_end <= hash
  <2>1. dynstr + name_end \in Nat BY <1>1, <1>4, <1>5
  <2>q. QED BY <1>3, <2>1, RoundedUp DEF ElfWriter!hash_off
<1>7. rela \in Nat /\ hash + (2 + n + (n + 1)) * 4 <= rela
  <2>1. hash + (2 + n + (n + 1)) * 4 \in Nat BY <1>1, <1>6
  <2>q. QED BY <1>3, <2>1, RoundedUp DEF ElfWriter!rela_off, ElfWriter!hash_size, ElfWriter!nsym
<1>8. stub \in Nat /\ rela + n * 24 <= stub
  <2>1. rela + n * 24 \in Nat BY <1>1, <1>7
  <2>q. QED BY <1>3, <2>1, RoundedUp DEF ElfWriter!stub_off, ElfWriter!rela_size
<1>9. text \in Nat /\ stub + start + (plt0 + n * 16) <= text
  <2>1. stub + start + (plt0 + n * 16) \in Nat BY <1>1, <1>8
  <2>q. QED BY <1>3, <2>1, RoundedUp
        DEF ElfWriter!text_off, ElfWriter!plt_off, ElfWriter!plt_size, ElfWriter!elf_plt_entry_size
<1>10. ro = text + text_size /\ ro \in Nat
  BY <1>1, <1>2, <1>9 DEF ElfWriter!ro_filesz
<1>11. dyn \in Nat /\ ro <= dyn /\ align_up(base + ro, 4096) = base + dyn
  <2>1. dyn = align_up(ro, 4096) BY <1>3 DEF ElfWriter!dynamic_off, ElfWriter!PAGE
  <2>2. dyn \in Nat /\ ro <= dyn BY <1>10, <2>1, RoundedUp
  <2>3. align_up(base + ro, 4096) = base + align_up(ro, 4096) BY <1>0, <1>10 DEF align_up
  <2>q. QED BY <2>1, <2>2, <2>3
<1>12. image = dyn + 176 + (3 + n) * 8 /\ image \in Nat
  BY <1>1, <1>11 DEF ElfWriter!image_size, ElfWriter!got_off, ElfWriter!GOT_RESERVED
<1>13. shdr \in Nat /\ image + 22 <= shdr
  <2>1. image + 22 \in Nat BY <1>12
  <2>q. QED BY <1>3, <2>1, RoundedUp DEF ElfWriter!shdr_off
<1>14. P = <<[at |-> 0, n |-> 344], [at |-> 344, n |-> interp], [at |-> dynsym, n |-> (n + 1) * 24],
             [at |-> dynstr, n |-> name_end], [at |-> hash, n |-> (2 + n + (n + 1)) * 4], [at |-> rela, n |-> n * 24],
             [at |-> stub, n |-> start], [at |-> stub + start, n |-> plt0 + n * 16], [at |-> text, n |-> text_size],
             [at |-> dyn, n |-> 176], [at |-> dyn + 176, n |-> (3 + n) * 8], [at |-> image, n |-> 22],
             [at |-> shdr, n |-> 256]>>
  BY <1>2 DEF ElfWriter!DynamicFile, ElfWriter!parts, ElfWriter!Part, ElfWriter!interp_off, ElfWriter!nsym,
     ElfWriter!plt_off, ElfWriter!elf_plt_entry_size, ElfWriter!got_off, ElfWriter!GOT_RESERVED
<1>15. /\ F.loaded = 11 /\ F.size = shdr + 256 /\ F.room = ElfWriter!ImgSize /\ F.page = 4096
       /\ F.segments = <<[off |-> 0, filesz |-> ro, addr |-> base, memsz |-> ro],
                         [off |-> dyn, filesz |-> image - dyn, addr |-> base + dyn, memsz |-> image - dyn]>>
  BY DEF ElfWriter!DynamicFile, ElfWriter!segments, ElfWriter!Segment, ElfWriter!PAGE, base
<1> HIDE DEF F, n, interp, start, plt0, dynsym, dynstr, hash, rela, stub, text, ro, dyn, image, shdr
<1> DEFINE End(i) == P[i].at + P[i].n
<1> HIDE DEF base
<1>16. Len(P) = 13 /\ DOMAIN P = 1 .. 13
  BY <1>14
<1>17. /\ \A i \in 1 .. 13 : P[i].at \in Nat /\ P[i].n \in Nat
       /\ \A i \in 1 .. 12 : End(i) <= P[i + 1].at
  <2>1. /\ End(1) <= P[2].at /\ End(2) <= P[3].at /\ End(3) <= P[4].at /\ End(4) <= P[5].at
        /\ End(5) <= P[6].at /\ End(6) <= P[7].at /\ End(7) <= P[8].at /\ End(8) <= P[9].at
    BY <1>1, <1>4, <1>5, <1>6, <1>7, <1>8, <1>9, <1>14
  <2>2. End(9) <= P[10].at /\ End(10) <= P[11].at /\ End(11) <= P[12].at /\ End(12) <= P[13].at
    BY <1>1, <1>10, <1>11, <1>12, <1>13, <1>14
  <2>3. \A i \in 1 .. 13 : P[i].at \in Nat /\ P[i].n \in Nat
    BY <1>1, <1>4, <1>5, <1>6, <1>7, <1>8, <1>9, <1>10, <1>11, <1>12, <1>13, <1>14
  <2> HIDE DEF P
  <2>q. QED BY <2>1, <2>2, <2>3
<1>18. \A i \in 1 .. 13 : End(i) <= F.size
  BY <1>1, <1>4, <1>5, <1>6, <1>7, <1>8, <1>9, <1>10, <1>11, <1>12, <1>13, <1>14, <1>15
<1>19. (\A i \in 1 .. 9 : End(i) <= ro) /\ (\A i \in 10 .. 11 : P[i].at >= dyn /\ End(i) <= image)
  BY <1>1, <1>4, <1>5, <1>6, <1>7, <1>8, <1>9, <1>10, <1>11, <1>12, <1>14
<1> HIDE DEF P
<1>20. \A i \in 1 .. F.loaded : \E s \in DOMAIN F.segments :
         F.segments[s].off <= P[i].at /\ End(i) <= F.segments[s].off + F.segments[s].filesz
  <2> SUFFICES ASSUME NEW i \in 1 .. 11
               PROVE  \E s \in {1, 2} : F.segments[s].off <= P[i].at /\ End(i) <= F.segments[s].off + F.segments[s].filesz
    BY <1>15
  <2>1. CASE i \in 1 .. 9 BY <2>1, <1>10, <1>15, <1>17, <1>19
  <2>2. CASE i \in 10 .. 11 BY <2>2, <1>11, <1>12, <1>15, <1>17, <1>19
  <2>q. QED BY <2>1, <2>2
<1>21. /\ \A s \in DOMAIN F.segments :
            F.segments[s].filesz <= F.segments[s].memsz /\ F.segments[s].off + F.segments[s].filesz <= F.size
       /\ \A s \in 1 .. Len(F.segments) - 1 :
            align_up(F.segments[s].addr + F.segments[s].memsz, F.page) <= F.segments[s + 1].addr
  BY <1>0, <1>1, <1>10, <1>11, <1>12, <1>13, <1>15
<1>22. F.size <= F.room
  <2>1. ElfWriter!ImgSize \in Nat BY SMT DEF ElfWriter!ImgSize
  <2>q. QED BY <1>13, <1>15, <2>1 DEF F
<1>23. /\ \A i \in 1 .. Len(P) - 1 : P[i].at + P[i].n <= P[i + 1].at
       /\ \A i \in DOMAIN P : P[i].at + P[i].n <= F.size
  BY <1>16, <1>17, <1>18
<1>q. QED BY ZenonT(30), <1>20, <1>21, <1>22, <1>23 DEF Apart, F, P

LEMMA PeApart ==
  ASSUME TypeInv, phase = "names", target = "pe-x86_64", ~(PeWriter!total_file > PeWriter!ImgSize)
  PROVE  Apart(PeWriter!PeExecutable)
<1> DEFINE F == PeWriter!PeExecutable
           P == F.parts
           End(i) == P[i].at + P[i].n
           n == PeWriter!nimp
           names == 56 + 16 * n
           code == 4096 + 16 + n * 6
           vsize == 16 + n * 6 + text_size
           raw == PeWriter!text_raw_size
           data == PeWriter!idata_raw_ptr
           idata == PeWriter!idata_va
           total == PeWriter!total_file
<1>1. n \in Nat /\ name_end \in Nat /\ text_size \in Nat /\ names <= name_end /\ Len(imports) \in Nat
  BY SizesTyped DEF PeWriter!nimp, TypeInv, NameInv
<1>2. PeWriter!text_size = text_size /\ \A x, a : PeWriter!align_up(x, a) = align_up(x, a)
  BY DEF PeWriter!text_size, text_size, PeWriter!code_bytes, code_bytes, PeWriter!Unit, Unit, PeWriter!Arm, Arm,
     PeWriter!align_up, align_up
<1>3. PeWriter!size_of_headers = 512
  BY DEF PeWriter!size_of_headers, PeWriter!align_up, PeWriter!PE_FILE_ALIGN
<1>4. PeWriter!code_rva = code /\ PeWriter!thunks_rva = 4112 /\ PeWriter!text_va = 4096 /\ PeWriter!text_vsize = vsize
  BY <1>1, <1>2 DEF PeWriter!code_rva, PeWriter!thunks_rva, PeWriter!text_va, PeWriter!text_vsize,
     PeWriter!PE_SECTION_ALIGN, PeWriter!pe_entry_stub_size, PeWriter!pe_thunk_size
<1>5. raw \in Nat /\ vsize <= raw
  <2>1. vsize \in Nat BY <1>1
  <2>q. QED BY <1>2, <1>4, <2>1, RoundedUp DEF PeWriter!text_raw_size, PeWriter!PE_FILE_ALIGN
<1>6. data = 512 + raw
  BY <1>3 DEF PeWriter!idata_raw_ptr, PeWriter!text_raw_ptr
<1>7. idata \in Nat /\ idata = align_up(4096 + vsize, 4096)
  <2>1. 4096 + vsize \in Nat BY <1>1
  <2>q. QED BY <1>2, <1>4, <2>1, RoundedUp DEF PeWriter!idata_va, PeWriter!PE_SECTION_ALIGN
<1>8. total \in Nat /\ data + name_end + 11 <= total
  <2>1. name_end + 11 \in Nat BY <1>1
  <2>2. align_up(name_end + 11, 512) \in Nat /\ name_end + 11 <= align_up(name_end + 11, 512) BY <2>1, RoundedUp
  <2>3. total = data + align_up(name_end + 11, 512)
    BY <1>2 DEF PeWriter!total_file, PeWriter!idata_raw_size, PeWriter!PE_FILE_ALIGN, PeWriter!idata_vsize, PeWriter!dllname_off
  <2>q. QED BY <1>1, <1>5, <1>6, <2>2, <2>3
<1>9. /\ PeWriter!desc_size = 40 /\ PeWriter!ilt_off = 40 /\ PeWriter!ilt_size = 8 * n + 8
      /\ PeWriter!iat_off = 48 + 8 * n /\ PeWriter!iat_size = 8 * n + 8 /\ PeWriter!text_raw_ptr = 512
      /\ PeWriter!iat_off + PeWriter!iat_size = names
  BY <1>1, <1>3 DEF PeWriter!desc_size, PeWriter!ilt_off, PeWriter!ilt_size, PeWriter!iat_off, PeWriter!iat_size,
     PeWriter!PE_THUNK_ENTRY, PeWriter!text_raw_ptr
<1>10. P = <<[at |-> 0, n |-> 408], [at |-> 512, n |-> 16], [at |-> 528, n |-> n * 6],
             [at |-> 528 + n * 6, n |-> text_size], [at |-> data, n |-> 40],
             [at |-> data + 40, n |-> 8 * n + 8], [at |-> data + (48 + 8 * n), n |-> 8 * n + 8],
             [at |-> data + names, n |-> name_end - names], [at |-> data + name_end, n |-> 11]>>
  <2>1. P = PeWriter!parts BY DEF PeWriter!PeExecutable
  <2>2. /\ PeWriter!Text(4112) = 528 /\ PeWriter!Text(code) = 528 + n * 6
        /\ \A off : PeWriter!Idata(off) = data + off
    BY <1>1, <1>4, <1>9 DEF PeWriter!Text, PeWriter!Idata
  <2>3. P = <<PeWriter!Part(0, 408), PeWriter!Part(512, 16), PeWriter!Part(PeWriter!Text(4112), n * 6),
              PeWriter!Part(PeWriter!Text(code), text_size), PeWriter!Part(data, 40),
              PeWriter!Part(PeWriter!Idata(40), 8 * n + 8), PeWriter!Part(PeWriter!Idata(48 + 8 * n), 8 * n + 8),
              PeWriter!Part(PeWriter!Idata(names), name_end - names), PeWriter!Part(PeWriter!Idata(name_end), 11)>>
    BY <1>2, <1>4, <1>9, <2>1
       DEF PeWriter!parts, PeWriter!pe_entry_stub_size, PeWriter!pe_thunk_size, PeWriter!dllname_off
  <2>q. QED BY <2>2, <2>3 DEF PeWriter!Part
<1>11. /\ F.loaded = 9 /\ F.size = total /\ F.room = PeWriter!ImgSize /\ F.page = 4096
       /\ F.segments = <<[off |-> 0, filesz |-> 512, addr |-> 0, memsz |-> 512],
                         [off |-> 512, filesz |-> vsize, addr |-> 4096, memsz |-> vsize],
                         [off |-> data, filesz |-> name_end + 11, addr |-> idata, memsz |-> name_end + 11]>>
  <2>1. Len(PeWriter!parts) = 9 BY DEF PeWriter!parts
  <2>q. QED BY <1>3, <1>4, <1>9, <2>1
        DEF PeWriter!PeExecutable, PeWriter!segments, PeWriter!Segment, PeWriter!PE_SECTION_ALIGN, PeWriter!idata_vsize,
            PeWriter!dllname_off
<1> HIDE DEF P, n, raw, data, idata, total, F
<1> DEFINE rest == name_end - names
<1>a. /\ names \in Nat /\ names = 56 + 16 * n /\ rest \in Nat /\ names + rest = name_end
      /\ vsize \in Nat /\ vsize = 16 + n * 6 + text_size
      /\ data \in Nat /\ data = 512 + raw
  BY <1>1, <1>5, <1>6
<1> HIDE DEF names, code, vsize
<1>b. /\ Len(P) = 9 /\ DOMAIN P = 1 .. 9
      /\ P[1].at = 0 /\ P[1].n = 408 /\ P[2].at = 512 /\ P[2].n = 16
      /\ P[3].at = 528 /\ P[3].n = n * 6 /\ P[4].at = 528 + n * 6 /\ P[4].n = text_size
      /\ P[5].at = data /\ P[5].n = 40 /\ P[6].at = data + 40 /\ P[6].n = 8 * n + 8
      /\ P[7].at = data + (48 + 8 * n) /\ P[7].n = 8 * n + 8
      /\ P[8].at = data + names /\ P[8].n = rest /\ P[9].at = data + name_end /\ P[9].n = 11
  BY <1>10
<1> HIDE DEF rest
<1>12. /\ \A i \in 1 .. 9 : P[i].at \in Nat /\ P[i].n \in Nat /\ End(i) <= total
       /\ \A i \in 1 .. 8 : End(i) <= P[i + 1].at
       /\ Len(P) = 9 /\ DOMAIN P = 1 .. 9
  <2>0. Len(P) = 9 /\ DOMAIN P = 1 .. 9 BY <1>b
  <2>1. /\ End(1) <= P[2].at /\ End(2) <= P[3].at /\ End(3) <= P[4].at /\ End(4) <= P[5].at
        /\ End(5) <= P[6].at /\ End(6) <= P[7].at /\ End(7) <= P[8].at /\ End(8) <= P[9].at
    BY <1>1, <1>5, <1>a, <1>b
  <2>2. \A i \in 1 .. 9 : P[i].at \in Nat /\ P[i].n \in Nat
    <3>1. /\ n * 6 \in Nat /\ 528 + n * 6 \in Nat /\ data + 40 \in Nat /\ 8 * n + 8 \in Nat
          /\ data + (48 + 8 * n) \in Nat /\ data + names \in Nat /\ data + name_end \in Nat
      BY <1>1, <1>a
    <3>2. /\ P[1].at \in Nat /\ P[1].n \in Nat /\ P[2].at \in Nat /\ P[2].n \in Nat /\ P[3].at \in Nat /\ P[3].n \in Nat
          /\ P[4].at \in Nat /\ P[4].n \in Nat /\ P[5].at \in Nat /\ P[5].n \in Nat /\ P[6].at \in Nat /\ P[6].n \in Nat
          /\ P[7].at \in Nat /\ P[7].n \in Nat /\ P[8].at \in Nat /\ P[8].n \in Nat /\ P[9].at \in Nat /\ P[9].n \in Nat
      BY <1>1, <1>a, <1>b, <3>1
    <3>q. QED BY <3>2
  <2>3. \A i \in 1 .. 9 : End(i) <= total
    <3>1. End(9) <= total BY <1>1, <1>8, <1>a, <1>b
    <3>2. \A i \in 1 .. 9 : End(i) \in Nat BY <2>2
    <3> HIDE DEF End
    <3>3. \A i \in 1 .. 8 : End(i) <= End(i + 1)
      <4> SUFFICES ASSUME NEW i \in 1 .. 8 PROVE End(i) <= End(i + 1) OBVIOUS
      <4>1. P[i + 1].at \in Nat /\ P[i + 1].n \in Nat /\ End(i) \in Nat BY <2>2, <3>2
      <4>2. End(i) <= P[i + 1].at BY <2>1
      <4>q. QED BY <4>1, <4>2 DEF End
    <3>q. QED BY <1>8, <3>1, <3>2, <3>3
  <2> HIDE DEF End
  <2>q. QED BY <2>0, <2>1, <2>2, <2>3
<1>13. /\ End(1) <= 512
       /\ \A i \in 2 .. 4 : P[i].at >= 512 /\ End(i) <= 512 + vsize
       /\ \A i \in 5 .. 9 : P[i].at >= data /\ End(i) <= data + (name_end + 11)
  <2>1. End(1) <= 512 BY <1>b
  <2>2. /\ P[2].at >= 512 /\ P[3].at >= 512 /\ P[4].at >= 512
        /\ End(2) <= 512 + vsize /\ End(3) <= 512 + vsize /\ End(4) <= 512 + vsize
    BY <1>1, <1>a, <1>b
  <2>3. /\ data >= data /\ data + 40 >= data /\ data + (48 + 8 * n) >= data /\ data + names >= data /\ data + name_end >= data
        /\ data + 40 <= data + (name_end + 11)
        /\ (data + 40) + (8 * n + 8) <= data + (name_end + 11)
        /\ (data + (48 + 8 * n)) + (8 * n + 8) <= data + (name_end + 11)
        /\ (data + names) + rest <= data + (name_end + 11)
        /\ (data + name_end) + 11 <= data + (name_end + 11)
    BY <1>1, <1>a
  <2>4. /\ P[5].at >= data /\ P[6].at >= data /\ P[7].at >= data /\ P[8].at >= data /\ P[9].at >= data
        /\ End(5) <= data + (name_end + 11) /\ End(6) <= data + (name_end + 11) /\ End(7) <= data + (name_end + 11)
        /\ End(8) <= data + (name_end + 11) /\ End(9) <= data + (name_end + 11)
    BY <1>b, <2>3
  <2> HIDE DEF End
  <2>q. QED BY <2>1, <2>2, <2>4
<1>14. align_up(512, 4096) <= 4096 BY DEF align_up
<1>15. \A i \in 1 .. F.loaded : \E s \in DOMAIN F.segments :
         F.segments[s].off <= P[i].at /\ End(i) <= F.segments[s].off + F.segments[s].filesz
  <2> SUFFICES ASSUME NEW i \in 1 .. 9
               PROVE  \E s \in {1, 2, 3} : F.segments[s].off <= P[i].at /\ End(i) <= F.segments[s].off + F.segments[s].filesz
    BY <1>11
  <2>1. CASE i = 1 BY <2>1, <1>11, <1>12, <1>13
  <2>2. CASE i \in 2 .. 4 BY <2>2, <1>11, <1>12, <1>13
  <2>3. CASE i \in 5 .. 9 BY <2>3, <1>11, <1>12, <1>13
  <2>q. QED BY <2>1, <2>2, <2>3
<1>16. \A s \in DOMAIN F.segments :
         F.segments[s].filesz <= F.segments[s].memsz /\ F.segments[s].off + F.segments[s].filesz <= F.size
  <2>1. vsize \in Nat /\ data \in Nat BY <1>a, <1>5, <1>6
  <2>q. QED BY <1>1, <1>5, <1>6, <1>8, <1>11, <2>1
<1>17. \A s \in 1 .. Len(F.segments) - 1 :
         align_up(F.segments[s].addr + F.segments[s].memsz, F.page) <= F.segments[s + 1].addr
  <2>1. Len(F.segments) = 3 BY <1>11
  <2>2. align_up(0 + 512, 4096) <= 4096 /\ align_up(4096 + vsize, 4096) <= idata BY <1>7, <1>14
  <2>q. QED BY <1>11, <2>1, <2>2
<1>18. F.size <= F.room
  <2>1. PeWriter!ImgSize \in Nat BY SMT DEF PeWriter!ImgSize
  <2>q. QED BY <1>8, <1>11, <2>1 DEF total
<1>19. F.size = total BY <1>11
<1>20. /\ \A i \in 1 .. Len(P) - 1 : P[i].at + P[i].n <= P[i + 1].at
       /\ \A i \in DOMAIN P : P[i].at + P[i].n <= F.size
  BY <1>12, <1>19
<1>q. QED BY ZenonT(30), <1>15, <1>16, <1>17, <1>18, <1>20 DEF Apart, F, P

\* What both layouts of a Mach-O file have in common: its numbers, in which the
\* room, reckoned before the file is laid out, is enough.
LEMMA MachONumbers ==
  ASSUME TypeInv, target = "macho", name_end <= 6209
  PROVE  LET n == Len(imports)
             code == MachOWriter!code_off
             stubs == MachOWriter!stub_off
             fp == MachOWriter!text_fp
             le == MachOWriter!le_fileoff
             cf == MachOWriter!cf_size
             sig == MachOWriter!sig_off
             sb == MachOWriter!sb_len
         IN /\ n \in Nat /\ n <= 64 /\ name_end \in Nat /\ text_size \in Nat
            /\ code \in Nat /\ stubs \in Nat /\ fp \in Nat /\ le \in Nat /\ sig \in Nat /\ sb \in Nat
            /\ code + text_size <= stubs /\ stubs + n * 12 <= fp
            /\ align_up(fp, 16384) = fp /\ align_up(fp + 16384, 16384) = fp + 16384
            /\ le = fp + (IF n > 0 THEN 16384 ELSE 0)
            /\ cf = (IF n > 0 THEN 80 + 4 * n + name_end ELSE 48)
            /\ le + cf <= sig /\ sig + sb - le <= 16384
            /\ sig + sb <= MachOWriter!img_cap
<1> DEFINE n == Len(imports)
           code == MachOWriter!code_off
           stubs == MachOWriter!stub_off
           fp == MachOWriter!text_fp
           le == MachOWriter!le_fileoff
           cf == MachOWriter!cf_size
           sig == MachOWriter!sig_off
           slots == MachOWriter!n_slots
           sb == MachOWriter!sb_len
           text == align_up(text_size, 4)
           body == 1056 + (text + n * 12) + 32768 + (256 + 4 * n + name_end)
<1>1. n \in Nat /\ n <= 64 /\ name_end \in Nat /\ text_size \in Nat /\ text_size <= 36864
  BY SizesTyped
<1>2. MachOWriter!text_size = text_size /\ \A x, a : MachOWriter!align_up(x, a) = align_up(x, a)
  BY DEF MachOWriter!text_size, text_size, MachOWriter!code_bytes, code_bytes, MachOWriter!Unit, Unit, MachOWriter!Arm, Arm,
     MachOWriter!align_up, align_up
<1>3. text \in Nat /\ text_size <= text /\ text <= text_size + 4 - 1
  <2>1. text = align_up(text_size, 4) /\ text_size \in Nat BY <1>1
  <2> HIDE DEF text
  <2>2. align_up(text_size, 4) \in Nat /\ text_size <= align_up(text_size, 4)
    BY <2>1, RoundedUp
  <2>3. align_up(text_size, 4) <= text_size + 4 - 1
    BY <2>1, RoundedUp
  <2>q. QED BY <2>1, <2>2, <2>3
<1>4. code = (IF n > 0 THEN 648 ELSE 440)
  BY <1>1 DEF MachOWriter!code_off, MachOWriter!dyn, MachOWriter!n_imp
<1>5. stubs = code + text /\ MachOWriter!sect_size = text + n * 12
  BY <1>2 DEF MachOWriter!stub_off, MachOWriter!sect_size, MachOWriter!n_imp
<1> HIDE DEF text, code, stubs
<1>6. /\ fp \in Nat /\ stubs + n * 12 <= fp /\ fp <= stubs + n * 12 + 16384 - 1
      /\ align_up(fp, 16384) = fp /\ align_up(fp + 16384, 16384) = fp + 16384
  <2>1. code + (text + n * 12) \in Nat /\ code + (text + n * 12) = stubs + n * 12 BY <1>1, <1>3, <1>4, <1>5
  <2>2. fp = align_up(code + (text + n * 12), 16384)
    BY <1>2, <1>5 DEF MachOWriter!text_fp, MachOWriter!FILE_PAGE, code
  <2> DEFINE x == stubs + n * 12
  <2>3. x \in Nat /\ fp = align_up(x, 16384) BY <2>1, <2>2
  <2> HIDE DEF x, fp
  <2>4. fp \in Nat /\ x <= fp /\ fp <= x + 16384 - 1 BY <2>3, RoundedUp
  <2>5. align_up(fp, 16384) = fp /\ align_up(fp + 16384, 16384) = fp + 16384 BY <2>3, PageRoundedUp
  <2>q. QED BY <2>4, <2>5 DEF x
<1> HIDE DEF fp
<1>7. le = fp + (IF n > 0 THEN 16384 ELSE 0) /\ le \in Nat
  BY <1>1, <1>6 DEF MachOWriter!le_fileoff, MachOWriter!dyn, MachOWriter!n_imp, MachOWriter!FILE_PAGE, fp
<1> HIDE DEF le
<1>8. cf = (IF n > 0 THEN 80 + 4 * n + name_end ELSE 48) /\ cf \in Nat
  <2>1. CASE n > 0
    <3>1. MachOWriter!sis_off = 56
      BY <1>1, <2>1 DEF MachOWriter!sis_off, MachOWriter!starts_offset, MachOWriter!nsegs, MachOWriter!dyn, MachOWriter!n_imp,
         MachOWriter!align_up
    <3>2. MachOWriter!imports_off = 80
      BY <3>1 DEF MachOWriter!imports_off, MachOWriter!align_up
    <3>3. MachOWriter!symbols_off = 80 + 4 * n
      BY <1>1, <3>2 DEF MachOWriter!symbols_off, MachOWriter!align_up, MachOWriter!n_imp
    <3>q. QED BY <1>1, <2>1, <3>3 DEF MachOWriter!cf_size, MachOWriter!dyn, MachOWriter!n_imp
  <2>2. CASE ~(n > 0)
    BY <1>1, <2>2 DEF MachOWriter!cf_size, MachOWriter!dyn, MachOWriter!n_imp, MachOWriter!starts_offset, MachOWriter!nsegs
  <2>q. QED BY <2>1, <2>2
<1> HIDE DEF cf
<1>9. sig \in Nat /\ le + cf <= sig /\ sig <= le + cf + 16 - 1
  <2>1. le + cf \in Nat BY <1>7, <1>8
  <2>2. sig = align_up(le + cf, 16) BY <1>2 DEF MachOWriter!sig_off, MachOWriter!cf_off, cf, le
  <2> DEFINE x == le + cf
  <2>3. x \in Nat /\ sig = align_up(x, 16) BY <2>1, <2>2
  <2> HIDE DEF x, sig
  <2>4. sig \in Nat /\ x <= sig /\ sig <= x + 16 - 1 BY <2>3, RoundedUp
  <2>q. QED BY <2>4 DEF x
<1> HIDE DEF sig
<1>10. slots \in Nat /\ slots * 4096 < sig + 4096 /\ sb = 112 + slots * 32
  <2>1. slots = (sig + 4095) \div 4096
    BY <1>9 DEF MachOWriter!n_slots, MachOWriter!code_limit, MachOWriter!CS_PAGE, sig
  <2>2. sb = 112 + slots * 32
    <3>1. slots \in Nat BY <1>9, <2>1
    <3>q. QED BY <3>1 DEF MachOWriter!sb_len
  <2> HIDE DEF slots
  <2>q. QED BY <1>9, <2>1, <2>2
<1> HIDE DEF slots, sb
<1>11. sig + sb - le <= 16384
  <2>1. stubs <= 648 + 36868 BY <1>1, <1>3, <1>4, <1>5
  <2>2. fp <= 54667 BY <1>1, <1>5, <1>6, <2>1, <1>3, <1>4
  <2>3. le <= 71051 /\ cf <= 6545 BY <1>1, <1>6, <1>7, <1>8, <2>2
  <2>4. sig <= 77612 BY SMTT(20), <1>7, <1>8, <1>9, <2>3
  <2>5. slots <= 19 BY <1>9, <1>10, <2>4
  <2>q. QED BY SMTT(20), <1>7, <1>8, <1>9, <1>10, <2>3, <2>5
<1>12. MachOWriter!img_cap = body + 16 + (156 + (body \div 4096 + 2) * 32)
  BY <1>1, <1>2, <1>3, <1>5
     DEF MachOWriter!img_cap, MachOWriter!body_max, MachOWriter!sig_max, MachOWriter!cmd_max, MachOWriter!cf_max,
         MachOWriter!FILE_PAGE, MachOWriter!CS_PAGE, MachOWriter!n_imp
<1>13. body \in Nat /\ sig <= body
  <2>1. code <= 648 /\ code \in Nat BY <1>4
  <2>2. fp <= 17031 + (text + n * 12) BY <1>1, <1>3, <1>5, <1>6, <2>1
  <2>3. le + cf <= 33495 + (text + n * 12) + 4 * n + name_end BY <1>1, <1>3, <1>6, <1>7, <1>8, <2>2
  <2>q. QED BY SMTT(20), <1>1, <1>3, <1>7, <1>8, <1>9, <2>3
<1> HIDE DEF body
<1>14. sig + sb <= MachOWriter!img_cap
  <2>1. slots <= body \div 4096 + 1 BY <1>9, <1>10, <1>13
  <2>2. body \div 4096 \in Nat BY <1>13
  <2>q. QED BY <1>9, <1>10, <1>12, <1>13, <2>1, <2>2
<1>15. code \in Nat /\ stubs \in Nat /\ code + text_size <= stubs /\ sb \in Nat
  BY <1>1, <1>3, <1>4, <1>5, <1>10
<1>q. QED BY <1>1, <1>6, <1>7, <1>8, <1>9, <1>11, <1>14, <1>15 DEF code, stubs, fp, le, cf, sig, sb

LEMMA MachOApart ==
  ASSUME TypeInv, target = "macho", name_end <= 6209
  PROVE  Apart(MachOWriter!MachOExecutable)
<1> DEFINE F == MachOWriter!MachOExecutable
           P == F.parts
           S == F.segments
           End(i) == P[i].at + P[i].n
           n == Len(imports)
           code == MachOWriter!code_off
           stubs == MachOWriter!stub_off
           fp == MachOWriter!text_fp
           le == MachOWriter!le_fileoff
           sig == MachOWriter!sig_off
           sb == MachOWriter!sb_len
<1>1. /\ n \in Nat /\ n <= 64 /\ name_end \in Nat /\ text_size \in Nat
      /\ code \in Nat /\ stubs \in Nat /\ fp \in Nat /\ le \in Nat /\ sig \in Nat /\ sb \in Nat
      /\ code + text_size <= stubs /\ stubs + n * 12 <= fp
      /\ align_up(fp, 16384) = fp /\ align_up(fp + 16384, 16384) = fp + 16384
      /\ le = fp + (IF n > 0 THEN 16384 ELSE 0)
      /\ le + (IF n > 0 THEN 80 + 4 * n + name_end ELSE 48) <= sig /\ sig + sb - le <= 16384
      /\ sig + sb <= MachOWriter!img_cap
  BY SMTT(20), MachONumbers
<1>2. MachOWriter!text_size = text_size
  BY DEF MachOWriter!text_size, text_size, MachOWriter!code_bytes, code_bytes, MachOWriter!Unit, Unit, MachOWriter!Arm, Arm
<1>3. /\ P = MachOWriter!parts /\ S = MachOWriter!segments /\ F.size = sig + sb /\ F.room = MachOWriter!img_cap
      /\ F.page = 16384 /\ F.loaded = Len(P)
  BY DEF MachOWriter!MachOExecutable, MachOWriter!FILE_PAGE
<1> DEFINE text == [off |-> 0, filesz |-> fp, addr |-> 0, memsz |-> fp]
           slots == [off |-> fp, filesz |-> 16384, addr |-> fp, memsz |-> 16384]
           linkedit == [off |-> le, filesz |-> sig + sb - le, addr |-> le, memsz |-> 16384]
<1>4. S = IF n > 0 THEN <<text, slots, linkedit>> ELSE <<text, linkedit>>
  BY <1>3 DEF MachOWriter!segments, MachOWriter!Segment, MachOWriter!dyn, MachOWriter!n_imp, MachOWriter!FILE_PAGE
<1>5. CASE n > 0
  <2> DEFINE cf == le + 80
             names == cf + 4 * n
  <2>1. P = <<[at |-> 0, n |-> code], [at |-> code, n |-> text_size], [at |-> stubs, n |-> n * 12], [at |-> fp, n |-> n * 8],
              [at |-> le, n |-> 32], [at |-> le + 32, n |-> 20], [at |-> le + 56, n |-> 24], [at |-> le + 80, n |-> 4 * n],
              [at |-> le + (80 + 4 * n), n |-> name_end], [at |-> sig, n |-> sb]>>
    <3>1. MachOWriter!dyn /\ MachOWriter!nsegs = 4 /\ MachOWriter!n_imp = n
      BY <1>5 DEF MachOWriter!dyn, MachOWriter!nsegs, MachOWriter!n_imp
    <3>2. MachOWriter!sis_off = 56 /\ MachOWriter!starts_offset = 32
      BY <3>1 DEF MachOWriter!sis_off, MachOWriter!starts_offset, MachOWriter!align_up
    <3>3. MachOWriter!imports_off = 80
      BY <3>2 DEF MachOWriter!imports_off, MachOWriter!align_up
    <3>4. MachOWriter!symbols_off = 80 + 4 * n
      BY <1>1, <3>1, <3>3 DEF MachOWriter!symbols_off, MachOWriter!align_up
    <3>5. 4 + 4 * MachOWriter!nsegs = 20 BY <3>1
    <3> HIDE DEF P, n, code, stubs, fp, le, sig, sb
    <3>q. QED BY <1>2, <1>3, <3>1, <3>2, <3>3, <3>4, <3>5
          DEF MachOWriter!parts, MachOWriter!Part, MachOWriter!cf_off, n, code, stubs, fp, le, sig, sb
  <2> HIDE DEF F, P, S, n, code, stubs, fp, le, sig, sb
  <2>2. le = fp + 16384 /\ le + (80 + 4 * n + name_end) <= sig BY <1>1, <1>5
  <2>3. /\ n * 12 \in Nat /\ n * 8 \in Nat /\ 4 * n \in Nat /\ le + (80 + 4 * n) \in Nat
        /\ stubs + n * 12 <= fp /\ fp + n * 8 <= le /\ le + 32 \in Nat /\ le + 56 \in Nat /\ le + 80 \in Nat
        /\ le + 80 + 4 * n <= le + (80 + 4 * n) /\ le + (80 + 4 * n) + name_end <= sig
    BY <1>1, <2>2
  <2>4. /\ Len(P) = 10 /\ DOMAIN P = 1 .. 10
        /\ P[1].at = 0 /\ P[1].n = code /\ P[2].at = code /\ P[2].n = text_size
        /\ P[3].at = stubs /\ P[3].n = n * 12 /\ P[4].at = fp /\ P[4].n = n * 8
        /\ P[5].at = le /\ P[5].n = 32 /\ P[6].at = le + 32 /\ P[6].n = 20
        /\ P[7].at = le + 56 /\ P[7].n = 24 /\ P[8].at = le + 80 /\ P[8].n = 4 * n
        /\ P[9].at = le + (80 + 4 * n) /\ P[9].n = name_end /\ P[10].at = sig /\ P[10].n = sb
    BY <2>1
  <2>5. \A i \in 1 .. 10 : P[i].at \in Nat /\ P[i].n \in Nat
    <3>1. /\ P[1].at \in Nat /\ P[1].n \in Nat /\ P[2].at \in Nat /\ P[2].n \in Nat /\ P[3].at \in Nat /\ P[3].n \in Nat
          /\ P[4].at \in Nat /\ P[4].n \in Nat /\ P[5].at \in Nat /\ P[5].n \in Nat /\ P[6].at \in Nat /\ P[6].n \in Nat
          /\ P[7].at \in Nat /\ P[7].n \in Nat /\ P[8].at \in Nat /\ P[8].n \in Nat /\ P[9].at \in Nat /\ P[9].n \in Nat
          /\ P[10].at \in Nat /\ P[10].n \in Nat
      BY <1>1, <2>3, <2>4
    <3>q. QED BY <3>1
  <2>6. /\ End(1) <= P[2].at /\ End(2) <= P[3].at /\ End(3) <= P[4].at /\ End(4) <= P[5].at /\ End(5) <= P[6].at
        /\ End(6) <= P[7].at /\ End(7) <= P[8].at /\ End(8) <= P[9].at /\ End(9) <= P[10].at /\ End(10) <= sig + sb
    <3>1. 0 + code <= code /\ le + 32 <= le + 32 /\ le + 32 + 20 <= le + 56 /\ le + 56 + 24 <= le + 80 /\ sig + sb <= sig + sb
      BY <1>1
    <3>q. QED BY <1>1, <2>3, <2>4, <3>1
  <2>7. /\ \A i \in 1 .. 10 : End(i) \in Nat
        /\ \A i \in 1 .. 9 : End(i) <= P[i + 1].at /\ P[i + 1].at <= End(i + 1) /\ P[i].at <= P[i + 1].at
    <3>1. \A i \in 1 .. 9 : End(i) <= P[i + 1].at
      <4> HIDE DEF End
      <4>q. QED BY <2>6
    <3>q. QED BY <2>5, <3>1
  <2>8. S = <<text, slots, linkedit>>
    BY <1>4, <1>5
  <2>9. /\ \A i \in 1 .. 10 : End(i) <= sig + sb
        /\ \A i \in 1 .. 3 : End(i) <= fp
        /\ \A i \in 5 .. 10 : P[i].at >= le
    <3>1. \A i \in 1 .. 9 : End(i) <= End(i + 1) /\ End(i) \in Nat
      <4> SUFFICES ASSUME NEW i \in 1 .. 9 PROVE End(i) <= End(i + 1) /\ End(i) \in Nat OBVIOUS
      <4>1. End(i) \in Nat /\ End(i + 1) \in Nat /\ P[i + 1].at \in Nat BY <2>5, <2>7
      <4>2. End(i) <= P[i + 1].at /\ P[i + 1].at <= End(i + 1) BY <2>7
      <4> HIDE DEF End
      <4>q. QED BY <4>1, <4>2
    <3>2. sig + sb \in Nat /\ End(10) \in Nat /\ End(10) <= sig + sb /\ End(3) <= fp /\ P[5].at >= le
      BY <1>1, <2>4, <2>6, <2>7
    <3>3. \A i \in 1 .. 9 : P[i].at <= P[i + 1].at BY <2>7
    <3>4. \A i \in 5 .. 10 : P[i].at >= le BY <1>1, <2>5, <3>2, <3>3
    <3> HIDE DEF End
    <3>5. \A i \in 1 .. 10 : End(i) <= sig + sb BY <3>1, <3>2
    <3>6. \A i \in 1 .. 3 : End(i) <= fp BY <1>1, <3>1, <3>2
    <3>q. QED BY <3>4, <3>5, <3>6
  <2>10. \A i \in 1 .. F.loaded : \E s \in DOMAIN S : S[s].off <= P[i].at /\ End(i) <= S[s].off + S[s].filesz
    <3> SUFFICES ASSUME NEW i \in 1 .. 10
                 PROVE  \E s \in {1, 2, 3} : S[s].off <= P[i].at /\ End(i) <= S[s].off + S[s].filesz
      BY <1>3, <2>4, <2>8
    <3>1. /\ S[1].off = 0 /\ S[1].filesz = fp /\ S[2].off = fp /\ S[2].filesz = 16384
          /\ S[3].off = le /\ S[3].filesz = sig + sb - le
      BY <2>8
    <3>2. P[i].at \in Nat /\ End(i) \in Nat /\ le + (sig + sb - le) = sig + sb BY <1>1, <2>5, <2>7
    <3>3. P[4].at = fp /\ End(4) <= le BY <2>4, <2>6
    <3>4. CASE i \in 1 .. 3 BY <1>1, <2>9, <3>1, <3>2, <3>4
    <3>5. CASE i = 4 BY <1>1, <2>2, <3>1, <3>2, <3>3, <3>5
    <3>6. CASE i \in 5 .. 10 BY <2>9, <3>1, <3>2, <3>6
    <3>q. QED BY <3>4, <3>5, <3>6
  <2>11. \A s \in DOMAIN S : S[s].filesz <= S[s].memsz /\ S[s].off + S[s].filesz <= F.size
    BY <1>1, <1>3, <2>2, <2>8
  <2>12. \A s \in 1 .. Len(S) - 1 : align_up(S[s].addr + S[s].memsz, F.page) <= S[s + 1].addr
    <3>1. Len(S) = 3 BY <2>8
    <3>2. align_up(0 + fp, 16384) <= fp /\ align_up(fp + 16384, 16384) <= le BY <1>1, <2>2
    <3>q. QED BY <1>3, <2>8, <3>1, <3>2
  <2>13. F.size <= F.room /\ F.size = sig + sb BY <1>1, <1>3
  <2>14. /\ \A i \in 1 .. Len(P) - 1 : P[i].at + P[i].n <= P[i + 1].at
         /\ \A i \in DOMAIN P : P[i].at + P[i].n <= F.size
    BY <2>4, <2>7, <2>9, <2>13
  <2>q. QED BY <2>10, <2>11, <2>12, <2>13, <2>14 DEF Apart, F, P, S
<1>6. CASE n = 0
  <2>1. P = <<[at |-> 0, n |-> code], [at |-> code, n |-> text_size], [at |-> le, n |-> 32], [at |-> le + 32, n |-> 16],
              [at |-> sig, n |-> sb]>>
    <3>1. ~MachOWriter!dyn /\ MachOWriter!nsegs = 3
      BY <1>6 DEF MachOWriter!dyn, MachOWriter!nsegs, MachOWriter!n_imp
    <3>2. 4 * (1 + MachOWriter!nsegs) = 16 BY <3>1
    <3> HIDE DEF P, n, code, stubs, fp, le, sig, sb
    <3>q. QED BY <1>2, <1>3, <3>1, <3>2
          DEF MachOWriter!parts, MachOWriter!Part, MachOWriter!cf_off, MachOWriter!starts_offset, code, le, sig, sb
  <2> HIDE DEF F, P, S, n, code, stubs, fp, le, sig, sb
  <2>2. S = <<text, linkedit>> BY <1>1, <1>4, <1>6
  <2>3. le = fp /\ le + 48 <= sig /\ code + text_size <= fp /\ le + 32 + 16 <= sig BY <1>1, <1>6
  <2>4. /\ Len(P) = 5 /\ DOMAIN P = 1 .. 5
        /\ P[1].at = 0 /\ P[1].n = code /\ P[2].at = code /\ P[2].n = text_size
        /\ P[3].at = le /\ P[3].n = 32 /\ P[4].at = le + 32 /\ P[4].n = 16 /\ P[5].at = sig /\ P[5].n = sb
    BY <2>1
  <2>5. /\ \A i \in 1 .. 4 : End(i) <= P[i + 1].at
        /\ \A i \in 1 .. 5 : End(i) <= sig + sb
    BY <1>1, <2>3, <2>4
  <2>6. \A i \in 1 .. F.loaded : \E s \in DOMAIN S : S[s].off <= P[i].at /\ End(i) <= S[s].off + S[s].filesz
    <3> SUFFICES ASSUME NEW i \in 1 .. 5
                 PROVE  \E s \in {1, 2} : S[s].off <= P[i].at /\ End(i) <= S[s].off + S[s].filesz
      BY <1>3, <2>2, <2>4
    <3>1. /\ S[1].off = 0 /\ S[1].filesz = fp /\ S[2].off = le /\ S[2].filesz = sig + sb - le
      BY <2>2
    <3>2. CASE i \in 1 .. 2 BY <1>1, <2>3, <2>4, <3>1, <3>2
    <3>3. CASE i \in 3 .. 5
      <4>1. le + (sig + sb - le) = sig + sb BY <1>1
      <4>2. P[i].at >= le BY <1>1, <2>3, <2>4, <3>3
      <4>q. QED BY <2>5, <3>1, <3>3, <4>1, <4>2
    <3>q. QED BY <3>2, <3>3
  <2>7. \A s \in DOMAIN S : S[s].filesz <= S[s].memsz /\ S[s].off + S[s].filesz <= F.size
    BY <1>1, <1>3, <2>2, <2>3
  <2>8. \A s \in 1 .. Len(S) - 1 : align_up(S[s].addr + S[s].memsz, F.page) <= S[s + 1].addr
    <3>1. Len(S) = 2 BY <2>2
    <3>2. align_up(0 + fp, 16384) <= le BY <1>1, <2>3
    <3>q. QED BY <1>3, <2>2, <3>1, <3>2
  <2>9. F.size <= F.room /\ F.size = sig + sb BY <1>1, <1>3
  <2>10. /\ \A i \in 1 .. Len(P) - 1 : P[i].at + P[i].n <= P[i + 1].at
         /\ \A i \in DOMAIN P : P[i].at + P[i].n <= F.size
    BY <2>4, <2>5, <2>9
  <2>q. QED BY <2>6, <2>7, <2>8, <2>9, <2>10 DEF Apart, F, P, S
<1>q. QED BY <1>1, <1>5, <1>6

LEMMA SameApart == ASSUME NEW f, Apart(f), file' = f PROVE PartsApart'
BY DEF Apart, PartsApart

LEMMA ApartInductive ==
  ASSUME TypeInv, PartsApart, [Next]_vars PROVE PartsApart'
<1>1. CASE file' = file BY <1>1 DEF PartsApart
<1>2. CASE ElfWriter!WriteStatic
  <2>1. file' = file \/ (~(ElfWriter!StaticFile.size > ElfWriter!ImgSize) /\ file' = ElfWriter!StaticFile)
    BY <1>2 DEF ElfWriter!WriteStatic, ElfWriter!TooLarge, ElfWriter!Write
  <2>2. CASE file' # file
    <3>1. Apart(ElfWriter!StaticFile) /\ file' = ElfWriter!StaticFile BY <2>1, <2>2, StaticApart
    <3>q. QED BY <3>1, SameApart
  <2>q. QED BY <1>1, <2>2
<1>3. CASE ElfWriter!WriteDynamic
  <2>1. file' = file \/ (~(ElfWriter!DynamicFile.size > ElfWriter!ImgSize) /\ file' = ElfWriter!DynamicFile)
    BY <1>3 DEF ElfWriter!WriteDynamic, ElfWriter!TooLarge, ElfWriter!Write
  <2>2. CASE file' # file
    <3>1. Apart(ElfWriter!DynamicFile) /\ file' = ElfWriter!DynamicFile BY <2>1, <2>2, DynamicApart
    <3>q. QED BY <3>1, SameApart
  <2>q. QED BY <1>1, <2>2
<1>4. CASE PeWriter!WritePe
  <2>1. /\ phase = "names" /\ target = "pe-x86_64"
        /\ file' = file \/ (~(PeWriter!total_file > PeWriter!ImgSize) /\ file' = PeWriter!PeExecutable)
    BY <1>4 DEF PeWriter!WritePe, PeWriter!Pe, PeWriter!TooLarge, PeWriter!Write
  <2>2. CASE file' # file
    <3>1. Apart(PeWriter!PeExecutable) /\ file' = PeWriter!PeExecutable BY <2>1, <2>2, PeApart
    <3>q. QED BY <3>1, SameApart
  <2>q. QED BY <1>1, <2>2
<1>5. CASE MachOWriter!WriteMachO
  <2>1. phase = "names" /\ target = "macho" /\ file' = MachOWriter!MachOExecutable
    BY <1>5 DEF MachOWriter!WriteMachO, MachOWriter!MachO, MachOWriter!Write
  <2>2. name_end <= 6209
    <3>1. /\ Len(name_off) <= Len(imports) /\ name_end <= 1 + 97 * Len(name_off)
          /\ name_off \in Seq(Nat) /\ name_end \in Nat
      BY <2>1 DEF TypeInv, NameInv
    <3>2. Len(imports) \in Nat /\ Len(imports) <= 64 BY SizesTyped
    <3>q. QED BY <3>1, <3>2
  <2>3. Apart(MachOWriter!MachOExecutable) BY <2>1, <2>2, MachOApart
  <2>q. QED BY <2>1, <2>3, SameApart
<1>6. CASE Program \/ bin_emit \/ UNCHANGED vars
  <2>1. file' = file
    BY <1>6 DEF Program, EmitFunction, emit_fn_call, emit_string_lit, Noted, EndCode,
       bin_emit, ResolveString, ResolveCall, ResolveImport, ImportOverflow, Resolved
  <2>q. QED BY <1>1, <2>1
<1>7. CASE ElfWriter!StartNames \/ ElfWriter!ImportName \/ ElfWriter!EndNames \/ ElfWriter!HashSymbol
  <2>1. file' = file
    BY <1>7 DEF ElfWriter!StartNames, ElfWriter!NamesFrom, ElfWriter!Afterwards, ElfWriter!ImportName, ElfWriter!WriteName,
       ElfWriter!EndNames, ElfWriter!TooLarge, ElfWriter!HashSymbol
  <2>q. QED BY <1>1, <2>1
<1>8. CASE PeWriter!StartNames \/ PeWriter!ImportName \/ MachOWriter!StartNames \/ MachOWriter!ImportName
  <2>1. file' = file
    BY <1>8 DEF PeWriter!StartNames, PeWriter!NamesFrom, PeWriter!Afterwards, PeWriter!ImportName, PeWriter!WriteName,
       MachOWriter!StartNames, MachOWriter!NamesFrom, MachOWriter!Afterwards, MachOWriter!ImportName, MachOWriter!WriteName
  <2>q. QED BY <1>1, <2>1
<1>q. QED
  BY <1>2, <1>3, <1>4, <1>5, <1>6, <1>7, <1>8 DEF Next, ElfWriter!Next, PeWriter!Next, MachOWriter!Next

\* The parts of an executable never meet and are mapped whole, for every size of
\* the code and the strings, every number of imports and all their names.
THEOREM ExecutablePartsApart == Spec => []PartsApart
<1>1. Init => TypeInv /\ PartsApart
  <2> SUFFICES ASSUME Init PROVE TypeInv /\ PartsApart OBVIOUS
  <2>1. file = NoFile BY DEF Init
  <2>2. PartsApart BY <2>1 DEF NoFile, PartsApart
  <2>q. QED BY <2>2, InitTyped
<1>2. TypeInv /\ PartsApart /\ [Next]_vars => (TypeInv /\ PartsApart)'
  BY TypeInductive, ApartInductive
<1>q. QED BY <1>1, <1>2, PTL DEF Spec
-----------------------------------------------------------------------------
(* Where references lead.  What they rest on: the places in the code, what   *)
(* bin_emit has put into the calls, the order of the names and the lists of   *)
(* the hash table.                                                            *)

\* A function begins, and a string lies, in what has been put out.
PlaceInv ==
  /\ fn_syms \in Seq([key : Functions, at : Nat])
  /\ \A i \in DOMAIN fn_syms : fn_syms[i].at < code_len
  /\ \A i \in DOMAIN fixups : fixups[i].kind = "str" => fixups[i].aux + StringSize <= cstrs_len
  /\ phase # "code" => Defined("main")

\* Whether bin_emit knows where a fixup leads, and what it makes of it then.
Known(i) == fixups[i].kind = "str" \/ Defined(fixups[i].key)
Value(i) == IF fixups[i].kind = "str" THEN Relative(Site(fixups[i]), code_bytes + fixups[i].aux)
            ELSE Branch(Site(fixups[i]), FnAt(fixups[i].key))

\* Every fixup bin_emit has passed has its value, or is a call it has noted, of
\* an import of the name that is called.
CallInv ==
  /\ phase \in {"resolve", "names", "hash"} =>
       \A i \in 1 .. next - 1 :
         IF Known(i) THEN word[i] = Value(i)
         ELSE diagnosed \/ \E k \in DOMAIN extcalls : extcalls[k].fixup = i
  /\ phase \in {"names", "hash"} => next > Len(fixups)
  /\ \A k \in DOMAIN extcalls :
       /\ extcalls[k].fixup \in 1 .. next - 1 /\ ~Known(extcalls[k].fixup)
       /\ extcalls[k].site = Site(fixups[extcalls[k].fixup])
       /\ imports[extcalls[k].import + 1] = fixups[extcalls[k].fixup].key

\* Names follow each other from where the writer begins.
FirstName == CASE target = "pe-x86_64" -> 56 + 16 * (Len(imports) + 1)
               [] target = "macho" -> 1
               [] OTHER -> 11
Gap == IF target = "pe-x86_64" THEN 4 ELSE 1
NamesInOrder ==
  /\ \A i \in DOMAIN name_off : FirstName <= name_off[i] /\ name_off[i] + Gap <= name_end
  /\ \A i, j \in DOMAIN name_off : i < j => name_off[i] + Gap <= name_off[j]
OrderInv == phase \in {"names", "hash"} => NamesInOrder /\ FirstName <= name_end

\* The lists of the hash table run towards smaller symbols, from a bucket past
\* every symbol of its hash.
HashOf(i) == Hash[ElfWriter!ImportNames[i]] % ElfWriter!nimp
ListInv ==
  /\ phase \in {"code", "resolve", "names"} => chain = << >>
  /\ phase = "hash" =>
       /\ Elf /\ Len(name_off) = Len(imports) + 1
       /\ bucket \in [0 .. Len(imports) -> Nat] /\ chain \in Seq(Nat) /\ Len(chain) <= Len(imports) + 1
       /\ \A h \in 0 .. Len(imports) : bucket[h] <= Len(chain)
       /\ \A i \in DOMAIN chain :
            /\ chain[i] < i
            /\ bucket[HashOf(i)] = i \/ \E j \in i + 1 .. Len(chain) : chain[j] = i /\ HashOf(j) = HashOf(i)

-----------------------------------------------------------------------------
(* The steps                                                                 *)

\* What Append does to a sequence.
LEMMA SeqAppended ==
  ASSUME NEW S, NEW s \in Seq(S), NEW x \in S
  PROVE  /\ Append(s, x) \in Seq(S) /\ Len(Append(s, x)) = Len(s) + 1 /\ Len(s) \in Nat
         /\ DOMAIN Append(s, x) = 1 .. Len(s) + 1 /\ DOMAIN s = 1 .. Len(s)
         /\ Append(s, x)[Len(s) + 1] = x /\ \A i \in 1 .. Len(s) : Append(s, x)[i] = s[i]
OBVIOUS

\* What a sequence over a set holds.
LEMMA SeqElement == ASSUME NEW S, NEW s \in Seq(S), NEW i \in DOMAIN s PROVE s[i] \in S
OBVIOUS

\* At first there is nothing to be out of place.
LEMMA PlaceInit == Init => PlaceInv /\ CallInv /\ OrderInv /\ ListInv
<1> SUFFICES ASSUME Init PROVE PlaceInv /\ CallInv /\ OrderInv /\ ListInv OBVIOUS
<1>1. PlaceInv BY DEF Init, PlaceInv
<1>2. CallInv BY DEF Init, CallInv
<1>3. OrderInv BY DEF Init, OrderInv
<1>4. ListInv BY DEF Init, ListInv
<1>q. QED BY <1>1, <1>2, <1>3, <1>4

\* What every step of a writer leaves alone.
LEMMA WritersSettle ==
  ASSUME TypeInv, ElfWriter!Next \/ PeWriter!Next \/ MachOWriter!Next
  PROVE  /\ Settled
         /\ phase' # "end" => UNCHANGED <<word, diagnosed>>
         /\ phase = "resolve" => next > Len(fixups)
         /\ phase = "end" => FALSE
<1>0. diagnosed \in BOOLEAN BY DEF TypeInv, CodeInv
<1>1. CASE ElfWriter!Next
  <2>1. CASE ElfWriter!WriteStatic
    BY <1>0, <2>1 DEF ElfWriter!WriteStatic, ElfWriter!BinEmitted, ElfWriter!Write, ElfWriter!TooLarge, Settled,
       ElfWriter!code_vars, ElfWriter!import_vars, ElfWriter!table_vars
  <2>2. CASE ElfWriter!StartNames
    BY <1>0, <2>2 DEF ElfWriter!StartNames, ElfWriter!BinEmitted, ElfWriter!NamesFrom, ElfWriter!Afterwards,
       Settled, ElfWriter!code_vars, ElfWriter!import_vars, ElfWriter!table_vars
  <2>3. CASE ElfWriter!ImportName
    BY <1>0, <2>3 DEF ElfWriter!ImportName, ElfWriter!WriteName,
       Settled, ElfWriter!code_vars, ElfWriter!import_vars, ElfWriter!table_vars
  <2>4. CASE ElfWriter!EndNames
    BY <1>0, <2>4 DEF ElfWriter!EndNames, ElfWriter!TooLarge, Settled,
       ElfWriter!code_vars, ElfWriter!import_vars, ElfWriter!table_vars
  <2>5. CASE ElfWriter!HashSymbol
    BY <1>0, <2>5 DEF ElfWriter!HashSymbol, Settled, ElfWriter!code_vars, ElfWriter!import_vars, ElfWriter!table_vars
  <2>6. CASE ElfWriter!WriteDynamic
    BY <1>0, <2>6 DEF ElfWriter!WriteDynamic, ElfWriter!Write, ElfWriter!TooLarge, ElfWriter!Patched, Settled,
       ElfWriter!code_vars, ElfWriter!import_vars, ElfWriter!table_vars
  <2>q. QED BY <1>1, <2>1, <2>2, <2>3, <2>4, <2>5, <2>6 DEF ElfWriter!Next
<1>2. CASE PeWriter!Next
  <2>1. CASE PeWriter!StartNames
    BY <1>0, <2>1 DEF PeWriter!StartNames, PeWriter!BinEmitted, PeWriter!NamesFrom, PeWriter!Afterwards,
       Settled, PeWriter!code_vars, PeWriter!import_vars, PeWriter!table_vars
  <2>2. CASE PeWriter!ImportName
    BY <1>0, <2>2 DEF PeWriter!ImportName, PeWriter!WriteName,
       Settled, PeWriter!code_vars, PeWriter!import_vars, PeWriter!table_vars
  <2>3. CASE PeWriter!WritePe
    BY <1>0, <2>3 DEF PeWriter!WritePe, PeWriter!Write, PeWriter!TooLarge, PeWriter!Patched, Settled,
       PeWriter!code_vars, PeWriter!import_vars, PeWriter!table_vars
  <2>q. QED BY <1>2, <2>1, <2>2, <2>3 DEF PeWriter!Next
<1>3. CASE MachOWriter!Next
  <2>1. CASE MachOWriter!StartNames
    BY <1>0, <2>1 DEF MachOWriter!StartNames, MachOWriter!BinEmitted, MachOWriter!NamesFrom, MachOWriter!Afterwards,
       Settled, MachOWriter!code_vars, MachOWriter!import_vars, MachOWriter!table_vars
  <2>2. CASE MachOWriter!ImportName
    BY <1>0, <2>2 DEF MachOWriter!ImportName, MachOWriter!WriteName,
       Settled, MachOWriter!code_vars, MachOWriter!import_vars, MachOWriter!table_vars
  <2>3. CASE MachOWriter!WriteMachO
    BY <1>0, <2>3 DEF MachOWriter!WriteMachO, MachOWriter!Write, MachOWriter!Patched, Settled,
       MachOWriter!code_vars, MachOWriter!import_vars, MachOWriter!table_vars
  <2>q. QED BY <1>3, <2>1, <2>2, <2>3 DEF MachOWriter!Next
<1>q. QED BY <1>1, <1>2, <1>3

\* A function begins where the code has come to.
LEMMA FunctionPlaced ==
  ASSUME TypeInv, PlaceInv, NEW f \in Functions, EmitFunction(f) PROVE PlaceInv'
<1> DEFINE sym == [key |-> f, at |-> code_len]
           S == [key : Functions, at : Nat]
<1>1. /\ code_len \in Nat /\ sym \in S /\ fn_syms \in Seq(S)
      /\ fn_syms' = Append(fn_syms, sym) /\ code_len' = code_len + 1
      /\ phase = "code" /\ UNCHANGED <<phase, fixups, cstrs_len>>
  BY Caps DEF TypeInv, CodeInv, PlaceInv, EmitFunction
<1> HIDE DEF S
<1>2. /\ fn_syms' \in Seq(S) /\ DOMAIN fn_syms' = 1 .. Len(fn_syms) + 1 /\ DOMAIN fn_syms = 1 .. Len(fn_syms)
      /\ fn_syms'[Len(fn_syms) + 1] = sym /\ \A i \in 1 .. Len(fn_syms) : fn_syms'[i] = fn_syms[i]
      /\ Len(fn_syms) \in Nat
  BY <1>1, SeqAppended
<1>3. \A i \in DOMAIN fn_syms' : fn_syms'[i].at < code_len'
  <2> SUFFICES ASSUME NEW i \in 1 .. Len(fn_syms) + 1 PROVE fn_syms'[i].at < code_len' BY <1>2
  <2>1. CASE i = Len(fn_syms) + 1 BY <1>1, <1>2, <2>1
  <2>2. CASE i \in 1 .. Len(fn_syms)
    <3>0. i \in DOMAIN fn_syms /\ fn_syms'[i] = fn_syms[i] BY <1>2, <2>2
    <3>1. fn_syms[i] \in S /\ fn_syms[i].at < code_len BY <1>1, <3>0 DEF PlaceInv
    <3>2. fn_syms[i].at \in Nat BY <3>1 DEF S
    <3>q. QED BY <1>1, <3>0, <3>1, <3>2
  <2>q. QED BY <1>2, <2>1, <2>2
<1>q. QED BY <1>1, <1>2, <1>3 DEF PlaceInv, S

\* A fixup is noted, of a string that has just been put out or of a call.
LEMMA NotedPlaced ==
  ASSUME TypeInv, PlaceInv, NEW fixup \in Fixup, phase = "code",
         fixups' = Append(fixups, fixup), code_len' >= code_len, code_len' \in Nat,
         cstrs_len' >= cstrs_len, cstrs_len' \in Nat,
         fixup.kind = "str" => fixup.aux + StringSize <= cstrs_len',
         UNCHANGED <<phase, fn_syms>>
  PROVE  PlaceInv'
<1>1. fixups \in Seq(Fixup) /\ cstrs_len \in Nat /\ code_len \in Nat
  BY Caps DEF TypeInv, CodeInv
<1>2. /\ DOMAIN fixups' = 1 .. Len(fixups) + 1 /\ DOMAIN fixups = 1 .. Len(fixups) /\ Len(fixups) \in Nat
      /\ fixups'[Len(fixups) + 1] = fixup /\ \A i \in 1 .. Len(fixups) : fixups'[i] = fixups[i]
  BY <1>1, SeqAppended
<1>3. \A i \in DOMAIN fixups' : fixups'[i].kind = "str" => fixups'[i].aux + StringSize <= cstrs_len'
  <2> SUFFICES ASSUME NEW i \in 1 .. Len(fixups) + 1, fixups'[i].kind = "str"
               PROVE  fixups'[i].aux + StringSize <= cstrs_len'
    BY <1>2
  <2>1. CASE i = Len(fixups) + 1 BY <1>2, <2>1
  <2>2. CASE i \in 1 .. Len(fixups)
    <3>1. fixups'[i] = fixups[i] /\ fixups[i] \in Fixup /\ fixups[i].aux + StringSize <= cstrs_len
      BY <1>1, <1>2, <2>2 DEF PlaceInv
    <3>2. fixups[i].aux \in Nat BY <3>1 DEF Fixup
    <3>q. QED BY <1>1, <3>1, <3>2 DEF StringSize
  <2>q. QED BY <1>2, <2>1, <2>2
<1>4. \A i \in DOMAIN fn_syms : fn_syms[i].at < code_len'
  <2> SUFFICES ASSUME NEW i \in DOMAIN fn_syms PROVE fn_syms[i].at < code_len' OBVIOUS
  <2>0. fn_syms \in Seq([key : Functions, at : Nat]) /\ fn_syms[i].at < code_len BY DEF PlaceInv
  <2>1. fn_syms[i] \in [key : Functions, at : Nat] /\ fn_syms[i].at < code_len BY <2>0, SeqElement
  <2>q. QED BY <1>1, <2>1
<1>q. QED BY <1>3, <1>4 DEF PlaceInv

\* No step moves a function or a string.
LEMMA PlaceStep == ASSUME TypeInv, PlaceInv, [Next]_vars PROVE PlaceInv'
<1>0. code_len \in Nat /\ cstrs_len \in Nat BY Caps DEF TypeInv, CodeInv
<1>1. ASSUME NEW f \in Functions, EmitFunction(f) PROVE PlaceInv' BY <1>1, FunctionPlaced
<1>2. ASSUME NEW f \in Called, emit_fn_call(f) PROVE PlaceInv'
  <2> DEFINE fixup == [kind |-> "call", key |-> f, aux |-> 0, site |-> code_len + (IF Arm THEN 0 ELSE 1)]
  <2>1. /\ phase = "code" /\ fixups' = Append(fixups, fixup) /\ cstrs_len' = cstrs_len
        /\ code_len' = code_len + (IF Arm THEN 1 ELSE 5)
        /\ UNCHANGED <<phase, fn_syms>>
    BY <1>2 DEF emit_fn_call, Noted
  <2>2. fixup \in Fixup /\ fixup.kind = "call"
    <3>1. code_len + (IF Arm THEN 0 ELSE 1) \in Nat BY <1>0
    <3>q. QED BY <3>1 DEF Fixup
  <2> HIDE DEF fixup
  <2>3. code_len' >= code_len /\ code_len' \in Nat /\ cstrs_len' >= cstrs_len /\ cstrs_len' \in Nat BY <1>0, <2>1
  <2>q. QED BY <2>1, <2>2, <2>3, NotedPlaced
<1>3. ASSUME emit_string_lit PROVE PlaceInv'
  <2> DEFINE fixup == [kind |-> "str", key |-> "", aux |-> cstrs_len, site |-> code_len + (IF Arm THEN 0 ELSE 3)]
  <2>1. /\ phase = "code" /\ fixups' = Append(fixups, fixup) /\ cstrs_len' = cstrs_len + StringSize
        /\ code_len' = code_len + (IF Arm THEN 1 ELSE 3 + 4)
        /\ UNCHANGED <<phase, fn_syms>>
    BY <1>3 DEF emit_string_lit, Noted
  <2>2. fixup \in Fixup /\ fixup.aux = cstrs_len
    <3>1. code_len + (IF Arm THEN 0 ELSE 3) \in Nat BY <1>0
    <3>q. QED BY <1>0, <3>1 DEF Fixup
  <2> HIDE DEF fixup
  <2>3. /\ code_len' >= code_len /\ code_len' \in Nat /\ cstrs_len' >= cstrs_len /\ cstrs_len' \in Nat
        /\ fixup.aux + StringSize <= cstrs_len'
    BY <1>0, <2>1, <2>2 DEF StringSize
  <2>q. QED BY <2>1, <2>2, <2>3, NotedPlaced
<1>4. CASE EndCode BY <1>4 DEF EndCode, PlaceInv, Defined
<1>5. ASSUME UNCHANGED code_vars, phase' # "code" => Defined("main") PROVE PlaceInv'
  BY <1>5 DEF PlaceInv, Defined
<1>6. CASE bin_emit
  <2>1. UNCHANGED code_vars /\ phase # "code"
    BY <1>6 DEF bin_emit, ResolveString, ResolveCall, ResolveImport, ImportOverflow, Resolved, Resolving
  <2>q. QED BY <1>5, <2>1 DEF PlaceInv
<1>7. CASE ElfWriter!Next \/ PeWriter!Next \/ MachOWriter!Next
  <2>1. Settled BY <1>7, WritersSettle
  <2>q. QED BY <1>5, <2>1 DEF PlaceInv, Settled
<1>8. CASE UNCHANGED vars BY <1>5, <1>8 DEF PlaceInv
<1>q. QED BY <1>1, <1>2, <1>3, <1>4, <1>6, <1>7, <1>8 DEF Next, Program

\* Where the fixups lead depends on the code alone.
LEMMA SameValues ==
  ASSUME UNCHANGED <<target, code_vars>>
  PROVE  \A i : (Known(i)' <=> Known(i)) /\ Value(i)' = Value(i) /\ Site(fixups[i])' = Site(fixups[i])
BY DEF Known, Value, Defined, Site, Unit, Arm, Relative, Branch, code_bytes, FnAt

\* As long as code is put out, bin_emit has noted nothing.
LEMMA ProgramCalls == ASSUME TypeInv, CallInv, Program PROVE CallInv'
<1>1. /\ phase = "code" /\ phase' \in {"code", "resolve"} /\ UNCHANGED <<next, extcalls>>
  BY DEF Program, EmitFunction, emit_fn_call, emit_string_lit, Noted, EndCode
<1>2. next = 1 /\ extcalls = << >> BY <1>1 DEF TypeInv, WordInv, ImportInv
<1>3. 1 .. next' - 1 = {} /\ DOMAIN extcalls' = {} BY <1>1, <1>2
<1>q. QED BY <1>1, <1>3 DEF CallInv

\* bin_emit settles a fixup: by its value, or by noting its call.
LEMMA EmitCalls == ASSUME TypeInv, CallInv, bin_emit PROVE CallInv'
<1>1. /\ phase = "resolve" /\ next <= Len(fixups) /\ next' = next + 1
      /\ UNCHANGED <<target, phase, code_vars>>
  BY DEF bin_emit, ResolveString, ResolveCall, ResolveImport, ImportOverflow, Resolving, Resolved
<1>2. /\ next \in Nat /\ next >= 1 /\ Len(fixups) \in Nat /\ DOMAIN word = 1 .. Len(fixups) /\ next \in DOMAIN fixups
      /\ fixups \in Seq(Fixup) /\ extcalls \in Seq(Extcall) /\ imports \in Seq(Called)
      /\ fixups[next].kind = "call" => fixups[next].key \in Called
  BY <1>1 DEF TypeInv, CodeInv, WordInv, ImportInv
<1>3. \A i : (Known(i)' <=> Known(i)) /\ Value(i)' = Value(i) /\ Site(fixups[i])' = Site(fixups[i])
  BY <1>1, SameValues
<1>4. \A i \in 1 .. next - 1 : IF Known(i) THEN word[i] = Value(i)
                              ELSE diagnosed \/ \E k \in DOMAIN extcalls : extcalls[k].fixup = i
  BY <1>1 DEF CallInv
<1>5. \A k \in DOMAIN extcalls :
        /\ extcalls[k].fixup \in 1 .. next - 1 /\ ~Known(extcalls[k].fixup)
        /\ extcalls[k].site = Site(fixups[extcalls[k].fixup])
        /\ imports[extcalls[k].import + 1] = fixups[extcalls[k].fixup].key
  BY DEF CallInv
<1> DEFINE Settles(i) == IF Known(i)' THEN word'[i] = Value(i)'
                         ELSE diagnosed' \/ \E k \in DOMAIN extcalls' : extcalls'[k].fixup = i
           Notes(k) == /\ extcalls'[k].fixup \in 1 .. next' - 1 /\ ~Known(extcalls'[k].fixup)
                       /\ extcalls'[k].site = Site(fixups[extcalls'[k].fixup])
                       /\ imports'[extcalls'[k].import + 1] = fixups[extcalls'[k].fixup].key
<1>6. CASE ResolveString \/ ResolveCall
  <2>1. word' = [word EXCEPT ![next] = Value(next)] /\ Known(next) /\ UNCHANGED <<import_vars, diagnosed>>
    <3>1. CASE ResolveString
      BY <3>1 DEF ResolveString, Resolving, Resolved, Value, Known
    <3>2. CASE ResolveCall
      BY <3>2 DEF ResolveCall, Resolving, Resolved, Value, Known
    <3>q. QED BY <1>6, <3>1, <3>2
  <2>2. word'[next] = Value(next) /\ \A i \in 1 .. next - 1 : word'[i] = word[i]
    BY <1>1, <1>2, <2>1
  <2>3. \A i \in 1 .. next : Settles(i)
    <3> SUFFICES ASSUME NEW i \in 1 .. next PROVE Settles(i) OBVIOUS
    <3>1. CASE i = next BY <1>3, <2>1, <2>2, <3>1
    <3>2. CASE i \in 1 .. next - 1 BY <1>3, <1>4, <2>1, <2>2, <3>2
    <3>q. QED BY <1>2, <3>1, <3>2
  <2>4. \A k \in DOMAIN extcalls' : Notes(k)
    BY <1>1, <1>2, <1>5, <2>1
  <2>q. QED BY <1>1, <1>2, <1>3, <2>3, <2>4 DEF CallInv
<1>7. CASE ResolveImport
  <2> DEFINE f == fixups[next].key
             list == IF Imported(imports, f) THEN imports ELSE Append(imports, f)
             at == CHOOSE k \in DOMAIN list : list[k] = f
             call == [site |-> Site(fixups[next]), fixup |-> next, import |-> at - 1]
  <2>1. imports' = list /\ extcalls' = Append(extcalls, call) /\ ~Defined(f) /\ fixups[next].kind = "call"
        /\ UNCHANGED <<word, diagnosed>>
    BY <1>7 DEF ResolveImport, Resolving
  <2>2. f \in Called /\ ~Known(next) BY <1>2, <2>1 DEF Known
  <2>3. /\ list \in Seq(Called) /\ Len(imports) \in Nat /\ \A i \in 1 .. Len(imports) : list[i] = imports[i]
        /\ \E k \in DOMAIN list : list[k] = f
    <3>1. CASE Imported(imports, f)
      <4>1. list = imports BY <3>1
      <4>2. \E k \in DOMAIN imports : imports[k] = f BY <3>1 DEF Imported
      <4> HIDE DEF list, f
      <4>q. QED BY <1>2, <4>1, <4>2
    <3>2. CASE ~Imported(imports, f)
      <4>1. list = Append(imports, f) BY <3>2
      <4> HIDE DEF list, f
      <4>2. /\ list \in Seq(Called) /\ DOMAIN list = 1 .. Len(imports) + 1 /\ list[Len(imports) + 1] = f /\ Len(imports) \in Nat
            /\ \A i \in 1 .. Len(imports) : list[i] = imports[i]
        BY <1>2, <2>2, <4>1, SeqAppended
      <4>q. QED BY <4>2
    <3>q. QED BY <3>1, <3>2
  <2>4. at \in DOMAIN list /\ list[at] = f BY <2>3
  <2>5. call \in Extcall /\ imports'[call.import + 1] = f /\ call.fixup = next /\ call.site = Site(fixups[next])
    <3>2. Site(fixups[next]) \in Nat BY <1>2, SiteTyped
    <3> HIDE DEF at, list, f
    <3>1. at \in Nat /\ at - 1 \in Nat /\ at - 1 + 1 = at
      <4>1. at \in 1 .. Len(list) /\ Len(list) \in Nat BY <2>3, <2>4
      <4>q. QED BY <4>1
    <3>q. QED BY <1>2, <2>1, <2>4, <3>1, <3>2 DEF Extcall
  <2> HIDE DEF call, at, list
  <2>6. /\ DOMAIN extcalls' = 1 .. Len(extcalls) + 1 /\ DOMAIN extcalls = 1 .. Len(extcalls) /\ Len(extcalls) \in Nat
        /\ extcalls'[Len(extcalls) + 1] = call /\ \A k \in 1 .. Len(extcalls) : extcalls'[k] = extcalls[k]
    BY <1>2, <2>1, <2>5, SeqAppended
  <2>7. \A i \in 1 .. next : Settles(i)
    <3> SUFFICES ASSUME NEW i \in 1 .. next PROVE Settles(i) OBVIOUS
    <3>1. CASE i = next
      <4>1. extcalls'[Len(extcalls) + 1].fixup = i /\ Len(extcalls) + 1 \in DOMAIN extcalls' BY <2>5, <2>6, <3>1
      <4>q. QED BY <1>3, <2>2, <3>1, <4>1
    <3>2. CASE i \in 1 .. next - 1
      <4>1. CASE Known(i) BY <1>3, <1>4, <2>1, <3>2, <4>1
      <4>2. CASE ~Known(i) /\ diagnosed BY <1>3, <2>1, <4>2
      <4>3. CASE ~Known(i) /\ ~diagnosed
        <5>1. PICK k \in DOMAIN extcalls : extcalls[k].fixup = i BY <1>4, <3>2, <4>3
        <5>2. k \in DOMAIN extcalls' /\ extcalls'[k].fixup = i BY <2>6, <5>1
        <5>q. QED BY <1>3, <4>3, <5>2
      <4>q. QED BY <4>1, <4>2, <4>3
    <3>q. QED BY <1>2, <3>1, <3>2
  <2>8. \A k \in DOMAIN extcalls' : Notes(k)
    <3> SUFFICES ASSUME NEW k \in 1 .. Len(extcalls) + 1 PROVE Notes(k) BY <2>6
    <3>1. CASE k = Len(extcalls) + 1
      <4>1. extcalls'[k] = call /\ next \in 1 .. next' - 1 BY <1>1, <1>2, <2>6, <3>1
      <4>q. QED BY <2>2, <2>5, <4>1
    <3>2. CASE k \in 1 .. Len(extcalls)
      <4>1. extcalls'[k] = extcalls[k] /\ extcalls[k] \in Extcall /\ extcalls[k].import < Len(imports) /\ k \in DOMAIN extcalls
        BY <1>2, <2>6, <3>2 DEF TypeInv, ImportInv
      <4>2. extcalls[k].import + 1 \in 1 .. Len(imports) BY <2>3, <4>1 DEF Extcall
      <4>3. imports'[extcalls[k].import + 1] = imports[extcalls[k].import + 1] BY <2>1, <2>3, <4>2
      <4>4. extcalls[k].fixup \in 1 .. next' - 1 BY <1>1, <1>2, <1>5, <4>1
      <4>q. QED BY <1>5, <4>1, <4>3, <4>4
    <3>q. QED BY <2>6, <3>1, <3>2
  <2>q. QED BY <1>1, <1>2, <1>3, <2>7, <2>8 DEF CallInv
<1>8. CASE ImportOverflow
  <2>1. diagnosed' /\ ~Known(next) /\ UNCHANGED <<word, import_vars>>
    BY <1>8 DEF ImportOverflow, Resolving, Known
  <2>2. \A i \in 1 .. next : Settles(i)
    <3> SUFFICES ASSUME NEW i \in 1 .. next PROVE Settles(i) OBVIOUS
    <3>1. CASE i = next BY <1>3, <2>1, <3>1
    <3>2. CASE i \in 1 .. next - 1 BY <1>3, <1>4, <2>1, <3>2
    <3>q. QED BY <1>2, <3>1, <3>2
  <2>3. \A k \in DOMAIN extcalls' : Notes(k)
    BY <1>1, <1>2, <1>5, <2>1
  <2>q. QED BY <1>1, <1>2, <1>3, <2>2, <2>3 DEF CallInv
<1>q. QED BY <1>6, <1>7, <1>8 DEF bin_emit

\* A writer that has not finished leaves what bin_emit noted.
LEMMA SettledCalls ==
  ASSUME TypeInv, CallInv, Settled, phase' # "end" => UNCHANGED <<word, diagnosed>>,
         phase = "resolve" => next > Len(fixups)
  PROVE  CallInv'
<1>1. \A i : (Known(i)' <=> Known(i)) /\ Value(i)' = Value(i) /\ Site(fixups[i])' = Site(fixups[i])
  BY SameValues DEF Settled
<1>2. next > Len(fixups) BY DEF Settled, CallInv
<1>3. UNCHANGED <<next, extcalls, imports, fixups>> /\ phase \in {"resolve", "names", "hash"} BY DEF Settled
<1>q. QED BY <1>1, <1>2, <1>3 DEF CallInv

\* bin_emit and the writers keep what is known of the calls.
LEMMA CallStep == ASSUME TypeInv, CallInv, [Next]_vars PROVE CallInv'
<1>1. CASE Program BY <1>1, ProgramCalls
<1>2. CASE bin_emit BY <1>2, EmitCalls
<1>3. CASE ElfWriter!Next \/ PeWriter!Next \/ MachOWriter!Next
  BY <1>3, WritersSettle, SettledCalls
<1>4. CASE UNCHANGED vars
  <2>1. \A i : (Known(i)' <=> Known(i)) /\ Value(i)' = Value(i) /\ Site(fixups[i])' = Site(fixups[i])
    BY <1>4, SameValues
  <2>q. QED BY <1>4, <2>1 DEF CallInv
<1>q. QED BY <1>1, <1>2, <1>3, <1>4 DEF Next
\* What a step of a writer does to the names.
LEMMA WritersName ==
  ASSUME TypeInv, ElfWriter!Next \/ PeWriter!Next \/ MachOWriter!Next
  PROVE  \/ phase = "resolve" /\ phase' = "names" /\ name_off' = << >> /\ name_end' = FirstName
         \/ /\ phase = "names" /\ phase' = "names" /\ name_off' = Append(name_off, name_end)
            /\ \E size \in Nat : Gap <= size /\ name_end' = name_end + size
         \/ phase' = "hash" /\ phase \in {"names", "hash"} /\ UNCHANGED <<name_off, name_end>>
         \/ phase' = "end"
<1>0. /\ Len(imports) \in Nat /\ imports \in Seq(Called) /\ Len(name_off) \in Nat
      /\ phase = "resolve" => name_off = << >>
  BY DEF TypeInv, ImportInv, NameInv
<1>1. CASE ElfWriter!Next
  <2>1. CASE ElfWriter!WriteStatic \/ ElfWriter!WriteDynamic
    BY <2>1 DEF ElfWriter!WriteStatic, ElfWriter!WriteDynamic, ElfWriter!Write, ElfWriter!TooLarge
  <2>2. CASE ElfWriter!StartNames
    BY <1>0, <2>2 DEF ElfWriter!StartNames, ElfWriter!BinEmitted, ElfWriter!NamesFrom, ElfWriter!Afterwards, ElfWriter!Elf,
       FirstName
  <2>3. CASE ElfWriter!ImportName
    <3> DEFINE name == ElfWriter!ImportNames[Len(name_off) + 1]
    <3>1. /\ phase = "names" /\ phase' = "names" /\ Len(name_off) < Len(imports) + 1 /\ target # "pe-x86_64"
          /\ name_off' = Append(name_off, name_end) /\ name_end' = name_end + (Length[name] + 1)
      BY <2>3 DEF ElfWriter!ImportName, ElfWriter!Elf, ElfWriter!WriteName, ElfWriter!nimp
    <3>2. name \in Names BY <1>0, <3>1 DEF ElfWriter!ImportNames, Names
    <3> HIDE DEF name
    <3>3. Length[name] + 1 \in Nat /\ Gap <= Length[name] + 1
      <4>1. Length[name] \in 1 .. 95 BY <3>2, NamesAssumption
      <4>2. Gap = 1 BY <3>1 DEF Gap
      <4>q. QED BY <4>1, <4>2
    <3>q. QED BY <3>1, <3>3
  <2>4. CASE ElfWriter!EndNames
    BY <2>4 DEF ElfWriter!EndNames, ElfWriter!TooLarge
  <2>5. CASE ElfWriter!HashSymbol
    BY <2>5 DEF ElfWriter!HashSymbol
  <2>q. QED BY <1>1, <2>1, <2>2, <2>3, <2>4, <2>5 DEF ElfWriter!Next
<1>2. CASE PeWriter!Next
  <2>1. CASE PeWriter!StartNames
    <3>1. /\ phase = "resolve" /\ phase' = "names" /\ name_off' = name_off /\ target = "pe-x86_64"
          /\ name_end' = PeWriter!iat_off + PeWriter!iat_size
      BY <2>1 DEF PeWriter!StartNames, PeWriter!BinEmitted, PeWriter!NamesFrom, PeWriter!Afterwards, PeWriter!Pe
    <3>2. PeWriter!iat_off + PeWriter!iat_size = 56 + 16 * (Len(imports) + 1)
      BY <1>0 DEF PeWriter!iat_off, PeWriter!iat_size, PeWriter!ilt_off, PeWriter!ilt_size, PeWriter!desc_size,
         PeWriter!nimp, PeWriter!PE_THUNK_ENTRY
    <3>q. QED BY <1>0, <3>1, <3>2 DEF FirstName
  <2>2. CASE PeWriter!ImportName
    <3> DEFINE name == PeWriter!pe_import_name(Len(name_off))
               bytes == 2 + Length[name] + 1
    <3>1. /\ phase = "names" /\ phase' = "names" /\ Len(name_off) < Len(imports) + 1 /\ target = "pe-x86_64"
          /\ name_off' = Append(name_off, name_end) /\ name_end' = name_end + align_up(bytes, 2)
      BY <2>2 DEF PeWriter!ImportName, PeWriter!Pe, PeWriter!WriteName, PeWriter!nimp, align_up, PeWriter!align_up
    <3>2. name \in Names
      <4>1. CASE Len(name_off) = Len(imports)
        BY <4>1 DEF PeWriter!pe_import_name, PeWriter!exit_idx, Names
      <4>2. CASE Len(name_off) # Len(imports)
        <5>1. imports[Len(name_off) + 1] \in Called BY <1>0, <3>1, <4>2
        <5>q. QED BY <4>2, <5>1 DEF PeWriter!pe_import_name, PeWriter!pe_export_name, PeWriter!exit_idx, Names
      <4>q. QED BY <4>1, <4>2
    <3> HIDE DEF name
    <3>3. bytes \in Nat /\ bytes >= 4 BY <3>2, NamesAssumption
    <3> HIDE DEF bytes
    <3>4. align_up(bytes, 2) \in Nat /\ bytes <= align_up(bytes, 2) BY <3>3, RoundedUp
    <3>5. 4 <= align_up(bytes, 2) BY <3>3, <3>4
    <3>q. QED BY <3>1, <3>4, <3>5 DEF Gap
  <2>3. CASE PeWriter!WritePe
    BY <2>3 DEF PeWriter!WritePe, PeWriter!Write, PeWriter!TooLarge
  <2>q. QED BY <1>2, <2>1, <2>2, <2>3 DEF PeWriter!Next
<1>3. CASE MachOWriter!Next
  <2>1. CASE MachOWriter!StartNames
    BY <1>0, <2>1 DEF MachOWriter!StartNames, MachOWriter!BinEmitted, MachOWriter!NamesFrom, MachOWriter!Afterwards,
       MachOWriter!MachO, FirstName
  <2>2. CASE MachOWriter!ImportName
    <3> DEFINE name == imports[Len(name_off) + 1]
    <3>1. /\ phase = "names" /\ phase' = "names" /\ Len(name_off) < Len(imports) /\ target # "pe-x86_64"
          /\ name_off' = Append(name_off, name_end) /\ name_end' = name_end + (Length[name] + 2)
      BY <2>2 DEF MachOWriter!ImportName, MachOWriter!MachO, MachOWriter!WriteName, MachOWriter!n_imp
    <3>2. name \in Names BY <1>0, <3>1 DEF Names
    <3> HIDE DEF name
    <3>3. Length[name] + 2 \in Nat /\ Gap <= Length[name] + 2
      <4>1. Length[name] \in 1 .. 95 BY <3>2, NamesAssumption
      <4>2. Gap = 1 BY <3>1 DEF Gap
      <4>q. QED BY <4>1, <4>2
    <3>q. QED BY <3>1, <3>3
  <2>3. CASE MachOWriter!WriteMachO
    BY <2>3 DEF MachOWriter!WriteMachO, MachOWriter!Write
  <2>q. QED BY <1>3, <2>1, <2>2, <2>3 DEF MachOWriter!Next
<1>q. QED BY <1>1, <1>2, <1>3

\* A name is written behind the names before it.
LEMMA NameOrdered ==
  ASSUME NEW first \in Nat, NEW gap \in Nat, NEW offs \in Seq(Nat), NEW end \in Nat, NEW size \in Nat, gap <= size, first <= end,
         \A i \in DOMAIN offs : first <= offs[i] /\ offs[i] + gap <= end,
         \A i, j \in DOMAIN offs : i < j => offs[i] + gap <= offs[j]
  PROVE  LET more == Append(offs, end)
         IN /\ \A i \in DOMAIN more : first <= more[i] /\ more[i] + gap <= end + size
            /\ \A i, j \in DOMAIN more : i < j => more[i] + gap <= more[j]
<1> DEFINE more == Append(offs, end)
<1>1. /\ DOMAIN more = 1 .. Len(offs) + 1 /\ DOMAIN offs = 1 .. Len(offs) /\ Len(offs) \in Nat
      /\ more[Len(offs) + 1] = end /\ \A i \in 1 .. Len(offs) : more[i] = offs[i] /\ offs[i] \in Nat
  BY SeqAppended
<1> HIDE DEF more
<1>2. \A i \in 1 .. Len(offs) + 1 : first <= more[i] /\ more[i] + gap <= end + size
  <2> SUFFICES ASSUME NEW i \in 1 .. Len(offs) + 1 PROVE first <= more[i] /\ more[i] + gap <= end + size OBVIOUS
  <2>1. CASE i = Len(offs) + 1 BY <1>1, <2>1
  <2>2. CASE i \in 1 .. Len(offs)
    <3>1. more[i] = offs[i] /\ offs[i] \in Nat /\ first <= offs[i] /\ offs[i] + gap <= end BY <1>1, <2>2
    <3>q. QED BY <3>1
  <2>q. QED BY <1>1, <2>1, <2>2
<1>3. \A i, j \in 1 .. Len(offs) + 1 : i < j => more[i] + gap <= more[j]
  <2> SUFFICES ASSUME NEW i \in 1 .. Len(offs) + 1, NEW j \in 1 .. Len(offs) + 1, i < j
               PROVE  more[i] + gap <= more[j]
    OBVIOUS
  <2>0. i \in 1 .. Len(offs) BY <1>1
  <2>a. \A m \in 1 .. Len(offs) : offs[m] \in Nat BY <1>1
  <2>1. CASE j = Len(offs) + 1
    <3>1. more[i] = offs[i] /\ more[j] = end BY <1>1, <2>0, <2>1
    <3>2. offs[i] + gap <= end BY <1>1, <2>0
    <3>q. QED BY <2>0, <2>a, <3>1, <3>2
  <2>2. CASE j \in 1 .. Len(offs)
    <3>1. more[i] = offs[i] /\ more[j] = offs[j] BY <1>1, <2>0, <2>2
    <3>2. offs[i] + gap <= offs[j] BY <1>1, <2>0, <2>2
    <3>q. QED BY <2>0, <2>2, <2>a, <3>1, <3>2
  <2>b. j = Len(offs) + 1 \/ j \in 1 .. Len(offs)
    <3>1. \A n \in Nat : \A m \in 1 .. n + 1 : m = n + 1 \/ m \in 1 .. n OBVIOUS
    <3>2. Len(offs) \in Nat BY <1>1
    <3>q. QED BY <3>1, <3>2
  <2>q. QED BY <2>1, <2>2, <2>b
<1>q. QED BY <1>1, <1>2, <1>3 DEF more

\* The names stay in order.
LEMMA OrderStep == ASSUME TypeInv, OrderInv, [Next]_vars PROVE OrderInv'
<1>1. Len(imports) \in Nat /\ name_off \in Seq(Nat) /\ name_end \in Nat
  BY DEF TypeInv, ImportInv, NameInv
<1>2. CASE Program \/ bin_emit
  <2>1. phase' \in {"code", "resolve"}
    BY <1>2 DEF Program, EmitFunction, emit_fn_call, emit_string_lit, Noted, EndCode,
       bin_emit, ResolveString, ResolveCall, ResolveImport, ImportOverflow, Resolving, Resolved
  <2>q. QED BY <2>1 DEF OrderInv
<1>3. CASE ElfWriter!Next \/ PeWriter!Next \/ MachOWriter!Next
  <2>1. Settled BY <1>3, WritersSettle
  <2>2. FirstName' = FirstName /\ Gap' = Gap BY <2>1 DEF Settled, FirstName, Gap
  <2>3. FirstName \in Nat /\ Gap \in Nat BY <1>1 DEF FirstName, Gap
  <2>4. CASE phase = "resolve" /\ phase' = "names" /\ name_off' = << >> /\ name_end' = FirstName
    <3>1. DOMAIN name_off' = {} BY <2>4
    <3>q. QED BY <2>2, <2>3, <2>4, <3>1 DEF OrderInv, NamesInOrder
  <2>5. CASE /\ phase = "names" /\ phase' = "names" /\ name_off' = Append(name_off, name_end)
             /\ \E size \in Nat : Gap <= size /\ name_end' = name_end + size
    <3>1. PICK size \in Nat : Gap <= size /\ name_end' = name_end + size BY <2>5
    <3>2. /\ FirstName <= name_end
          /\ \A i \in DOMAIN name_off : FirstName <= name_off[i] /\ name_off[i] + Gap <= name_end
          /\ \A i, j \in DOMAIN name_off : i < j => name_off[i] + Gap <= name_off[j]
      BY <2>5 DEF OrderInv, NamesInOrder
    <3>3. /\ \A i \in DOMAIN name_off' : FirstName <= name_off'[i] /\ name_off'[i] + Gap <= name_end'
          /\ \A i, j \in DOMAIN name_off' : i < j => name_off'[i] + Gap <= name_off'[j]
      BY <1>1, <2>3, <2>5, <3>1, <3>2, NameOrdered
    <3>4. FirstName <= name_end' BY <1>1, <2>3, <3>1, <3>2
    <3>q. QED BY <2>2, <3>3, <3>4 DEF OrderInv, NamesInOrder
  <2>6. CASE phase' = "hash" /\ phase \in {"names", "hash"} /\ UNCHANGED <<name_off, name_end>>
    BY <2>2, <2>6 DEF OrderInv, NamesInOrder
  <2>7. CASE phase' = "end" BY <2>7 DEF OrderInv
  <2>q. QED BY <1>3, <2>4, <2>5, <2>6, <2>7, WritersName
<1>4. CASE UNCHANGED vars
  BY <1>4 DEF OrderInv, NamesInOrder, FirstName, Gap
<1>q. QED BY <1>2, <1>3, <1>4 DEF Next

\* A name has its place among the buckets.
LEMMA HashTyped ==
  ASSUME TypeInv, NEW i \in 1 .. Len(imports) + 1
  PROVE  HashOf(i) \in 0 .. Len(imports) /\ ElfWriter!ImportNames[i] \in Names
<1>1. imports \in Seq(Called) /\ Len(imports) \in Nat BY DEF TypeInv, ImportInv
<1> DEFINE name == ElfWriter!ImportNames[i]
           n == Len(imports) + 1
<1>2. name \in Names BY <1>1 DEF ElfWriter!ImportNames, Names
<1> HIDE DEF name
<1>3. Hash[name] \in Nat /\ n \in Nat \ {0} BY <1>1, <1>2, NamesAssumption
<1> HIDE DEF n
<1>4. Hash[name] % n \in 0 .. n - 1 BY <1>3
<1>5. HashOf(i) = Hash[name] % n BY DEF HashOf, ElfWriter!nimp, n, name
<1>6. HashOf(i) \in 0 .. Len(imports) BY <1>1, <1>4, <1>5 DEF n
<1>q. QED BY <1>2, <1>6 DEF name

\* A symbol is put at the head of its list, and the list goes on where it did.
LEMMA HashedSymbol == ASSUME TypeInv, ListInv, ElfWriter!HashSymbol PROVE ListInv'
<1> DEFINE n == Len(imports)
           s == Len(chain) + 1
           h == HashOf(s)
<1>1. /\ phase = "hash" /\ Len(chain) < n + 1 /\ chain' = Append(chain, bucket[h]) /\ bucket' = [bucket EXCEPT ![h] = s]
      /\ UNCHANGED <<phase, target, imports, name_off>>
  BY DEF ElfWriter!HashSymbol, ElfWriter!nimp, ElfWriter!import_vars, HashOf
<1>2. /\ n \in Nat /\ Elf /\ Len(name_off) = n + 1 /\ bucket \in [0 .. n -> Nat] /\ chain \in Seq(Nat)
      /\ \A g \in 0 .. n : bucket[g] <= Len(chain)
      /\ \A i \in DOMAIN chain :
           /\ chain[i] < i
           /\ bucket[HashOf(i)] = i \/ \E j \in i + 1 .. Len(chain) : chain[j] = i /\ HashOf(j) = HashOf(i)
  BY <1>1 DEF ListInv, TypeInv, ImportInv
<1>3. s \in 1 .. n + 1 /\ s \in Nat BY <1>1, <1>2
<1> HIDE DEF s, h
<1>4. \A i \in 1 .. n + 1 : HashOf(i) \in 0 .. n BY HashTyped
<1>5. h \in 0 .. n /\ bucket[h] \in Nat BY <1>2, <1>3, <1>4 DEF h
<1>6. /\ chain' \in Seq(Nat) /\ Len(chain') = s /\ DOMAIN chain' = 1 .. s /\ DOMAIN chain = 1 .. s - 1 /\ Len(chain) = s - 1
      /\ chain'[s] = bucket[h] /\ \A i \in 1 .. s - 1 : chain'[i] = chain[i]
  BY <1>1, <1>2, <1>5, SeqAppended DEF s
<1>7. bucket' \in [0 .. n -> Nat] /\ bucket'[h] = s /\ \A g \in 0 .. n : g # h => bucket'[g] = bucket[g]
  BY <1>1, <1>2, <1>3, <1>5
<1>8. \A g \in 0 .. n : bucket'[g] <= s
  <2> SUFFICES ASSUME NEW g \in 0 .. n PROVE bucket'[g] <= s OBVIOUS
  <2>1. CASE g = h BY <1>3, <1>7, <2>1
  <2>2. CASE g # h
    <3>1. bucket'[g] = bucket[g] /\ bucket[g] \in Nat /\ bucket[g] <= s - 1 BY <1>2, <1>6, <1>7, <2>2
    <3>q. QED BY <1>3, <3>1
  <2>q. QED BY <2>1, <2>2
<1>9. \A i : HashOf(i)' = HashOf(i) BY <1>1 DEF HashOf, ElfWriter!ImportNames, ElfWriter!nimp
<1>10. ASSUME NEW i \in 1 .. s
       PROVE  /\ chain'[i] < i
              /\ bucket'[HashOf(i)] = i \/ \E j \in i + 1 .. s : chain'[j] = i /\ HashOf(j) = HashOf(i)
  <2>1. CASE i = s BY <1>2, <1>3, <1>5, <1>6, <1>7, <2>1 DEF h
  <2>2. CASE i \in 1 .. s - 1
    <3>1. chain'[i] < i BY <1>2, <1>6, <2>2
    <3>2. HashOf(i) \in 0 .. n BY <1>3, <1>4, <2>2
    <3>3. CASE bucket[HashOf(i)] = i /\ HashOf(i) = h
      <4>1. s \in i + 1 .. s /\ chain'[s] = i /\ HashOf(s) = HashOf(i) BY <1>3, <1>6, <2>2, <3>3 DEF h
      <4>q. QED BY <3>1, <4>1
    <3>4. CASE bucket[HashOf(i)] = i /\ HashOf(i) # h BY <1>7, <3>1, <3>2, <3>4
    <3>5. CASE \E j \in i + 1 .. Len(chain) : chain[j] = i /\ HashOf(j) = HashOf(i)
      <4>1. PICK j \in i + 1 .. s - 1 : chain[j] = i /\ HashOf(j) = HashOf(i) BY <1>6, <3>5
      <4>2. j \in 1 .. s - 1 /\ j \in i + 1 .. s BY <1>3, <2>2, <4>1
      <4>3. chain'[j] = i BY <1>6, <4>1, <4>2
      <4>q. QED BY <3>1, <4>1, <4>2, <4>3
    <3>q. QED BY <1>2, <1>6, <2>2, <3>3, <3>4, <3>5
  <2>q. QED BY <1>3, <2>1, <2>2
<1>11. /\ \A i \in DOMAIN chain' :
            /\ chain'[i] < i
            /\ bucket'[HashOf(i)'] = i \/ \E j \in i + 1 .. Len(chain') : chain'[j] = i /\ HashOf(j)' = HashOf(i)'
       /\ Len(chain') <= n + 1
  BY <1>3, <1>6, <1>9, <1>10
<1>q. QED BY <1>1, <1>2, <1>6, <1>7, <1>8, <1>11 DEF ListInv, Elf

\* The lists of the hash table stay what they are.
LEMMA ListStep == ASSUME TypeInv, ListInv, [Next]_vars PROVE ListInv'
<1>0. Len(imports) \in Nat BY DEF TypeInv, ImportInv
<1>1. CASE Program \/ bin_emit
  <2>1. phase \in {"code", "resolve"} /\ phase' \in {"code", "resolve"} /\ chain' = chain
    BY <1>1 DEF Program, EmitFunction, emit_fn_call, emit_string_lit, Noted, EndCode,
       bin_emit, ResolveString, ResolveCall, ResolveImport, ImportOverflow, Resolving, Resolved
  <2>q. QED BY <2>1 DEF ListInv
<1>2. CASE ElfWriter!StartNames \/ ElfWriter!ImportName \/ PeWriter!StartNames \/ PeWriter!ImportName
           \/ MachOWriter!StartNames \/ MachOWriter!ImportName
  <2>1. phase \in {"resolve", "names"} /\ phase' = "names" /\ chain' = chain
    BY <1>2 DEF ElfWriter!StartNames, ElfWriter!ImportName, PeWriter!StartNames, PeWriter!ImportName,
       MachOWriter!StartNames, MachOWriter!ImportName, ElfWriter!BinEmitted, PeWriter!BinEmitted, MachOWriter!BinEmitted,
       ElfWriter!NamesFrom, PeWriter!NamesFrom, MachOWriter!NamesFrom,
       ElfWriter!Afterwards, PeWriter!Afterwards, MachOWriter!Afterwards,
       ElfWriter!WriteName, PeWriter!WriteName, MachOWriter!WriteName
  <2>q. QED BY <2>1 DEF ListInv
<1>3. CASE ElfWriter!EndNames
  <2>1. CASE phase' = "end" BY <2>1 DEF ListInv
  <2>2. CASE phase' # "end"
    <3>1. /\ phase = "names" /\ phase' = "hash" /\ Elf' /\ Len(name_off') = Len(imports') + 1 /\ imports' = imports
          /\ bucket' = [g \in 0 .. Len(imports) + 1 - 1 |-> 0] /\ chain' = chain
      BY <1>3, <2>2 DEF ElfWriter!EndNames, ElfWriter!Elf, ElfWriter!nimp, ElfWriter!TooLarge, ElfWriter!import_vars, Elf
    <3>2. chain' = << >> BY <3>1 DEF ListInv
    <3>3. Len(imports) + 1 - 1 = Len(imports) BY <1>0
    <3>4. bucket' \in [0 .. Len(imports) -> Nat] /\ \A g \in 0 .. Len(imports) : bucket'[g] = 0 BY <3>1, <3>3
    <3>q. QED BY <1>0, <3>1, <3>2, <3>4 DEF ListInv
  <2>q. QED BY <2>1, <2>2
<1>4. CASE ElfWriter!HashSymbol BY <1>4, HashedSymbol
<1>5. CASE ElfWriter!WriteStatic \/ ElfWriter!WriteDynamic \/ PeWriter!WritePe \/ MachOWriter!WriteMachO
  <2>1. phase' = "end"
    BY <1>5 DEF ElfWriter!WriteStatic, ElfWriter!WriteDynamic, PeWriter!WritePe, MachOWriter!WriteMachO,
       ElfWriter!Write, ElfWriter!TooLarge, PeWriter!Write, PeWriter!TooLarge, MachOWriter!Write
  <2>q. QED BY <2>1 DEF ListInv
<1>6. CASE UNCHANGED vars
  <2>1. UNCHANGED <<target, phase, imports, name_off, bucket, chain>> BY <1>6
  <2>2. \A i : HashOf(i)' = HashOf(i) BY <2>1 DEF HashOf, ElfWriter!ImportNames, ElfWriter!nimp
  <2>3. Elf' <=> Elf BY <2>1 DEF Elf
  <2>q. QED BY <2>1, <2>2, <2>3 DEF ListInv
<1>q. QED BY <1>1, <1>2, <1>3, <1>4, <1>5, <1>6 DEF Next, ElfWriter!Next, PeWriter!Next, MachOWriter!Next

-----------------------------------------------------------------------------
(* What is where a reference leads                                           *)

\* The calls of imports lead to stubs of the given size, the others to the code.
Linked(text, stubs, size) ==
  \A i \in DOMAIN fixups :
    IF Known(i) THEN word[i] = Value(i)
    ELSE \E m \in DOMAIN imports :
           imports[m] = fixups[i].key /\ word[i] = Branch(text + Site(fixups[i]), stubs + (m - 1) * size)

\* A piece that is alone at its place is what the program finds there.
LEMMA AtPiece ==
  ASSUME NEW p \in file.pieces, NEW addr, NEW s \in DOMAIN file.segments, Mapped(file.segments[s], addr),
         p.at = file.segments[s].off + addr - file.segments[s].addr,
         \A t \in DOMAIN file.segments : Mapped(file.segments[t], addr) =>
           file.segments[t].off + addr - file.segments[t].addr = p.at,
         \A q \in file.pieces : q.at = p.at => q.what = p.what
  PROVE  At(addr) = p.what /\ Holds(addr, p.what)
<1> DEFINE here(t) == file.segments[t].off + addr - file.segments[t].addr
           found(t) == IF Mapped(file.segments[t], addr) THEN {q.what : q \in {r \in file.pieces : r.at = here(t)}} ELSE {}
<1>1. Found(addr) = UNION {found(t) : t \in DOMAIN file.segments}
  BY DEF Found
<1>2. p.what \in found(s) OBVIOUS
<1>3. \A t \in DOMAIN file.segments : \A w \in found(t) : w = p.what OBVIOUS
<1> HIDE DEF found
<1>4. p.what \in Found(addr) /\ \A w \in Found(addr) : w = p.what BY <1>1, <1>2, <1>3
<1>5. Found(addr) # {} /\ (CHOOSE w \in Found(addr) : TRUE) = p.what BY <1>4
<1>q. QED BY <1>4, <1>5 DEF At, Holds

\* Where functions, strings and sites are, in numbers.
LEMMA Places ==
  ASSUME TypeInv, PlaceInv
  PROVE  /\ code_bytes \in Nat /\ text_size \in Nat /\ Unit \in {1, 4} /\ (Arm => Unit = 4)
         /\ \A f : Defined(f) => /\ FnAt(f) \in Nat /\ FnAt(f) < code_bytes /\ FnAt(f) < text_size
                                 /\ \E a \in Nat : FnAt(f) = a * Unit
         /\ \A i \in DOMAIN fixups : fixups[i].kind = "str" =>
              /\ fixups[i].aux \in Nat /\ code_bytes + fixups[i].aux \in Nat
              /\ code_bytes + fixups[i].aux < text_size
         /\ \A i \in DOMAIN fixups : \E a \in Nat : Site(fixups[i]) = a * Unit
<1>1. Unit \in {1, 4} /\ (Arm => Unit = 4) BY DEF Unit
<1>2. /\ code_len \in Nat /\ cstrs_len \in Nat /\ fixups \in Seq(Fixup)
      /\ fn_syms \in Seq([key : Functions, at : Nat])
  BY Caps DEF TypeInv, CodeInv, PlaceInv
<1>3. code_bytes \in Nat /\ text_size = code_bytes + cstrs_len /\ text_size \in Nat
  BY <1>1, <1>2 DEF code_bytes, text_size
<1>4. ASSUME NEW f, Defined(f)
      PROVE  /\ FnAt(f) \in Nat /\ FnAt(f) < code_bytes /\ FnAt(f) < text_size
             /\ \E a \in Nat : FnAt(f) = a * Unit
  <2> DEFINE j == CHOOSE i \in DOMAIN fn_syms : fn_syms[i].key = f
             a == fn_syms[j].at
  <2>1. j \in DOMAIN fn_syms BY <1>4 DEF Defined
  <2>2. fn_syms[j] \in [key : Functions, at : Nat] BY <1>2, <2>1, SeqElement
  <2>3. a \in Nat /\ a < code_len BY <2>1, <2>2 DEF PlaceInv
  <2>4. FnAt(f) = a * Unit BY DEF FnAt
  <2> HIDE DEF a, j
  <2>5. a * Unit \in Nat /\ a * Unit < code_len * Unit BY <1>1, <1>2, <2>3
  <2>6. code_bytes = code_len * Unit BY DEF code_bytes
  <2>q. QED BY <1>2, <1>3, <2>3, <2>4, <2>5, <2>6
<1>5. ASSUME NEW i \in DOMAIN fixups, fixups[i].kind = "str"
      PROVE  /\ fixups[i].aux \in Nat /\ code_bytes + fixups[i].aux \in Nat
             /\ code_bytes + fixups[i].aux < text_size
  <2>1. fixups[i] \in Fixup BY <1>2, SeqElement
  <2>2. fixups[i].aux \in Nat BY <2>1 DEF Fixup
  <2>3. fixups[i].aux + 3 <= cstrs_len BY <1>5 DEF PlaceInv, StringSize
  <2>q. QED BY <1>2, <1>3, <2>2, <2>3
<1>6. ASSUME NEW i \in DOMAIN fixups PROVE \E a \in Nat : Site(fixups[i]) = a * Unit
  <2>1. fixups[i] \in Fixup BY <1>2, SeqElement
  <2>2. fixups[i].site \in Nat BY <2>1 DEF Fixup
  <2>q. QED BY <2>2 DEF Site
<1>q. QED BY <1>1, <1>3, <1>4, <1>5, <1>6

\* bin_emit's values lead to the function or the string.
LEMMA KnownLeads ==
  ASSUME TypeInv, PlaceInv, NEW i \in DOMAIN fixups, Known(i), word[i] = Value(i), file.text \in Nat
  PROVE  LeadsTo(i) = file.text + (IF fixups[i].kind = "str" THEN code_bytes + fixups[i].aux ELSE FnAt(fixups[i].key))
<1> DEFINE t == file.text
           s == Site(fixups[i])
<1>1. t \in Nat /\ code_bytes \in Nat /\ Unit \in {1, 4} /\ (Arm => Unit = 4) BY Places
<1>2. PICK a \in Nat : s = a * Unit BY Places
<1>3. fixups[i].kind \in {"call", "str"}
  <2>1. fixups[i] \in Fixup BY SeqElement DEF TypeInv, CodeInv
  <2>q. QED BY <2>1 DEF Fixup
<1>4. CASE fixups[i].kind = "str"
  <2> DEFINE x == code_bytes + fixups[i].aux
  <2>1. x \in Nat BY <1>4, Places
  <2>2. word[i] = Relative(s, x) BY <1>4 DEF Value
  <2>3. LeadsTo(i) = IF Arm THEN t + s + word[i] ELSE t + s + 4 + word[i]
    BY <1>4 DEF LeadsTo
  <2> HIDE DEF x, s, t
  <2>4. word[i] = IF Arm THEN x - s ELSE x - (s + 4) BY <2>2 DEF Relative
  <2>5. s \in Nat BY <1>1, <1>2
  <2>6. LeadsTo(i) = t + x BY <1>1, <2>1, <2>3, <2>4, <2>5
  <2>q. QED BY <1>4, <2>6 DEF x, t
<1>5. CASE fixups[i].kind = "call"
  <2> DEFINE x == FnAt(fixups[i].key)
  <2>1. x \in Nat /\ \E b \in Nat : x = b * Unit BY <1>5, Places DEF Known
  <2>2. word[i] = Branch(s, x) BY <1>5 DEF Value
  <2>3. LeadsTo(i) = IF Arm THEN t + s + 4 * word[i] ELSE t + s + 4 + word[i]
    BY <1>5 DEF LeadsTo
  <2> HIDE DEF x, s, t
  <2>4. word[i] = IF Arm THEN (x - s) \div 4 ELSE x - (s + 4) BY <2>2 DEF Branch
  <2>5. s \in Nat BY <1>1, <1>2
  <2>6. PICK b \in Nat : x = b * Unit BY <2>1
  <2>7. CASE Arm
    <3>1. s = a * 4 /\ x = b * 4 BY <1>1, <1>2, <2>6, <2>7
    <3>2. (x - s) \div 4 = b - a BY <3>1
    <3>3. LeadsTo(i) = t + x BY <1>1, <2>3, <2>4, <2>7, <3>1, <3>2
    <3>q. QED BY <1>5, <3>3 DEF x, t
  <2>8. CASE ~Arm
    <3>1. LeadsTo(i) = t + x BY <1>1, <2>1, <2>3, <2>4, <2>5, <2>8
    <3>q. QED BY <1>5, <3>1 DEF x, t
  <2>q. QED BY <2>7, <2>8
<1>q. QED BY <1>3, <1>4, <1>5

\* The value of a call of an import leads to its stub.
LEMMA ImportLeads ==
  ASSUME TypeInv, PlaceInv, NEW i \in DOMAIN fixups, ~Known(i), NEW to \in Nat,
         file.text \in Nat, word[i] = Branch(file.text + Site(fixups[i]), to),
         Arm => file.text % 4 = 0 /\ to % 4 = 0
  PROVE  LeadsTo(i) = to
<1> DEFINE t == file.text
           s == Site(fixups[i])
<1>1. t \in Nat /\ Unit \in {1, 4} /\ (Arm => Unit = 4) BY Places
<1>2. PICK a \in Nat : s = a * Unit BY Places
<1>3. fixups[i].kind = "call"
  <2>1. fixups[i] \in Fixup BY SeqElement DEF TypeInv, CodeInv
  <2>q. QED BY <2>1 DEF Fixup, Known
<1>4. LeadsTo(i) = IF Arm THEN t + s + 4 * word[i] ELSE t + s + 4 + word[i]
  BY <1>3 DEF LeadsTo
<1>5. word[i] = IF Arm THEN (to - (t + s)) \div 4 ELSE to - (t + s + 4)
  BY DEF Branch
<1>6. Arm => t % 4 = 0 /\ to % 4 = 0 OBVIOUS
<1> HIDE DEF s, t
<1>7. s \in Nat BY <1>1, <1>2
<1>8. CASE Arm
  <2>1. s = a * 4 BY <1>1, <1>2, <1>8
  <2>2. 4 * ((to - (t + s)) \div 4) = to - (t + s) BY <1>1, <1>6, <1>8, <2>1
  <2>q. QED BY <1>1, <1>4, <1>5, <1>7, <1>8, <2>2
<1>9. CASE ~Arm BY <1>1, <1>4, <1>5, <1>7, <1>9
<1>q. QED BY <1>8, <1>9

\* The functions and the strings are where the code is.
LEMMA TextHeld ==
  ASSUME TypeInv, PlaceInv, NEW s \in DOMAIN file.segments, NEW at \in Nat,
         TextPieces(at) \subseteq file.pieces, file.text \in Nat,
         file.segments[s].off \in Nat, file.segments[s].addr \in Nat, file.segments[s].filesz \in Nat,
         file.segments[s].addr <= file.text,
         file.text + text_size <= file.segments[s].addr + file.segments[s].filesz,
         at = file.segments[s].off + file.text - file.segments[s].addr
  PROVE  /\ \A f \in Functions : Defined(f) => Holds(file.text + FnAt(f), [k |-> "function", of |-> f])
         /\ \A i \in DOMAIN fixups : fixups[i].kind = "str" =>
              Holds(file.text + (code_bytes + fixups[i].aux), [k |-> "string", of |-> i])
<1> DEFINE g == file.segments[s]
           t == file.text
<1>0. text_size \in Nat /\ t \in Nat /\ g.off \in Nat /\ g.addr \in Nat /\ g.filesz \in Nat BY Places
<1>1. ASSUME NEW p \in TextPieces(at), NEW x \in Nat, x < text_size, p.at = at + x
      PROVE  Holds(t + x, p.what)
  <2>1. p \in file.pieces OBVIOUS
  <2>2. p.at = g.off + (t + x) - g.addr BY <1>0, <1>1
  <2>3. Mapped(g, t + x) BY <1>0, <1>1 DEF Mapped
  <2>4. Found(t + x) = UNION {IF Mapped(file.segments[i], t + x)
                              THEN {r.what : r \in {q \in file.pieces : q.at = file.segments[i].off + (t + x) - file.segments[i].addr}}
                              ELSE {} : i \in DOMAIN file.segments}
    BY DEF Found
  <2> HIDE DEF t
  <2>5. p.what \in IF Mapped(file.segments[s], t + x)
                   THEN {r.what : r \in {q \in file.pieces : q.at = file.segments[s].off + (t + x) - file.segments[s].addr}}
                   ELSE {}
    BY <2>1, <2>2, <2>3
  <2>q. QED BY <2>4, <2>5 DEF Holds
<1>2. ASSUME NEW f \in Functions, Defined(f) PROVE Holds(t + FnAt(f), [k |-> "function", of |-> f])
  <2> DEFINE p == Piece(at + FnAt(f), [k |-> "function", of |-> f])
  <2>1. p \in TextPieces(at) BY <1>2 DEF TextPieces
  <2>2. FnAt(f) \in Nat /\ FnAt(f) < text_size BY <1>2, Places
  <2>3. p.at = at + FnAt(f) /\ p.what = [k |-> "function", of |-> f] BY DEF Piece
  <2> HIDE DEF p, t
  <2>q. QED BY <1>1, <2>1, <2>2, <2>3
<1>3. ASSUME NEW i \in DOMAIN fixups, fixups[i].kind = "str"
      PROVE  Holds(t + (code_bytes + fixups[i].aux), [k |-> "string", of |-> i])
  <2> DEFINE x == code_bytes + fixups[i].aux
             p == Piece(at + code_bytes + fixups[i].aux, [k |-> "string", of |-> i])
  <2>1. p \in TextPieces(at) BY <1>3 DEF TextPieces
  <2>2. x \in Nat /\ x < text_size /\ code_bytes \in Nat /\ fixups[i].aux \in Nat BY <1>3, Places
  <2>3. p.at = at + x /\ p.what = [k |-> "string", of |-> i] BY <2>2 DEF Piece
  <2> HIDE DEF p, t, x
  <2>4. Holds(t + x, p.what) BY <1>1, <2>1, <2>2, <2>3
  <2>q. QED BY <2>3, <2>4 DEF x
<1>q. QED BY <1>2, <1>3
\* What the code itself holds is in its range.
LEMMA TextWithin ==
  ASSUME TypeInv, PlaceInv, NEW at \in Nat, NEW q \in TextPieces(at)
  PROVE  at <= q.at /\ q.at < at + text_size /\ q.at \in Nat
<1>1. CASE q \in {Piece(at + FnAt(f), [k |-> "function", of |-> f]) : f \in {g \in Functions : Defined(g)}}
  <2>1. PICK f : Defined(f) /\ q.at = at + FnAt(f) BY <1>1 DEF Piece
  <2>2. FnAt(f) \in Nat /\ FnAt(f) < text_size /\ text_size \in Nat BY <2>1, Places
  <2>q. QED BY <2>1, <2>2
<1>2. CASE q \in {Piece(at + code_bytes + fixups[i].aux, [k |-> "string", of |-> i]) :
                    i \in {j \in DOMAIN fixups : fixups[j].kind = "str"}}
  <2>1. PICK i \in DOMAIN fixups : fixups[i].kind = "str" /\ q.at = at + code_bytes + fixups[i].aux BY <1>2 DEF Piece
  <2>2. code_bytes \in Nat /\ fixups[i].aux \in Nat /\ code_bytes + fixups[i].aux < text_size /\ text_size \in Nat
    BY <2>1, Places
  <2>q. QED BY <2>1, <2>2
<1>q. QED BY <1>1, <1>2 DEF TextPieces

\* When the writer has linked the calls and placed the tables, references land.
LEMMA AllLand ==
  ASSUME TypeInv, PlaceInv, file.text \in Nat, NEW stubs \in Nat, NEW size \in {6, 12, 16}, Linked(file.text, stubs, size),
         Arm => file.text % 4 = 0 /\ stubs % 4 = 0 /\ size % 4 = 0,
         \A f \in Functions : Defined(f) => Holds(file.text + FnAt(f), [k |-> "function", of |-> f]),
         \A i \in DOMAIN fixups : fixups[i].kind = "str" =>
           Holds(file.text + (code_bytes + fixups[i].aux), [k |-> "string", of |-> i]),
         \A m \in DOMAIN imports : Reaches(stubs + (m - 1) * size, imports[m]),
         Starts
  PROVE  ReferencesLand
<1> SUFFICES ASSUME NEW i \in DOMAIN fixups
             PROVE  CASE fixups[i].kind = "str" -> Holds(LeadsTo(i), [k |-> "string", of |-> i])
                      [] fixups[i].kind = "call" /\ Defined(fixups[i].key) ->
                           Holds(LeadsTo(i), [k |-> "function", of |-> fixups[i].key])
                      [] OTHER -> Reaches(LeadsTo(i), fixups[i].key)
  BY DEF ReferencesLand
<1>1. fixups[i].kind \in {"call", "str"}
  <2>1. fixups[i] \in Fixup BY SeqElement DEF TypeInv, CodeInv
  <2>q. QED BY <2>1 DEF Fixup
<1>2. CASE fixups[i].kind = "str"
  <2>1. Known(i) /\ word[i] = Value(i) BY <1>2 DEF Known, Linked
  <2>2. LeadsTo(i) = file.text + (code_bytes + fixups[i].aux) BY <1>2, <2>1, KnownLeads
  <2>q. QED BY <1>2, <2>2
<1>3. CASE fixups[i].kind = "call" /\ Defined(fixups[i].key)
  <2>1. Known(i) /\ word[i] = Value(i) BY <1>3 DEF Known, Linked
  <2>2. LeadsTo(i) = file.text + FnAt(fixups[i].key) BY <1>3, <2>1, KnownLeads
  <2>3. fixups[i].key \in Functions
    <3>1. PICK j \in DOMAIN fn_syms : fn_syms[j].key = fixups[i].key BY <1>3 DEF Defined
    <3>2. fn_syms[j] \in [key : Functions, at : Nat] BY SeqElement DEF PlaceInv
    <3>q. QED BY <3>1, <3>2
  <2>q. QED BY <1>3, <2>2, <2>3
<1>4. CASE fixups[i].kind = "call" /\ ~Defined(fixups[i].key)
  <2>1. ~Known(i) BY <1>4 DEF Known
  <2>2. PICK m \in DOMAIN imports :
          imports[m] = fixups[i].key /\ word[i] = Branch(file.text + Site(fixups[i]), stubs + (m - 1) * size)
    BY <2>1 DEF Linked
  <2> DEFINE to == stubs + (m - 1) * size
  <2>3. m \in Nat /\ m >= 1
    <3>1. imports \in Seq(Called) BY DEF TypeInv, ImportInv
    <3>q. QED BY <3>1
  <2>4. to \in Nat /\ (Arm => file.text % 4 = 0 /\ to % 4 = 0)
    <3>1. CASE size = 6 BY <2>3, <3>1
    <3>2. CASE size = 12 BY <2>3, <3>2
    <3>3. CASE size = 16 BY <2>3, <3>3
    <3>q. QED BY <3>1, <3>2, <3>3
  <2>5. word[i] = Branch(file.text + Site(fixups[i]), to) BY <2>2
  <2>6. Reaches(to, imports[m]) OBVIOUS
  <2> HIDE DEF to
  <2>7. LeadsTo(i) = to BY <2>1, <2>4, <2>5, ImportLeads
  <2>q. QED BY <1>4, <2>2, <2>6, <2>7
<1>q. QED BY <1>1, <1>2, <1>3, <1>4

\* When a writer has patched the calls of imports, all fixups are linked.
LEMMA PatchedLinks ==
  ASSUME TypeInv, CallInv, phase \in {"names", "hash"}, ~diagnosed, NEW text, NEW stubs, NEW size,
         word' = Patched(text, stubs, size)
  PROVE  \A i \in DOMAIN fixups :
           IF Known(i) THEN word'[i] = Value(i)
           ELSE \E m \in DOMAIN imports :
                  imports[m] = fixups[i].key /\ word'[i] = Branch(text + Site(fixups[i]), stubs + (m - 1) * size)
<1>1. /\ DOMAIN word = 1 .. Len(fixups) /\ fixups \in Seq(Fixup) /\ next \in Nat /\ next > Len(fixups)
      /\ extcalls \in Seq(Extcall) /\ imports \in Seq(Called)
  BY DEF TypeInv, CodeInv, WordInv, ImportInv, CallInv
<1> SUFFICES ASSUME NEW i \in DOMAIN fixups
             PROVE  IF Known(i) THEN word'[i] = Value(i)
                    ELSE \E m \in DOMAIN imports :
                           imports[m] = fixups[i].key /\ word'[i] = Branch(text + Site(fixups[i]), stubs + (m - 1) * size)
  OBVIOUS
<1>2. i \in DOMAIN word /\ i \in 1 .. next - 1 BY <1>1
<1>3. IF Known(i) THEN word[i] = Value(i) ELSE \E k \in DOMAIN extcalls : extcalls[k].fixup = i
  BY <1>2 DEF CallInv
<1> DEFINE k == CHOOSE j \in DOMAIN extcalls : extcalls[j].fixup = i
           e == extcalls[k]
<1>4. word'[i] = IF \E j \in DOMAIN extcalls : extcalls[j].fixup = i
                 THEN Branch(text + e.site, stubs + e.import * size) ELSE word[i]
  BY <1>2 DEF Patched
<1>5. CASE Known(i)
  <2>1. ~\E j \in DOMAIN extcalls : extcalls[j].fixup = i BY <1>5 DEF CallInv
  <2>q. QED BY <1>3, <1>4, <1>5, <2>1
<1>6. CASE ~Known(i)
  <2>1. k \in DOMAIN extcalls /\ e.fixup = i BY <1>3, <1>6
  <2>2. e.site = Site(fixups[i]) /\ imports[e.import + 1] = fixups[i].key BY <2>1 DEF CallInv
  <2>3. e \in Extcall /\ e.import < Len(imports) BY <1>1, <2>1, SeqElement DEF TypeInv, ImportInv
  <2>4. e.import \in Nat BY <2>3 DEF Extcall
  <2>5. word'[i] = Branch(text + e.site, stubs + e.import * size) BY <1>3, <1>4, <1>6
  <2> DEFINE m == e.import + 1
  <2> HIDE DEF e, k
  <2>6. m \in DOMAIN imports /\ m - 1 = e.import BY <1>1, <2>3, <2>4
  <2>q. QED BY <1>6, <2>2, <2>5, <2>6
<1>q. QED BY <1>5, <1>6

\* Without imports, bin_emit has linked all of them.
LEMMA EmittedLinks ==
  ASSUME TypeInv, CallInv, phase \in {"resolve", "names", "hash"}, next > Len(fixups), ~diagnosed, imports = << >>
  PROVE  \A i \in DOMAIN fixups : Known(i) /\ word[i] = Value(i)
<1>1. fixups \in Seq(Fixup) /\ next \in Nat /\ extcalls \in Seq(Extcall)
  BY DEF TypeInv, CodeInv, WordInv, ImportInv
<1>2. DOMAIN extcalls = {}
  <2> SUFFICES ASSUME NEW k \in DOMAIN extcalls PROVE FALSE OBVIOUS
  <2>1. extcalls[k] \in Extcall /\ extcalls[k].import < Len(imports) BY <1>1, SeqElement DEF TypeInv, ImportInv
  <2>q. QED BY <2>1 DEF Extcall
<1>3. \A i \in DOMAIN fixups : i \in 1 .. next - 1 BY <1>1
<1>q. QED BY <1>2, <1>3 DEF CallInv

-----------------------------------------------------------------------------
(* A file for macOS                                                          *)

\* The writer speaks of the same file.
LEMMA MachOSame ==
  /\ \A a : MachOWriter!At(a) = At(a)
  /\ \A a, w : MachOWriter!Holds(a, w) <=> Holds(a, w)
  /\ \A a : MachOWriter!TextPieces(a) = TextPieces(a)
  /\ \A t, s, z : MachOWriter!Patched(t, s, z) = Patched(t, s, z)
  /\ MachOWriter!entry = entry /\ MachOWriter!text_size = text_size
  /\ \A x, a : MachOWriter!align_up(x, a) = align_up(x, a)
<1>0. MachOWriter!Arm = Arm BY DEF MachOWriter!Arm, Arm
<1>1. \A s, a : MachOWriter!Mapped(s, a) = Mapped(s, a) BY DEF MachOWriter!Mapped, Mapped
<1>2. \A a : MachOWriter!Found(a) = Found(a) BY <1>1 DEF MachOWriter!Found, Found
<1>3. ASSUME NEW a PROVE MachOWriter!At(a) = At(a)
  <2>1. MachOWriter!Found(a) = Found(a) BY <1>2
  <2>q. QED BY <2>1 DEF MachOWriter!At, At
<1>a. \A a, w : MachOWriter!Holds(a, w) <=> Holds(a, w) BY <1>2 DEF MachOWriter!Holds, Holds
<1>4. MachOWriter!Unit = Unit BY DEF MachOWriter!Unit, Unit, MachOWriter!Arm, Arm
<1>5. \A f : MachOWriter!FnAt(f) = FnAt(f) BY <1>4 DEF MachOWriter!FnAt, FnAt
<1>6. \A f : MachOWriter!Defined(f) = Defined(f) BY DEF MachOWriter!Defined, Defined
<1>7. MachOWriter!code_bytes = code_bytes BY <1>4 DEF MachOWriter!code_bytes, code_bytes
<1>8. MachOWriter!entry = entry /\ MachOWriter!text_size = text_size
  BY <1>5, <1>7 DEF MachOWriter!entry, entry, MachOWriter!text_size, text_size
<1>9. \A a, w : MachOWriter!Piece(a, w) = Piece(a, w) BY DEF MachOWriter!Piece, Piece
<1>10. MachOWriter!Functions = Functions BY DEF MachOWriter!Functions, Functions
<1>11. \A a : MachOWriter!TextPieces(a) = TextPieces(a)
  BY <1>5, <1>6, <1>7, <1>9, <1>10 DEF MachOWriter!TextPieces, TextPieces
<1>12. \A s, t : MachOWriter!Branch(s, t) = Branch(s, t)
  BY <1>0 DEF MachOWriter!Branch, Branch
<1>13. \A t, s, z : MachOWriter!Patched(t, s, z) = Patched(t, s, z)
  BY <1>12 DEF MachOWriter!Patched, Patched
<1>14. \A x, a : MachOWriter!align_up(x, a) = align_up(x, a)
  BY DEF MachOWriter!align_up, align_up
<1>q. QED BY <1>3, <1>a, <1>8, <1>11, <1>13, <1>14

\* The file does not change as long as what it is made from does not.
LEMMA MachOFileSame ==
  ASSUME UNCHANGED <<target, code_vars, import_vars, name_off, name_end>>
  PROVE  MachOWriter!MachOExecutable' = MachOWriter!MachOExecutable
<1>1. UNCHANGED <<MachOWriter!n_imp, MachOWriter!dyn, MachOWriter!Unit, MachOWriter!nsegs, MachOWriter!Entries>>
  BY DEF MachOWriter!n_imp, MachOWriter!dyn, MachOWriter!Unit, MachOWriter!Arm, MachOWriter!nsegs, MachOWriter!Entries
<1>2. UNCHANGED <<MachOWriter!code_bytes, MachOWriter!text_size>> /\ \A f : MachOWriter!FnAt(f)' = MachOWriter!FnAt(f)
  BY <1>1 DEF MachOWriter!code_bytes, MachOWriter!text_size, MachOWriter!FnAt
<1>3. UNCHANGED <<MachOWriter!code_off, MachOWriter!sect_size>>
  BY <1>1, <1>2 DEF MachOWriter!code_off, MachOWriter!sect_size, MachOWriter!align_up
<1>4. UNCHANGED <<MachOWriter!stub_off, MachOWriter!text_fp>>
  BY <1>2, <1>3 DEF MachOWriter!stub_off, MachOWriter!text_fp, MachOWriter!align_up, MachOWriter!FILE_PAGE
<1>5. UNCHANGED <<MachOWriter!cf_off, MachOWriter!le_fileoff>>
  BY <1>1, <1>4 DEF MachOWriter!cf_off, MachOWriter!le_fileoff, MachOWriter!FILE_PAGE
<1>6. UNCHANGED MachOWriter!sis_off
  BY <1>1 DEF MachOWriter!sis_off, MachOWriter!align_up, MachOWriter!starts_offset
<1>7. UNCHANGED MachOWriter!imports_off
  BY <1>6 DEF MachOWriter!imports_off, MachOWriter!align_up
<1>8. UNCHANGED MachOWriter!symbols_off
  BY <1>1, <1>7 DEF MachOWriter!symbols_off, MachOWriter!align_up
<1>9. UNCHANGED MachOWriter!cf_size
  BY <1>1, <1>8 DEF MachOWriter!cf_size, MachOWriter!starts_offset
<1>10. UNCHANGED <<MachOWriter!sig_off, MachOWriter!code_limit>>
  BY <1>5, <1>9 DEF MachOWriter!sig_off, MachOWriter!code_limit, MachOWriter!align_up
<1>11. UNCHANGED <<MachOWriter!n_slots, MachOWriter!sb_len>>
  BY <1>10 DEF MachOWriter!n_slots, MachOWriter!sb_len, MachOWriter!CS_PAGE
<1>12. UNCHANGED MachOWriter!img_cap
  BY <1>1, <1>3 DEF MachOWriter!img_cap, MachOWriter!body_max, MachOWriter!sig_max, MachOWriter!cmd_max, MachOWriter!cf_max,
     MachOWriter!FILE_PAGE, MachOWriter!CS_PAGE
<1>13. UNCHANGED <<MachOWriter!parts, MachOWriter!segments>>
  BY <1>1, <1>2, <1>3, <1>4, <1>5, <1>6, <1>7, <1>8, <1>10, <1>11
  DEF MachOWriter!parts, MachOWriter!segments, MachOWriter!Part, MachOWriter!Segment, MachOWriter!starts_offset, MachOWriter!FILE_PAGE
<1>14. UNCHANGED MachOWriter!TextPieces(MachOWriter!code_off)
  BY <1>2, <1>3 DEF MachOWriter!TextPieces, MachOWriter!Piece, MachOWriter!Defined, MachOWriter!Functions
<1>15. \A i : /\ MachOWriter!Stub(i)' = MachOWriter!Stub(i) /\ MachOWriter!Slot(i)' = MachOWriter!Slot(i)
              /\ MachOWriter!ImportEntry(i)' = MachOWriter!ImportEntry(i) /\ MachOWriter!NameAt(i)' = MachOWriter!NameAt(i)
  BY <1>1, <1>4, <1>5, <1>7, <1>8
  DEF MachOWriter!Stub, MachOWriter!Slot, MachOWriter!ImportEntry, MachOWriter!NameAt, MachOWriter!Piece,
      MachOWriter!stub_vm, MachOWriter!got_vm
<1>16. UNCHANGED <<MachOWriter!Chain, MachOWriter!Header>>
  BY <1>1, <1>4, <1>5, <1>6, <1>7, <1>8 DEF MachOWriter!Chain, MachOWriter!Header, MachOWriter!Piece
<1>17. MachOWriter!entry' = MachOWriter!entry BY <1>2 DEF MachOWriter!entry
<1>18. UNCHANGED UNION {{MachOWriter!Stub(i), MachOWriter!Slot(i), MachOWriter!ImportEntry(i), MachOWriter!NameAt(i)} :
                        i \in MachOWriter!Entries}
  BY <1>1, <1>15
<1>19. UNCHANGED MachOWriter!MachOExecutable.pieces
  BY <1>1, <1>14, <1>16, <1>18 DEF MachOWriter!MachOExecutable
<1>20. /\ UNCHANGED <<Len(MachOWriter!parts), MachOWriter!sig_off + MachOWriter!sb_len, MachOWriter!code_off + MachOWriter!entry>>
       /\ UNCHANGED [fixups |-> MachOWriter!cf_off, code_limit |-> MachOWriter!code_limit, n_slots |-> MachOWriter!n_slots]
  BY <1>3, <1>5, <1>10, <1>11, <1>13, <1>17
<1>21. MachOWriter!MachOExecutable' =
         [parts |-> MachOWriter!parts', loaded |-> Len(MachOWriter!parts)', size |-> (MachOWriter!sig_off + MachOWriter!sb_len)',
          room |-> MachOWriter!img_cap', segments |-> MachOWriter!segments', page |-> MachOWriter!FILE_PAGE,
          text |-> MachOWriter!code_off', start |-> (MachOWriter!code_off + MachOWriter!entry)',
          loader |-> [fixups |-> MachOWriter!cf_off, code_limit |-> MachOWriter!code_limit, n_slots |-> MachOWriter!n_slots]',
          pieces |-> MachOWriter!MachOExecutable.pieces']
  BY DEF MachOWriter!MachOExecutable, MachOWriter!FILE_PAGE
<1>22. MachOWriter!MachOExecutable =
         [parts |-> MachOWriter!parts, loaded |-> Len(MachOWriter!parts), size |-> MachOWriter!sig_off + MachOWriter!sb_len,
          room |-> MachOWriter!img_cap, segments |-> MachOWriter!segments, page |-> MachOWriter!FILE_PAGE,
          text |-> MachOWriter!code_off, start |-> MachOWriter!code_off + MachOWriter!entry,
          loader |-> [fixups |-> MachOWriter!cf_off, code_limit |-> MachOWriter!code_limit, n_slots |-> MachOWriter!n_slots],
          pieces |-> MachOWriter!MachOExecutable.pieces]
  BY DEF MachOWriter!MachOExecutable, MachOWriter!FILE_PAGE
<1>q. QED
  BY <1>3, <1>12, <1>13, <1>19, <1>20, <1>21, <1>22

\* What a file for macOS is made of, and how its calls are patched.
MachOOutput ==
  /\ file = MachOWriter!MachOExecutable
  /\ \E text, stubs : text = MachOWriter!code_off /\ stubs = MachOWriter!stub_off /\ Linked(text, stubs, 12)
  /\ Len(name_off) = Len(imports) /\ name_end <= 6209 /\ NamesInOrder

\* Its numbers, and where in it what refers to what is.
LEMMA MachOPlaces ==
  ASSUME TypeInv, target = "macho", MachOOutput
  PROVE  LET n == Len(imports)
             code == MachOWriter!code_off
             stubs == MachOWriter!stub_off
             fp == MachOWriter!text_fp
             le == MachOWriter!le_fileoff
             end == MachOWriter!sig_off + MachOWriter!sb_len
         IN /\ n \in Nat /\ code \in Nat /\ stubs \in Nat /\ fp \in Nat /\ le \in Nat /\ end \in Nat /\ text_size \in Nat
            /\ code % 4 = 0 /\ stubs % 4 = 0 /\ fp % 16384 = 0
            /\ code + text_size <= stubs /\ stubs + n * 12 <= fp
            /\ n > 0 => /\ fp + n * 8 <= le /\ le = fp + 16384 /\ le + (80 + 4 * n + name_end) <= end
                        /\ MachOWriter!sis_off = 56 /\ MachOWriter!imports_off = 80 /\ MachOWriter!symbols_off = 80 + 4 * n
            /\ \A i \in 1 .. n : name_off[i] \in Nat /\ 1 <= name_off[i] /\ name_off[i] < name_end
            /\ \A i, j \in 1 .. n : i < j => name_off[i] < name_off[j]
<1> DEFINE n == Len(imports)
           code == MachOWriter!code_off
           stubs == MachOWriter!stub_off
           fp == MachOWriter!text_fp
           le == MachOWriter!le_fileoff
           sig == MachOWriter!sig_off
           sb == MachOWriter!sb_len
<1>1. /\ n \in Nat /\ n <= 64 /\ name_end \in Nat /\ text_size \in Nat
      /\ code \in Nat /\ stubs \in Nat /\ fp \in Nat /\ le \in Nat /\ sig \in Nat /\ sb \in Nat
      /\ code + text_size <= stubs /\ stubs + n * 12 <= fp
      /\ align_up(fp, 16384) = fp
      /\ le = fp + (IF n > 0 THEN 16384 ELSE 0)
      /\ le + (IF n > 0 THEN 80 + 4 * n + name_end ELSE 48) <= sig
  BY SMTT(20), MachONumbers DEF MachOOutput
<1>2. code % 4 = 0
  BY <1>1 DEF MachOWriter!code_off, MachOWriter!dyn, MachOWriter!n_imp
<1>3. stubs % 4 = 0
  <2>1. stubs = code + align_up(text_size, 4)
    BY MachOSame DEF MachOWriter!stub_off
  <2> DEFINE text == align_up(text_size, 4)
  <2>2. text \in Nat /\ text % 4 = 0
    <3>1. text_size \in Nat BY <1>1
    <3>2. \A x \in Nat : align_up(x, 4) \in Nat /\ align_up(x, 4) % 4 = 0 BY DEF align_up
    <3>q. QED BY <3>1, <3>2
  <2> HIDE DEF code, stubs, text
  <2>3. \A x, y \in Nat : x % 4 = 0 /\ y % 4 = 0 => (x + y) % 4 = 0 OBVIOUS
  <2>4. code \in Nat /\ stubs = code + text BY <1>1, <2>1 DEF text
  <2>q. QED BY <1>2, <2>2, <2>3, <2>4
<1>4. fp % 16384 = 0
  <2> HIDE DEF fp
  <2>1. fp = ((fp + 16384 - 1) \div 16384) * 16384 /\ fp \in Nat BY <1>1 DEF align_up
  <2>q. QED BY <2>1
<1>5. n > 0 => MachOWriter!sis_off = 56 /\ MachOWriter!imports_off = 80 /\ MachOWriter!symbols_off = 80 + 4 * n
  <2> SUFFICES ASSUME n > 0 PROVE MachOWriter!sis_off = 56 /\ MachOWriter!imports_off = 80 /\ MachOWriter!symbols_off = 80 + 4 * n
    OBVIOUS
  <2>1. MachOWriter!sis_off = 56
    BY <1>1 DEF MachOWriter!sis_off, MachOWriter!starts_offset, MachOWriter!nsegs, MachOWriter!dyn, MachOWriter!n_imp,
       MachOWriter!align_up
  <2>2. MachOWriter!imports_off = 80
    BY <2>1 DEF MachOWriter!imports_off, MachOWriter!align_up
  <2>3. MachOWriter!symbols_off = 80 + 4 * n
    BY <1>1, <2>2 DEF MachOWriter!symbols_off, MachOWriter!align_up, MachOWriter!n_imp
  <2>q. QED BY <2>1, <2>2, <2>3
<1>7. /\ \A i \in 1 .. n : name_off[i] \in Nat /\ 1 <= name_off[i] /\ name_off[i] < name_end
      /\ \A i, j \in 1 .. n : i < j => name_off[i] < name_off[j]
  <2>1. /\ name_off \in Seq(Nat) /\ DOMAIN name_off = 1 .. n /\ FirstName = 1 /\ Gap = 1
    BY DEF MachOOutput, TypeInv, NameInv, FirstName, Gap
  <2>2. \A i \in 1 .. n : name_off[i] \in Nat BY <2>1
  <2>3. /\ \A i \in 1 .. n : 1 <= name_off[i] /\ name_off[i] + 1 <= name_end
        /\ \A i, j \in 1 .. n : i < j => name_off[i] + 1 <= name_off[j]
    <3>1. NamesInOrder BY DEF MachOOutput
    <3>q. QED BY <2>1, <2>2, <3>1 DEF NamesInOrder
  <2>q. QED BY <1>1, <2>2, <2>3
<1> HIDE DEF n, code, stubs, fp, le, sig, sb
<1> DEFINE end == sig + sb
<1>8. end \in Nat BY <1>1
<1>9. n > 0 => fp + n * 8 <= le /\ le = fp + 16384 /\ le + (80 + 4 * n + name_end) <= end BY <1>1
<1>q. QED BY <1>1, <1>2, <1>3, <1>4, <1>5, <1>7, <1>8, <1>9 DEF n, code, stubs, fp, le, sig, sb

\* Its segments: the code, the slots if there are any, and the tables.
LEMMA MachOSegments ==
  ASSUME TypeInv, target = "macho", MachOOutput
  PROVE  LET n == Len(imports)
             fp == MachOWriter!text_fp
             le == MachOWriter!le_fileoff
             end == MachOWriter!sig_off + MachOWriter!sb_len
             S == file.segments
         IN /\ 1 \in DOMAIN S /\ S[1].off = 0 /\ S[1].addr = 0 /\ S[1].filesz = fp
            /\ \A t \in DOMAIN S : S[t].addr = S[t].off /\ t \in {1, 2, 3}
            /\ n > 0 => /\ 2 \in DOMAIN S /\ S[2].off = fp /\ S[2].addr = fp /\ S[2].filesz = 16384
                        /\ 3 \in DOMAIN S /\ S[3].off = le /\ S[3].addr = le /\ S[3].filesz = end - le
<1> DEFINE n == Len(imports)
           fp == MachOWriter!text_fp
           le == MachOWriter!le_fileoff
           sig == MachOWriter!sig_off
           sb == MachOWriter!sb_len
           end == sig + sb
           S == file.segments
<1>1. sig \in Nat /\ sb \in Nat /\ le \in Nat BY SMTT(30), MachONumbers DEF MachOOutput
<1>2. S = IF n > 0
          THEN <<[off |-> 0, filesz |-> fp, addr |-> 0, memsz |-> fp], [off |-> fp, filesz |-> 16384, addr |-> fp, memsz |-> 16384],
                 [off |-> le, filesz |-> sig + sb - le, addr |-> le, memsz |-> 16384]>>
          ELSE <<[off |-> 0, filesz |-> fp, addr |-> 0, memsz |-> fp],
                 [off |-> le, filesz |-> sig + sb - le, addr |-> le, memsz |-> 16384]>>
  BY DEF MachOOutput, MachOWriter!MachOExecutable, MachOWriter!segments, MachOWriter!Segment, MachOWriter!dyn,
     MachOWriter!n_imp, MachOWriter!FILE_PAGE
<1> HIDE DEF n, fp, le, sig, sb, S
<1>3. sig + sb - le = end - le BY <1>1
<1>4. /\ 1 \in DOMAIN S /\ S[1].off = 0 /\ S[1].addr = 0 /\ S[1].filesz = fp
      /\ \A t \in DOMAIN S : S[t].addr = S[t].off /\ t \in {1, 2, 3}
      /\ n > 0 => /\ 2 \in DOMAIN S /\ S[2].off = fp /\ S[2].addr = fp /\ S[2].filesz = 16384
                  /\ 3 \in DOMAIN S /\ S[3].off = le /\ S[3].addr = le /\ S[3].filesz = end - le
  <2>1. CASE n > 0
    <3>1. S = <<[off |-> 0, filesz |-> fp, addr |-> 0, memsz |-> fp], [off |-> fp, filesz |-> 16384, addr |-> fp, memsz |-> 16384],
                [off |-> le, filesz |-> end - le, addr |-> le, memsz |-> 16384]>>
      BY <1>2, <1>3, <2>1
    <3> HIDE DEF end
    <3>q. QED BY <2>1, <3>1
  <2>2. CASE ~(n > 0)
    <3>1. S = <<[off |-> 0, filesz |-> fp, addr |-> 0, memsz |-> fp], [off |-> le, filesz |-> end - le, addr |-> le, memsz |-> 16384]>>
      BY <1>2, <1>3, <2>2
    <3> HIDE DEF end
    <3>q. QED BY <2>2, <3>1
  <2>q. QED BY <2>1, <2>2
<1>q. QED BY <1>4 DEF n, fp, le, sig, sb, S

\* Every piece is in the range of its kind.
LEMMA MachOPieces ==
  ASSUME TypeInv, PlaceInv, target = "macho", MachOOutput, NEW q \in file.pieces
  PROVE  \/ MachOWriter!code_off <= q.at /\ q.at < MachOWriter!code_off + text_size /\ q.at \in Nat
         \/ Len(imports) > 0 /\ (q = MachOWriter!Chain \/ q = MachOWriter!Header)
         \/ \E i \in 0 .. Len(imports) - 1 :
              q \in {MachOWriter!Stub(i), MachOWriter!Slot(i), MachOWriter!ImportEntry(i), MachOWriter!NameAt(i)}
<1> DEFINE code == MachOWriter!code_off
<1>1. code \in Nat BY MachOPlaces
<1>2. file.pieces = TextPieces(code)
             \cup (IF MachOWriter!dyn THEN {MachOWriter!Chain, MachOWriter!Header} ELSE {})
             \cup UNION {{MachOWriter!Stub(i), MachOWriter!Slot(i), MachOWriter!ImportEntry(i), MachOWriter!NameAt(i)} :
                           i \in MachOWriter!Entries}
  BY MachOSame DEF MachOOutput, MachOWriter!MachOExecutable
<1> HIDE DEF code
<1>3. CASE q \in TextPieces(code) BY <1>1, <1>3, TextWithin DEF code
<1>4. CASE q \notin TextPieces(code)
  BY <1>2, <1>4 DEF MachOWriter!dyn, MachOWriter!n_imp, MachOWriter!Entries
<1>q. QED BY <1>3, <1>4

\* What dyld looks for in the tables is there.
LEMMA MachOFinds ==
  ASSUME TypeInv, PlaceInv, target = "macho", MachOOutput, Len(imports) > 0
  PROVE  LET n == Len(imports)
             stubs == MachOWriter!stub_off
             fp == MachOWriter!text_fp
             le == MachOWriter!le_fileoff
         IN /\ At(le) = MachOWriter!Header.what
            /\ At(le + 56) = MachOWriter!Chain.what
            /\ \A i \in 0 .. n - 1 :
                 /\ At(stubs + i * 12) = MachOWriter!Stub(i).what
                 /\ At(fp + i * 8) = MachOWriter!Slot(i).what
                 /\ At(le + 80 + 4 * i) = MachOWriter!ImportEntry(i).what
                 /\ At(le + (80 + 4 * n) + name_off[i + 1]) = MachOWriter!NameAt(i).what
<1> DEFINE n == Len(imports)
           code == MachOWriter!code_off
           stubs == MachOWriter!stub_off
           fp == MachOWriter!text_fp
           le == MachOWriter!le_fileoff
           end == MachOWriter!sig_off + MachOWriter!sb_len
           S == file.segments
           header == MachOWriter!Header
           chain_ == MachOWriter!Chain
           stub(i) == MachOWriter!Stub(i)
           slot(i) == MachOWriter!Slot(i)
           import(i) == MachOWriter!ImportEntry(i)
           name(i) == MachOWriter!NameAt(i)
           off(i) == name_off[i + 1]
<1>1. /\ n \in Nat /\ n > 0 /\ code \in Nat /\ stubs \in Nat /\ fp \in Nat /\ le \in Nat /\ end \in Nat /\ text_size \in Nat
      /\ code + text_size <= stubs /\ stubs + n * 12 <= fp /\ fp + n * 8 <= le /\ le = fp + 16384
      /\ le + (80 + 4 * n + name_end) <= end
      /\ MachOWriter!sis_off = 56 /\ MachOWriter!imports_off = 80 /\ MachOWriter!symbols_off = 80 + 4 * n
  BY MachOPlaces
<1>2. /\ 1 \in DOMAIN S /\ S[1].off = 0 /\ S[1].addr = 0 /\ S[1].filesz = fp
      /\ \A t \in DOMAIN S : S[t].addr = S[t].off /\ t \in {1, 2, 3}
      /\ 2 \in DOMAIN S /\ S[2].off = fp /\ S[2].addr = fp /\ S[2].filesz = 16384
      /\ 3 \in DOMAIN S /\ S[3].off = le /\ S[3].addr = le /\ S[3].filesz = end - le
  <2>1. n > 0 BY DEF n
  <2>2. 1 \in DOMAIN S /\ S[1].off = 0 /\ S[1].addr = 0 /\ S[1].filesz = fp BY MachOSegments
  <2>3. \A t \in DOMAIN S : S[t].addr = S[t].off /\ t \in {1, 2, 3} BY MachOSegments
  <2>4. n > 0 => /\ 2 \in DOMAIN S /\ S[2].off = fp /\ S[2].addr = fp /\ S[2].filesz = 16384
                 /\ 3 \in DOMAIN S /\ S[3].off = le /\ S[3].addr = le /\ S[3].filesz = end - le
    BY MachOSegments
  <2> HIDE DEF n, fp, le, end, S
  <2>q. QED BY <2>1, <2>2, <2>3, <2>4
<1>3. name_end \in Nat BY DEF TypeInv, NameInv
<1>4. /\ \A i \in 0 .. n - 1 : off(i) \in Nat /\ 1 <= off(i) /\ off(i) < name_end
      /\ \A i, j \in 0 .. n - 1 : i # j => off(i) # off(j)
  <2> DEFINE at(i) == name_off[i]
  <2>1. /\ \A i \in 1 .. n : at(i) \in Nat /\ 1 <= at(i) /\ at(i) < name_end
        /\ \A i, j \in 1 .. n : i < j => at(i) < at(j)
    BY MachOPlaces
  <2>2. off(0) = at(0 + 1) /\ \A i : off(i) = at(i + 1) OBVIOUS
  <2> HIDE DEF at, off, n
  <2>q. QED BY <1>1, <2>1, <2>2
<1>5. header.at = le /\ chain_.at = le + 56
  BY <1>1 DEF MachOWriter!Header, MachOWriter!Chain, MachOWriter!Piece, MachOWriter!cf_off
<1>6. ASSUME NEW i \in 0 .. n - 1
      PROVE  /\ stub(i).at = stubs + i * 12 /\ slot(i).at = fp + i * 8
             /\ import(i).at = le + 80 + 4 * i /\ name(i).at = le + (80 + 4 * n) + off(i)
  BY <1>1 DEF MachOWriter!Stub, MachOWriter!Slot, MachOWriter!ImportEntry, MachOWriter!NameAt, MachOWriter!Piece,
     MachOWriter!cf_off, MachOWriter!stub_vm
<1>7. /\ header \in file.pieces /\ chain_ \in file.pieces
      /\ \A i \in 0 .. n - 1 :
           stub(i) \in file.pieces /\ slot(i) \in file.pieces /\ import(i) \in file.pieces /\ name(i) \in file.pieces
  <2>1. MachOWriter!dyn /\ MachOWriter!Entries = 0 .. n - 1
    BY <1>1 DEF MachOWriter!dyn, MachOWriter!n_imp, MachOWriter!Entries
  <2>2. file.pieces = MachOWriter!MachOExecutable.pieces BY DEF MachOOutput
  <2>3. header \in file.pieces /\ chain_ \in file.pieces
    BY <2>1, <2>2 DEF MachOWriter!MachOExecutable
  <2>4. ASSUME NEW i \in 0 .. n - 1
        PROVE  stub(i) \in file.pieces /\ slot(i) \in file.pieces /\ import(i) \in file.pieces /\ name(i) \in file.pieces
    <3>1. {stub(i), slot(i), import(i), name(i)} \subseteq
            UNION {{stub(j), slot(j), import(j), name(j)} : j \in MachOWriter!Entries}
      <4> HIDE DEF stub, slot, import, name
      <4>q. QED BY <2>1
    <3>q. QED BY <2>2, <3>1 DEF MachOWriter!MachOExecutable
  <2>q. QED BY <2>3, <2>4
<1>8. ASSUME NEW q \in file.pieces
      PROVE  \/ code <= q.at /\ q.at < code + text_size /\ q.at \in Nat
             \/ q = chain_ \/ q = header
             \/ \E j \in 0 .. n - 1 : q = stub(j) \/ q = slot(j) \/ q = import(j) \/ q = name(j)
  BY MachOPieces
<1> HIDE DEF n, code, stubs, fp, le, end, S, header, chain_, stub, slot, import, name, off
<1>9. ASSUME NEW p \in file.pieces, NEW a \in Nat, p.at = a, \A q \in file.pieces : q.at = a => q = p,
             a < fp \/ (fp <= a /\ a < fp + 16384) \/ (le <= a /\ a < end)
      PROVE  At(a) = p.what
  <2>1. \E s \in DOMAIN S : Mapped(S[s], a) /\ a = S[s].off + a - S[s].addr
    <3>1. CASE a < fp
      <4>1. Mapped(S[1], a) /\ a = S[1].off + a - S[1].addr BY <1>1, <1>2, <3>1 DEF Mapped
      <4>q. QED BY <1>2, <4>1
    <3>2. CASE fp <= a /\ a < fp + 16384
      <4>1. Mapped(S[2], a) /\ a = S[2].off + a - S[2].addr BY <1>1, <1>2, <3>2 DEF Mapped
      <4>q. QED BY <1>2, <4>1
    <3>3. CASE le <= a /\ a < end
      <4>1. Mapped(S[3], a) /\ a = S[3].off + a - S[3].addr BY <1>1, <1>2, <3>3 DEF Mapped
      <4>q. QED BY <1>2, <4>1
    <3>q. QED BY <1>9, <3>1, <3>2, <3>3
  <2>2. \A t \in DOMAIN S : Mapped(S[t], a) => S[t].off + a - S[t].addr = a
    <3> SUFFICES ASSUME NEW t \in DOMAIN S PROVE S[t].off + a - S[t].addr = a OBVIOUS
    <3>1. S[t].addr = S[t].off BY <1>2
    <3>2. S[t].off \in Int
      <4>1. t \in {1, 2, 3} BY <1>2
      <4>q. QED BY <1>1, <1>2, <4>1
    <3>q. QED BY <3>1, <3>2
  <2>3. PICK s \in DOMAIN S : Mapped(S[s], a) /\ a = S[s].off + a - S[s].addr BY <2>1
  <2>q. QED BY <1>9, <2>2, <2>3, AtPiece DEF S
<1>z. ASSUME NEW j \in 0 .. n - 1
      PROVE  /\ stub(j).at \in Nat /\ slot(j).at \in Nat /\ import(j).at \in Nat /\ name(j).at \in Nat
             /\ code + text_size <= stub(j).at /\ stub(j).at < fp
             /\ fp <= slot(j).at /\ slot(j).at < le
             /\ le + 80 <= import(j).at /\ import(j).at < le + (80 + 4 * n)
             /\ le + (80 + 4 * n) < name(j).at /\ name(j).at < end
  <2>0. j \in Nat /\ j < n BY <1>1
  <2>1. stub(j).at = stubs + j * 12 /\ slot(j).at = fp + j * 8 BY <1>6
  <2>2. import(j).at = le + 80 + 4 * j /\ name(j).at = le + (80 + 4 * n) + off(j) BY <1>6
  <2>3. off(j) \in Nat /\ 1 <= off(j) /\ off(j) < name_end BY <1>4
  <2>4. stub(j).at \in Nat /\ code + text_size <= stub(j).at /\ stub(j).at < fp BY <1>1, <2>0, <2>1
  <2>5. slot(j).at \in Nat /\ fp <= slot(j).at /\ slot(j).at < le BY <1>1, <2>0, <2>1
  <2>6. import(j).at \in Nat /\ le + 80 <= import(j).at /\ import(j).at < le + (80 + 4 * n) BY <1>1, <2>0, <2>2
  <2>7. name(j).at \in Nat /\ le + (80 + 4 * n) < name(j).at /\ name(j).at < end BY <1>1, <1>3, <2>2, <2>3
  <2>q. QED BY <2>4, <2>5, <2>6, <2>7
<1>u. ASSUME NEW i \in 0 .. n - 1, NEW j \in 0 .. n - 1
      PROVE  /\ stub(i).at = stub(j).at => i = j
             /\ slot(i).at = slot(j).at => i = j
             /\ import(i).at = import(j).at => i = j
             /\ name(i).at = name(j).at => i = j
  <2>0. i \in Nat /\ j \in Nat BY <1>1
  <2>1. stub(i).at = stubs + i * 12 /\ stub(j).at = stubs + j * 12 BY <1>6
  <2>2. slot(i).at = fp + i * 8 /\ slot(j).at = fp + j * 8 BY <1>6
  <2>3. import(i).at = le + 80 + 4 * i /\ import(j).at = le + 80 + 4 * j BY <1>6
  <2>4. name(i).at = le + (80 + 4 * n) + off(i) /\ name(j).at = le + (80 + 4 * n) + off(j) BY <1>6
  <2>5. off(i) \in Nat /\ off(j) \in Nat /\ (off(i) = off(j) => i = j) BY <1>4
  <2>6. name(i).at = name(j).at => i = j BY <1>1, <2>4, <2>5
  <2>q. QED BY <1>1, <2>0, <2>1, <2>2, <2>3, <2>6
\* A piece of these kinds is alone at its place.
<1> DEFINE Tables == {header, chain_} \cup UNION {{stub(j), slot(j), import(j), name(j)} : j \in 0 .. n - 1}
<1>t. ASSUME NEW p \in Tables, NEW q \in file.pieces, q.at = p.at PROVE q = p
  <2>0. q \notin Tables => code <= q.at /\ q.at < code + text_size /\ q.at \in Nat BY <1>8
  <2> DEFINE limit == le + (80 + 4 * n)
  <2>l. limit \in Nat /\ limit >= le + 80 BY <1>1
  <2>z. \A j \in 0 .. n - 1 :
             /\ stub(j).at \in Nat /\ slot(j).at \in Nat /\ import(j).at \in Nat /\ name(j).at \in Nat
             /\ code + text_size <= stub(j).at /\ stub(j).at < fp
             /\ fp <= slot(j).at /\ slot(j).at < le
             /\ le + 80 <= import(j).at /\ import(j).at < limit
             /\ limit < name(j).at
    BY <1>z
  <2> HIDE DEF limit, Tables, n, code, stubs, fp, le, end, header, chain_, stub, slot, import, name, off
  <2>1. \A r \in Tables : code + text_size <= r.at /\ r.at \in Nat
    <3>1. \A r \in Tables : r = header \/ r = chain_ \/ \E j \in 0 .. n - 1 : r = stub(j) \/ r = slot(j) \/ r = import(j) \/ r = name(j)
      BY DEF Tables
    <3>2. code + text_size <= header.at /\ header.at \in Nat /\ code + text_size <= chain_.at /\ chain_.at \in Nat BY <1>1, <1>5
    <3>3. \A j \in 0 .. n - 1 : /\ code + text_size <= stub(j).at /\ code + text_size <= slot(j).at
                                /\ code + text_size <= import(j).at /\ code + text_size <= name(j).at
      BY <1>1, <2>l, <2>z
    <3>q. QED BY <2>z, <3>1, <3>2, <3>3
  <2>2. q \in Tables
    <3>1. code + text_size <= p.at /\ p.at \in Nat BY <2>1
    <3>2. code + text_size \in Nat BY <1>1
    <3>q. QED BY <1>t, <2>0, <3>1, <3>2
  <2>m. fp \in Nat /\ le \in Nat /\ limit \in Nat /\ fp + 80 <= le /\ le + 80 <= limit BY <1>1, <2>l
  <2>3. ASSUME NEW r \in Tables
        PROVE  /\ r.at < fp => \E j \in 0 .. n - 1 : r = stub(j)
               /\ fp <= r.at /\ r.at < le => \E j \in 0 .. n - 1 : r = slot(j)
               /\ le <= r.at /\ r.at < le + 80 => r = header \/ r = chain_
               /\ le + 80 <= r.at /\ r.at < limit => \E j \in 0 .. n - 1 : r = import(j)
               /\ limit <= r.at => \E j \in 0 .. n - 1 : r = name(j)
    <3>0. r = header \/ r = chain_ \/ \E j \in 0 .. n - 1 : r = stub(j) \/ r = slot(j) \/ r = import(j) \/ r = name(j)
      BY DEF Tables
    <3>1. CASE r = header
      <4>1. r.at \in Nat /\ fp <= r.at /\ le <= r.at /\ r.at < le + 80 /\ r.at < limit BY <1>5, <2>m, <3>1
      <4>2. ~ (r.at < fp) /\ ~ (r.at < le) /\ ~ (le + 80 <= r.at) /\ ~ (limit <= r.at) BY <2>m, <4>1
      <4>q. QED BY <3>1, <4>2
    <3>2. CASE r = chain_
      <4>1. r.at \in Nat /\ fp <= r.at /\ le <= r.at /\ r.at < le + 80 /\ r.at < limit BY <1>5, <2>m, <3>2
      <4>2. ~ (r.at < fp) /\ ~ (r.at < le) /\ ~ (le + 80 <= r.at) /\ ~ (limit <= r.at) BY <2>m, <4>1
      <4>q. QED BY <3>2, <4>2
    <3>3. CASE \E j \in 0 .. n - 1 : r = stub(j)
      <4>1. ~ (fp <= r.at) /\ ~ (le <= r.at) /\ ~ (le + 80 <= r.at) /\ ~ (limit <= r.at)
        <5>1. PICK j \in 0 .. n - 1 : r = stub(j) BY <3>3
        <5>2. r.at \in Nat /\ r.at < fp BY <2>z, <5>1
        <5>q. QED BY <2>m, <5>2
      <4>q. QED BY <3>3, <4>1
    <3>4. CASE \E j \in 0 .. n - 1 : r = slot(j)
      <4>1. ~ (r.at < fp) /\ ~ (le <= r.at) /\ ~ (le + 80 <= r.at) /\ ~ (limit <= r.at)
        <5>1. PICK j \in 0 .. n - 1 : r = slot(j) BY <3>4
        <5>2. r.at \in Nat /\ fp <= r.at /\ r.at < le BY <2>z, <5>1
        <5>q. QED BY <2>m, <5>2
      <4>q. QED BY <3>4, <4>1
    <3>5. CASE \E j \in 0 .. n - 1 : r = import(j)
      <4>1. ~ (r.at < fp) /\ ~ (r.at < le) /\ ~ (r.at < le + 80) /\ ~ (limit <= r.at)
        <5>1. PICK j \in 0 .. n - 1 : r = import(j) BY <3>5
        <5>2. r.at \in Nat /\ le + 80 <= r.at /\ r.at < limit BY <2>z, <5>1
        <5>q. QED BY <2>m, <5>2
      <4>q. QED BY <3>5, <4>1
    <3>6. CASE \E j \in 0 .. n - 1 : r = name(j)
      <4>1. ~ (r.at < fp) /\ ~ (r.at < le) /\ ~ (r.at < le + 80) /\ ~ (r.at < limit)
        <5>1. PICK j \in 0 .. n - 1 : r = name(j) BY <3>6
        <5>2. r.at \in Nat /\ limit < r.at BY <2>z, <5>1
        <5>q. QED BY <2>m, <5>2
      <4>q. QED BY <3>6, <4>1
    <3>q. QED BY <3>0, <3>1, <3>2, <3>3, <3>4, <3>5, <3>6
  <2>4. CASE p.at < fp
    <3>1. \A r \in Tables : r.at < fp => \E j \in 0 .. n - 1 : r = stub(j) BY <2>3
    <3>2. PICK i \in 0 .. n - 1 : p = stub(i) BY <2>4, <3>1
    <3>3. PICK j \in 0 .. n - 1 : q = stub(j) BY <1>t, <2>2, <2>4, <3>1
    <3>q. QED BY <1>t, <1>u, <3>2, <3>3
  <2>5. CASE fp <= p.at /\ p.at < le
    <3>1. \A r \in Tables : fp <= r.at /\ r.at < le => \E j \in 0 .. n - 1 : r = slot(j) BY <2>3
    <3>2. PICK i \in 0 .. n - 1 : p = slot(i) BY <2>5, <3>1
    <3>3. PICK j \in 0 .. n - 1 : q = slot(j) BY <1>t, <2>2, <2>5, <3>1
    <3>q. QED BY <1>t, <1>u, <3>2, <3>3
  <2>6. CASE le <= p.at /\ p.at < le + 80
    <3>1. \A r \in Tables : le <= r.at /\ r.at < le + 80 => r = header \/ r = chain_ BY <2>3
    <3>q. QED BY <1>1, <1>5, <1>t, <2>2, <2>6, <3>1
  <2>7. CASE le + 80 <= p.at /\ p.at < limit
    <3>1. \A r \in Tables : le + 80 <= r.at /\ r.at < limit => \E j \in 0 .. n - 1 : r = import(j) BY <2>3
    <3>2. PICK i \in 0 .. n - 1 : p = import(i) BY <2>7, <3>1
    <3>3. PICK j \in 0 .. n - 1 : q = import(j) BY <1>t, <2>2, <2>7, <3>1
    <3>q. QED BY <1>t, <1>u, <3>2, <3>3
  <2>8. CASE limit <= p.at
    <3>1. \A r \in Tables : limit <= r.at => \E j \in 0 .. n - 1 : r = name(j) BY <2>3
    <3>2. PICK i \in 0 .. n - 1 : p = name(i) BY <2>8, <3>1
    <3>3. PICK j \in 0 .. n - 1 : q = name(j) BY <1>t, <2>2, <2>8, <3>1
    <3>q. QED BY <1>t, <1>u, <3>2, <3>3
  <2>q. QED BY <1>1, <2>1, <2>l, <2>4, <2>5, <2>6, <2>7, <2>8
<1>v. header \in Tables /\ chain_ \in Tables
      /\ \A j \in 0 .. n - 1 : stub(j) \in Tables /\ slot(j) \in Tables /\ import(j) \in Tables /\ name(j) \in Tables
  OBVIOUS
<1> HIDE DEF Tables
<1>10. At(le) = header.what
  <2>1. le <= le /\ le < end /\ le \in Nat BY <1>1, <1>3
  <2>2. header \in file.pieces /\ header.at = le /\ \A q \in file.pieces : q.at = le => q = header BY <1>5, <1>7, <1>t, <1>v
  <2>q. QED BY <1>9, <2>1, <2>2
<1>11. At(le + 56) = chain_.what
  <2>1. le <= le + 56 /\ le + 56 < end /\ le + 56 \in Nat BY <1>1, <1>3
  <2>q. QED BY <1>5, <1>7, <1>9, <1>t, <1>v, <2>1
<1>12. ASSUME NEW i \in 0 .. n - 1
       PROVE  At(stub(i).at) = stub(i).what /\ At(slot(i).at) = slot(i).what /\ At(import(i).at) = import(i).what
              /\ At(name(i).at) = name(i).what
  <2>1. At(stub(i).at) = stub(i).what BY <1>7, <1>9, <1>t, <1>v, <1>z
  <2>2. At(slot(i).at) = slot(i).what BY <1>1, <1>7, <1>9, <1>t, <1>v, <1>z
  <2> DEFINE limit == le + (80 + 4 * n)
  <2>3. limit \in Nat /\ limit >= le + 80 /\ limit <= end BY <1>1, <1>3
  <2>4. /\ import(i).at \in Nat /\ le + 80 <= import(i).at /\ import(i).at < limit
        /\ limit < name(i).at /\ name(i).at < end /\ name(i).at \in Nat
    BY <1>z
  <2> HIDE DEF limit
  <2>5. At(import(i).at) = import(i).what
    <3>1. le <= import(i).at /\ import(i).at < end /\ import(i).at \in Nat BY <1>1, <2>3, <2>4
    <3>q. QED BY <1>7, <1>9, <1>t, <1>v, <3>1
  <2>6. At(name(i).at) = name(i).what
    <3>1. le <= name(i).at /\ name(i).at < end /\ name(i).at \in Nat BY <1>1, <2>3, <2>4
    <3>q. QED BY <1>7, <1>9, <1>t, <1>v, <3>1
  <2>q. QED BY <2>1, <2>2, <2>5, <2>6
<1>13. ASSUME NEW i \in 0 .. n - 1
       PROVE  /\ At(stubs + i * 12) = stub(i).what /\ At(fp + i * 8) = slot(i).what
              /\ At(le + 80 + 4 * i) = import(i).what /\ At(le + (80 + 4 * n) + off(i)) = name(i).what
  BY <1>6, <1>12
<1>q. QED BY <1>10, <1>11, <1>13
      DEF n, stubs, fp, le, header, chain_, stub, slot, import, name, off

\* A file for macOS: dyld binds the slot of each stub to the import it stands for.
LEMMA MachOReaches ==
  ASSUME TypeInv, PlaceInv, target = "macho", MachOOutput, NEW m \in DOMAIN imports
  PROVE  Reaches(MachOWriter!stub_off + (m - 1) * 12, imports[m])
<1> DEFINE n == Len(imports)
           stubs == MachOWriter!stub_off
           fp == MachOWriter!text_fp
           le == MachOWriter!le_fileoff
           i == m - 1
           pc == stubs + i * 12
           got == fp + i * 8
           f == imports[m]
<1>0. imports \in Seq(Called) /\ n \in Nat /\ m \in 1 .. n BY DEF TypeInv, ImportInv
<1>1. i \in 0 .. n - 1 /\ n > 0 /\ i \in Nat /\ i + 1 = m BY <1>0
<1> HIDE DEF i
<1>2. stubs \in Nat /\ fp \in Nat /\ le \in Nat /\ fp % 16384 = 0 BY MachOPlaces
<1>3. MachOWriter!sis_off = 56 /\ MachOWriter!imports_off = 80 /\ MachOWriter!symbols_off = 80 + 4 * n
  BY <1>1, MachOPlaces
<1>4. /\ At(le) = MachOWriter!Header.what
      /\ At(le + 56) = MachOWriter!Chain.what
      /\ \A j \in 0 .. n - 1 :
           /\ At(stubs + j * 12) = MachOWriter!Stub(j).what
           /\ At(fp + j * 8) = MachOWriter!Slot(j).what
           /\ At(le + 80 + 4 * j) = MachOWriter!ImportEntry(j).what
           /\ At(le + (80 + 4 * n) + name_off[j + 1]) = MachOWriter!NameAt(j).what
  BY <1>1, MachOFinds
<1>5. file.loader.fixups = le
  BY DEF MachOOutput, MachOWriter!MachOExecutable, MachOWriter!cf_off
<1>6. \A a : MachOWriter!At(a) = At(a) BY MachOSame
<1>7. /\ MachOWriter!Fixups.starts = 56 /\ MachOWriter!Fixups.imports = 80 /\ MachOWriter!Fixups.symbols = 80 + 4 * n
      /\ MachOWriter!Fixups.count = n
  <2>1. MachOWriter!Fixups = MachOWriter!Header.what BY <1>4, <1>5, <1>6 DEF MachOWriter!Fixups
  <2>q. QED BY <1>3, <2>1 DEF MachOWriter!Header, MachOWriter!Piece, MachOWriter!n_imp
<1>8. MachOWriter!FirstSlot = fp
  <2>1. MachOWriter!At(file.loader.fixups + MachOWriter!Fixups.starts) = MachOWriter!Chain.what BY <1>4, <1>5, <1>6, <1>7
  <2>2. MachOWriter!Chain.what.segment_offset = fp /\ MachOWriter!Chain.what.page_start = 0
    BY DEF MachOWriter!Chain, MachOWriter!Piece
  <2>q. QED BY <1>2, <2>1, <2>2 DEF MachOWriter!FirstSlot
<1>9. \A j \in 0 .. n - 1 : /\ MachOWriter!At(fp + 8 * j) = MachOWriter!Slot(j).what
                           /\ MachOWriter!Slot(j).what.k = "slot" /\ MachOWriter!Slot(j).what.ordinal = j
                           /\ MachOWriter!Slot(j).what.next = IF j + 1 < n THEN 2 ELSE 0
  <2>1. \A j \in 0 .. n - 1 : fp + 8 * j = fp + j * 8 BY <1>0, <1>2
  <2>q. QED BY <1>4, <1>6, <2>1 DEF MachOWriter!Slot, MachOWriter!Piece, MachOWriter!n_imp
<1>10. got = fp + 8 * i BY <1>1, <1>2
<1>11. MachOWriter!OnChain(got)
  <2>1. i \in MachOWriter!Entries /\ got = MachOWriter!FirstSlot + 8 * i
    BY <1>1, <1>8, <1>10 DEF MachOWriter!Entries, MachOWriter!n_imp
  <2>2. ASSUME NEW j \in 0 .. i - 1
        PROVE  MachOWriter!At(MachOWriter!FirstSlot + 8 * j).k = "slot" /\ MachOWriter!At(MachOWriter!FirstSlot + 8 * j).next * 4 = 8
    <3>1. j \in 0 .. n - 1 /\ j + 1 < n BY <1>1
    <3>2. MachOWriter!Slot(j).what.next = 2 BY <1>9, <3>1
    <3>q. QED BY <1>8, <1>9, <3>1, <3>2
  <2>3. MachOWriter!At(got).k = "slot"
    <3>1. MachOWriter!At(fp + 8 * i).k = "slot" BY <1>1, <1>9
    <3>q. QED BY <1>10, <3>1
  <2>q. QED BY <2>1, <2>2, <2>3 DEF MachOWriter!OnChain
<1>12. MachOWriter!At(got).ordinal = i
  <2>1. MachOWriter!At(fp + 8 * i).ordinal = i BY <1>1, <1>9
  <2>q. QED BY <1>10, <2>1
<1>13. MachOWriter!Binds(got, f)
  <2> DEFINE import == MachOWriter!At(file.loader.fixups + MachOWriter!Fixups.imports + 4 * MachOWriter!At(got).ordinal)
  <2>1. import = MachOWriter!ImportEntry(i).what BY <1>1, <1>4, <1>5, <1>6, <1>7, <1>12
  <2>2. import.k = "import" /\ import.name = name_off[i + 1] BY <2>1 DEF MachOWriter!ImportEntry, MachOWriter!Piece
  <2>3. MachOWriter!At(file.loader.fixups + MachOWriter!Fixups.symbols + import.name) = MachOWriter!NameAt(i).what
    BY <1>1, <1>4, <1>5, <1>6, <1>7, <2>2
  <2>4. MachOWriter!NameAt(i).what = [k |-> "name", of |-> f] BY <1>1 DEF MachOWriter!NameAt, MachOWriter!Piece
  <2>5. i < n BY <1>1
  <2> HIDE DEF n, i, got
  <2>q. QED BY <1>7, <1>11, <1>12, <2>2, <2>3, <2>4, <2>5 DEF MachOWriter!Binds
<1>14. /\ At(pc).k = "stub" /\ At(pc).pages = got \div 4096 - pc \div 4096 /\ At(pc).ldr = (got % 4096) \div 8
  <2>1. At(pc) = MachOWriter!Stub(i).what BY <1>1, <1>4
  <2>q. QED BY <2>1 DEF MachOWriter!Stub, MachOWriter!Piece, MachOWriter!stub_vm, MachOWriter!got_vm
<1>15. (pc \div 4096 + At(pc).pages) * 4096 + At(pc).ldr * 8 = got
  <2>1. pc \in Nat /\ got \in Nat BY <1>1, <1>2
  <2>2. got % 8 = 0 BY <1>1, <1>2
  <2> HIDE DEF pc, got
  <2>3. (got \div 4096) * 4096 + ((got % 4096) \div 8) * 8 = got BY <2>1, <2>2
  <2>4. pc \div 4096 + At(pc).pages = got \div 4096 BY <1>14, <2>1
  <2>q. QED BY <1>14, <2>3, <2>4
<1>16. MachOWriter!Reaches(pc, f) BY <1>6, <1>13, <1>14, <1>15 DEF MachOWriter!Reaches
<1>q. QED BY <1>16 DEF Reaches, Elf, i

\* Its calls, strings and start all lead where they should.
LEMMA MachOLands == ASSUME TypeInv, PlaceInv, Defined("main"), target = "macho", MachOOutput PROVE ReferencesLand
<1> DEFINE code == MachOWriter!code_off
           stubs == MachOWriter!stub_off
           sig == MachOWriter!sig_off
           S == file.segments
<1>1. /\ code \in Nat /\ stubs \in Nat /\ code % 4 = 0 /\ stubs % 4 = 0
      /\ code + text_size <= stubs /\ stubs + Len(imports) * 12 <= MachOWriter!text_fp
      /\ MachOWriter!text_fp \in Nat /\ text_size \in Nat /\ Len(imports) \in Nat
  BY MachOPlaces
<1>2. 1 \in DOMAIN S /\ S[1].off = 0 /\ S[1].addr = 0 /\ S[1].filesz = MachOWriter!text_fp
  BY DEF MachOOutput, MachOWriter!MachOExecutable, MachOWriter!segments, MachOWriter!Segment
<1>3. file.text = code /\ file.start = code + entry
  BY MachOSame DEF MachOOutput, MachOWriter!MachOExecutable
<1>4. TextPieces(code) \subseteq file.pieces
  <2>1. file.pieces = MachOWriter!MachOExecutable.pieces BY DEF MachOOutput
  <2>2. MachOWriter!TextPieces(code) = TextPieces(code) BY MachOSame
  <2> HIDE DEF code
  <2>3. MachOWriter!TextPieces(MachOWriter!code_off) \subseteq MachOWriter!MachOExecutable.pieces
    BY DEF MachOWriter!MachOExecutable
  <2>q. QED BY <2>1, <2>2, <2>3 DEF code
<1>5. /\ \A f \in Functions : Defined(f) => Holds(file.text + FnAt(f), [k |-> "function", of |-> f])
      /\ \A i \in DOMAIN fixups : fixups[i].kind = "str" =>
           Holds(file.text + (code_bytes + fixups[i].aux), [k |-> "string", of |-> i])
  <2>1. /\ S[1].off \in Nat /\ S[1].addr \in Nat /\ S[1].filesz \in Nat /\ S[1].addr <= code
        /\ code + text_size <= S[1].addr + S[1].filesz /\ code = S[1].off + code - S[1].addr
    <3> HIDE DEF code, stubs, S
    <3>q. QED BY <1>1, <1>2
  <2> HIDE DEF code, S
  <2>q. QED BY <1>1, <1>2, <1>3, <1>4, <2>1, TextHeld DEF S
<1>6. Starts
  <2>1. Holds(file.start, [k |-> "function", of |-> "main"]) BY <1>3, <1>5 DEF entry, Functions
  <2>2. /\ file.loader.n_slots = (sig + 4095) \div 4096 /\ file.loader.code_limit = sig
    <3>1. file.loader.n_slots = MachOWriter!n_slots /\ file.loader.code_limit = sig
      BY DEF MachOOutput, MachOWriter!MachOExecutable, MachOWriter!code_limit
    <3>2. MachOWriter!n_slots = (sig + 4096 - 1) \div 4096 BY DEF MachOWriter!n_slots, MachOWriter!code_limit, MachOWriter!CS_PAGE
    <3>3. sig \in Nat BY SMTT(20), MachONumbers DEF MachOOutput
    <3> HIDE DEF sig
    <3>4. sig + 4096 - 1 = sig + 4095 BY <3>3
    <3>q. QED BY <3>1, <3>2, <3>4
  <2>3. sig \in Nat BY SMTT(20), MachONumbers DEF MachOOutput
  <2> HIDE DEF sig
  <2>4. ((sig + 4095) \div 4096) * 4096 >= sig /\ ((sig + 4095) \div 4096 - 1) * 4096 < sig BY <2>3
  <2>q. QED
    BY <2>1, <2>2, <2>3, <2>4, MachOSame DEF Starts, MachOWriter!Starts, MachOWriter!CS_PAGE, Elf
<1>7. \A m \in DOMAIN imports : Reaches(stubs + (m - 1) * 12, imports[m]) BY MachOReaches
<1>8. Linked(file.text, stubs, 12) BY <1>3 DEF MachOOutput
<1> DEFINE bytes == 12
<1>9. /\ stubs \in Nat /\ bytes \in {6, 12, 16} /\ stubs % 4 = 0 /\ bytes % 4 = 0
      /\ Linked(file.text, stubs, bytes) /\ \A m \in DOMAIN imports : Reaches(stubs + (m - 1) * bytes, imports[m])
  BY <1>1, <1>7, <1>8
<1>10. file.text \in Nat /\ file.text % 4 = 0 BY <1>1, <1>3
<1> HIDE DEF code, stubs, bytes
<1>q. QED BY <1>5, <1>6, <1>9, <1>10, AllLand

\* Fixups stay linked as long as they and what they are linked to do.
LEMMA LinksSame ==
  ASSUME UNCHANGED <<target, code_vars, imports>>, NEW text, NEW stubs, NEW size,
         \A i \in DOMAIN fixups :
           IF Known(i) THEN word'[i] = Value(i)
           ELSE \E m \in DOMAIN imports :
                  imports[m] = fixups[i].key /\ word'[i] = Branch(text + Site(fixups[i]), stubs + (m - 1) * size)
  PROVE  Linked(text, stubs, size)'
<1>1. \A i : (Known(i)' <=> Known(i)) /\ Value(i)' = Value(i) /\ Site(fixups[i])' = Site(fixups[i]) BY SameValues
<1>2. \A s, t : Branch(s, t)' = Branch(s, t) BY DEF Branch, Arm
<1>q. QED BY <1>1, <1>2 DEF Linked

\* WriteMachO writes such a file.
LEMMA MachOWritten ==
  ASSUME TypeInv, CallInv, OrderInv, ~diagnosed, MachOWriter!WriteMachO
  PROVE  MachOOutput'
<1>0. PICK text, stubs : text = MachOWriter!code_off /\ stubs = MachOWriter!stub_off OBVIOUS
<1>1. /\ phase = "names" /\ target = "macho" /\ Len(name_off) = Len(imports)
      /\ file' = MachOWriter!MachOExecutable /\ word' = MachOWriter!Patched(text, stubs, 12)
      /\ UNCHANGED <<target, code_vars, next, import_vars, table_vars, diagnosed>>
  BY <1>0 DEF MachOWriter!WriteMachO, MachOWriter!MachO, MachOWriter!n_imp, MachOWriter!Write,
     MachOWriter!code_vars, MachOWriter!import_vars, MachOWriter!table_vars
<1>2. MachOWriter!MachOExecutable' = MachOWriter!MachOExecutable BY <1>1, MachOFileSame
<1>3. MachOWriter!code_off' = text /\ MachOWriter!stub_off' = stubs
  BY <1>0, <1>1 DEF MachOWriter!code_off, MachOWriter!stub_off, MachOWriter!dyn, MachOWriter!n_imp, MachOWriter!align_up,
     MachOWriter!text_size, MachOWriter!code_bytes, MachOWriter!Unit, MachOWriter!Arm
<1>4. Linked(text, stubs, 12)'
  <2>1. word' = Patched(text, stubs, 12) BY <1>1, MachOSame
  <2>2. \A i \in DOMAIN fixups :
           IF Known(i) THEN word'[i] = Value(i)
           ELSE \E m \in DOMAIN imports :
                  imports[m] = fixups[i].key /\ word'[i] = Branch(text + Site(fixups[i]), stubs + (m - 1) * 12)
    BY <1>1, <2>1, PatchedLinks
  <2>q. QED BY <1>1, <2>2, LinksSame
<1>5. name_end <= 6209
  <2>1. name_end <= 1 + 97 * Len(name_off) BY <1>1 DEF TypeInv, NameInv
  <2>2. Len(name_off) <= ImportCap BY <1>1 DEF TypeInv, ImportInv
  <2>3. ImportCap \in 0 .. 64 BY CapsAssumption
  <2>4. name_off \in Seq(Nat) /\ name_end \in Nat BY DEF TypeInv, NameInv
  <2>5. Len(name_off) \in Nat BY <2>4
  <2>q. QED BY <2>1, <2>2, <2>3, <2>4, <2>5
<1>6. NamesInOrder'
  BY <1>1 DEF OrderInv, NamesInOrder, FirstName, Gap
<1>q. QED BY <1>1, <1>2, <1>3, <1>4, <1>5, <1>6 DEF MachOOutput

-----------------------------------------------------------------------------
(* A file for Windows                                                        *)

\* The writer speaks of the same file.
LEMMA PeSame ==
  /\ \A a : PeWriter!At(a) = At(a)
  /\ \A a, w : PeWriter!Holds(a, w) <=> Holds(a, w)
  /\ \A a : PeWriter!TextPieces(a) = TextPieces(a)
  /\ \A t, s, z : PeWriter!Patched(t, s, z) = Patched(t, s, z)
  /\ PeWriter!entry = entry /\ PeWriter!text_size = text_size
  /\ \A x, a : PeWriter!align_up(x, a) = align_up(x, a)
<1>0. PeWriter!Arm = Arm BY DEF PeWriter!Arm, Arm
<1>1. \A s, a : PeWriter!Mapped(s, a) = Mapped(s, a) BY DEF PeWriter!Mapped, Mapped
<1>2. \A a : PeWriter!Found(a) = Found(a) BY <1>1 DEF PeWriter!Found, Found
<1>3. ASSUME NEW a PROVE PeWriter!At(a) = At(a)
  <2>1. PeWriter!Found(a) = Found(a) BY <1>2
  <2>q. QED BY <2>1 DEF PeWriter!At, At
<1>a. \A a, w : PeWriter!Holds(a, w) <=> Holds(a, w) BY <1>2 DEF PeWriter!Holds, Holds
<1>4. PeWriter!Unit = Unit BY DEF PeWriter!Unit, Unit, PeWriter!Arm, Arm
<1>5. \A f : PeWriter!FnAt(f) = FnAt(f) BY <1>4 DEF PeWriter!FnAt, FnAt
<1>6. \A f : PeWriter!Defined(f) = Defined(f) BY DEF PeWriter!Defined, Defined
<1>7. PeWriter!code_bytes = code_bytes BY <1>4 DEF PeWriter!code_bytes, code_bytes
<1>8. PeWriter!entry = entry /\ PeWriter!text_size = text_size
  BY <1>5, <1>7 DEF PeWriter!entry, entry, PeWriter!text_size, text_size
<1>9. \A a, w : PeWriter!Piece(a, w) = Piece(a, w) BY DEF PeWriter!Piece, Piece
<1>10. PeWriter!Functions = Functions BY DEF PeWriter!Functions, Functions
<1>11. \A a : PeWriter!TextPieces(a) = TextPieces(a)
  BY <1>5, <1>6, <1>7, <1>9, <1>10 DEF PeWriter!TextPieces, TextPieces
<1>12. \A s, t : PeWriter!Branch(s, t) = Branch(s, t)
  BY <1>0 DEF PeWriter!Branch, Branch
<1>13. \A t, s, z : PeWriter!Patched(t, s, z) = Patched(t, s, z)
  BY <1>12 DEF PeWriter!Patched, Patched
<1>14. \A x, a : PeWriter!align_up(x, a) = align_up(x, a)
  BY DEF PeWriter!align_up, align_up
<1>q. QED BY <1>3, <1>a, <1>8, <1>11, <1>13, <1>14

\* The file does not change as long as what it is made from does not.
LEMMA PeFileSame ==
  ASSUME UNCHANGED <<target, code_vars, import_vars, name_off, name_end>>
  PROVE  /\ PeWriter!PeExecutable' = PeWriter!PeExecutable
         /\ PeWriter!code_rva' = PeWriter!code_rva /\ PeWriter!thunks_rva' = PeWriter!thunks_rva
<1>1. UNCHANGED <<PeWriter!nimp, PeWriter!exit_idx, PeWriter!Unit, PeWriter!Entries>>
  BY DEF PeWriter!nimp, PeWriter!exit_idx, PeWriter!Unit, PeWriter!Arm, PeWriter!Entries
<1>2. UNCHANGED <<PeWriter!code_bytes, PeWriter!text_size>> /\ \A f : PeWriter!FnAt(f)' = PeWriter!FnAt(f)
  BY <1>1 DEF PeWriter!code_bytes, PeWriter!text_size, PeWriter!FnAt
<1>3. PeWriter!entry' = PeWriter!entry BY <1>2 DEF PeWriter!entry
<1>4. UNCHANGED <<PeWriter!desc_size, PeWriter!ilt_off, PeWriter!ilt_size, PeWriter!iat_off, PeWriter!iat_size,
                  PeWriter!size_of_headers, PeWriter!text_va, PeWriter!thunks_rva, PeWriter!code_rva>>
  BY <1>1 DEF PeWriter!desc_size, PeWriter!ilt_off, PeWriter!ilt_size, PeWriter!iat_off, PeWriter!iat_size,
     PeWriter!size_of_headers, PeWriter!text_va, PeWriter!thunks_rva, PeWriter!code_rva, PeWriter!align_up,
     PeWriter!PE_THUNK_ENTRY, PeWriter!PE_FILE_ALIGN, PeWriter!PE_SECTION_ALIGN, PeWriter!pe_entry_stub_size, PeWriter!pe_thunk_size
<1>5. UNCHANGED <<PeWriter!text_vsize, PeWriter!text_raw_ptr, PeWriter!dllname_off>>
  BY <1>2, <1>4 DEF PeWriter!text_vsize, PeWriter!text_raw_ptr, PeWriter!dllname_off
<1>6. UNCHANGED <<PeWriter!text_raw_size, PeWriter!idata_va, PeWriter!idata_vsize>>
  BY <1>4, <1>5 DEF PeWriter!text_raw_size, PeWriter!idata_va, PeWriter!idata_vsize, PeWriter!align_up,
     PeWriter!PE_FILE_ALIGN, PeWriter!PE_SECTION_ALIGN
<1>7. UNCHANGED <<PeWriter!idata_raw_ptr, PeWriter!idata_raw_size>>
  BY <1>5, <1>6 DEF PeWriter!idata_raw_ptr, PeWriter!idata_raw_size, PeWriter!align_up, PeWriter!PE_FILE_ALIGN
<1>8. UNCHANGED PeWriter!total_file
  BY <1>7 DEF PeWriter!total_file
<1>9. UNCHANGED PeWriter!parts
  BY <1>1, <1>2, <1>4, <1>5, <1>7
  DEF PeWriter!parts, PeWriter!Part, PeWriter!Text, PeWriter!Idata, PeWriter!pe_entry_stub_size, PeWriter!pe_thunk_size
<1>10. UNCHANGED PeWriter!segments
  BY <1>4, <1>5, <1>6, <1>7 DEF PeWriter!segments, PeWriter!Segment
<1>11. UNCHANGED PeWriter!TextPieces(PeWriter!Text(PeWriter!code_rva))
  BY <1>2, <1>4, <1>5 DEF PeWriter!TextPieces, PeWriter!Piece, PeWriter!Defined, PeWriter!Functions, PeWriter!Text
<1>12. \A i : PeWriter!pe_import_name(i)' = PeWriter!pe_import_name(i) /\ PeWriter!thunk_rva(i)' = PeWriter!thunk_rva(i)
  BY <1>1, <1>4 DEF PeWriter!pe_import_name, PeWriter!pe_export_name, PeWriter!thunk_rva, PeWriter!pe_thunk_size
<1>13. \A i : PeWriter!Thunk(i)' = PeWriter!Thunk(i) /\ PeWriter!NameAt(i)' = PeWriter!NameAt(i)
  BY <1>4, <1>5, <1>6, <1>7, <1>12
  DEF PeWriter!Thunk, PeWriter!NameAt, PeWriter!Piece, PeWriter!Text, PeWriter!Idata, PeWriter!PE_THUNK_ENTRY
<1>15. \A i : PeWriter!Entry(PeWriter!ilt_off, i)' = PeWriter!Entry(PeWriter!ilt_off, i)
              /\ PeWriter!Entry(PeWriter!iat_off, i)' = PeWriter!Entry(PeWriter!iat_off, i)
  BY <1>4, <1>6, <1>7 DEF PeWriter!Entry, PeWriter!Piece, PeWriter!Idata, PeWriter!PE_THUNK_ENTRY
<1>16. UNCHANGED <<PeWriter!EntryStub, PeWriter!Descriptor, PeWriter!DllName>>
  <2>1. PeWriter!thunk_rva(PeWriter!exit_idx)' = PeWriter!thunk_rva(PeWriter!exit_idx)
    BY <1>1, <1>4 DEF PeWriter!thunk_rva, PeWriter!pe_thunk_size
  <2>q. QED BY <1>3, <1>4, <1>5, <1>6, <1>7, <2>1
        DEF PeWriter!EntryStub, PeWriter!Descriptor, PeWriter!DllName, PeWriter!Piece, PeWriter!Idata
<1>17. UNCHANGED UNION {{PeWriter!Thunk(i), PeWriter!Entry(PeWriter!ilt_off, i), PeWriter!Entry(PeWriter!iat_off, i), PeWriter!NameAt(i)} :
                        i \in PeWriter!Entries}
  BY <1>1, <1>13, <1>15
<1>18. UNCHANGED PeWriter!PeExecutable.pieces
  BY <1>11, <1>16, <1>17 DEF PeWriter!PeExecutable
<1>19. UNCHANGED Len(PeWriter!parts) BY <1>9
<1>20. PeWriter!PeExecutable' =
         [parts |-> PeWriter!parts', loaded |-> Len(PeWriter!parts)', size |-> PeWriter!total_file',
          room |-> PeWriter!ImgSize, segments |-> PeWriter!segments', page |-> PeWriter!PE_SECTION_ALIGN,
          text |-> PeWriter!code_rva', start |-> PeWriter!text_va', loader |-> [directory |-> PeWriter!idata_va]',
          pieces |-> PeWriter!PeExecutable.pieces']
  BY DEF PeWriter!PeExecutable, PeWriter!PE_SECTION_ALIGN, PeWriter!ImgSize
<1>21. PeWriter!PeExecutable =
         [parts |-> PeWriter!parts, loaded |-> Len(PeWriter!parts), size |-> PeWriter!total_file,
          room |-> PeWriter!ImgSize, segments |-> PeWriter!segments, page |-> PeWriter!PE_SECTION_ALIGN,
          text |-> PeWriter!code_rva, start |-> PeWriter!text_va, loader |-> [directory |-> PeWriter!idata_va],
          pieces |-> PeWriter!PeExecutable.pieces]
  BY DEF PeWriter!PeExecutable, PeWriter!PE_SECTION_ALIGN, PeWriter!ImgSize
<1>22. UNCHANGED [directory |-> PeWriter!idata_va] BY <1>6
<1>q. QED BY <1>4, <1>8, <1>9, <1>10, <1>18, <1>19, <1>20, <1>21, <1>22

\* What a file for Windows is made of, and how its calls are patched.
PeOutput ==
  /\ file = PeWriter!PeExecutable
  /\ \E text, stubs : text = PeWriter!code_rva /\ stubs = PeWriter!thunks_rva /\ Linked(text, stubs, 6)
  /\ Len(name_off) = Len(imports) + 1 /\ NamesInOrder

\* Its numbers, and where in it what refers to what is.
LEMMA PePlaces ==
  ASSUME TypeInv, target = "pe-x86_64", PeOutput
  PROVE  LET n == PeWriter!nimp
             data == PeWriter!idata_raw_ptr
             idata == PeWriter!idata_va
         IN /\ n \in Nat /\ n = Len(imports) + 1 /\ data \in Nat /\ idata \in Nat /\ text_size \in Nat /\ name_end \in Nat
            /\ PeWriter!code_rva = 4112 + n * 6 /\ PeWriter!thunks_rva = 4112 /\ PeWriter!text_va = 4096
            /\ PeWriter!text_raw_ptr = 512 /\ PeWriter!ilt_off = 40 /\ PeWriter!iat_off = 48 + 8 * n
            /\ 528 + n * 6 + text_size <= data /\ 4112 + n * 6 + text_size <= idata
            /\ 60 + 16 * n <= name_end
            /\ \A i \in 1 .. n : name_off[i] \in Nat /\ 56 + 16 * n <= name_off[i] /\ name_off[i] + 4 <= name_end
            /\ \A i, j \in 1 .. n : i < j => name_off[i] < name_off[j]
<1> DEFINE n == PeWriter!nimp
           vsize == 16 + n * 6 + text_size
           raw == PeWriter!text_raw_size
           data == PeWriter!idata_raw_ptr
           idata == PeWriter!idata_va
<1>1. n \in Nat /\ n = Len(imports) + 1 /\ name_end \in Nat /\ text_size \in Nat /\ Len(imports) \in Nat /\ n > 0
  BY SizesTyped DEF PeWriter!nimp
<1>2. PeWriter!text_size = text_size /\ \A x, a : PeWriter!align_up(x, a) = align_up(x, a) BY PeSame
<1>3. PeWriter!size_of_headers = 512
  BY DEF PeWriter!size_of_headers, PeWriter!align_up, PeWriter!PE_FILE_ALIGN
<1>4. PeWriter!code_rva = 4112 + n * 6 /\ PeWriter!thunks_rva = 4112 /\ PeWriter!text_va = 4096 /\ PeWriter!text_vsize = vsize
  BY <1>1, <1>2 DEF PeWriter!code_rva, PeWriter!thunks_rva, PeWriter!text_va, PeWriter!text_vsize,
     PeWriter!PE_SECTION_ALIGN, PeWriter!pe_entry_stub_size, PeWriter!pe_thunk_size
<1>5. raw \in Nat /\ vsize <= raw
  <2>1. vsize \in Nat BY <1>1
  <2>q. QED BY <1>2, <1>4, <2>1, RoundedUp DEF PeWriter!text_raw_size, PeWriter!PE_FILE_ALIGN
<1>6. data = 512 + raw /\ PeWriter!text_raw_ptr = 512
  BY <1>3 DEF PeWriter!idata_raw_ptr, PeWriter!text_raw_ptr
<1>7. idata \in Nat /\ 4096 + vsize <= idata
  <2>1. 4096 + vsize \in Nat BY <1>1
  <2>q. QED BY <1>2, <1>4, <2>1, RoundedUp DEF PeWriter!idata_va, PeWriter!PE_SECTION_ALIGN
<1>8. PeWriter!ilt_off = 40 /\ PeWriter!iat_off = 48 + 8 * n
  BY <1>1 DEF PeWriter!desc_size, PeWriter!ilt_off, PeWriter!ilt_size, PeWriter!iat_off, PeWriter!PE_THUNK_ENTRY
<1>9. data \in Nat /\ 528 + n * 6 + text_size <= data /\ 4112 + n * 6 + text_size <= idata
  <2> HIDE DEF n, raw, data, idata
  <2>q. QED BY <1>1, <1>5, <1>6, <1>7
<1>10. name_off \in Seq(Nat) /\ DOMAIN name_off = 1 .. n /\ FirstName = 56 + 16 * n /\ Gap = 4
  BY <1>1 DEF PeOutput, TypeInv, NameInv, FirstName, Gap
<1>11. /\ \A i \in 1 .. n : name_off[i] \in Nat
       /\ \A i \in 1 .. n : 56 + 16 * n <= name_off[i] /\ name_off[i] + 4 <= name_end
       /\ \A i, j \in 1 .. n : i < j => name_off[i] + 4 <= name_off[j]
  <2>1. NamesInOrder BY DEF PeOutput
  <2> HIDE DEF n
  <2>2. \A i \in 1 .. n : name_off[i] \in Nat BY <1>10, SeqElement
  <2>q. QED BY <1>10, <2>1, <2>2 DEF NamesInOrder
<1> HIDE DEF n, vsize, raw, data, idata
<1>12. 60 + 16 * n <= name_end
  <2>1. 1 \in 1 .. n BY <1>1
  <2>2. name_off[1] \in Nat /\ 56 + 16 * n <= name_off[1] /\ name_off[1] + 4 <= name_end BY <1>11, <2>1
  <2>q. QED BY <1>1, <2>2
<1>13. \A i, j \in 1 .. n : i < j => name_off[i] < name_off[j]
  <2> SUFFICES ASSUME NEW i \in 1 .. n, NEW j \in 1 .. n, i < j PROVE name_off[i] < name_off[j] OBVIOUS
  <2>1. name_off[i] \in Nat /\ name_off[j] \in Nat /\ name_off[i] + 4 <= name_off[j] BY <1>11
  <2>q. QED BY <2>1
<1>q. QED BY SMTT(30), <1>1, <1>4, <1>6, <1>7, <1>8, <1>9, <1>11, <1>12, <1>13 DEF n, data, idata

\* Its sections.
LEMMA PeSections ==
  ASSUME TypeInv, target = "pe-x86_64", PeOutput
  PROVE  LET S == file.segments
             vsize == 16 + PeWriter!nimp * 6 + text_size
         IN /\ DOMAIN S = {1, 2, 3}
            /\ S[1].off = 0 /\ S[1].addr = 0 /\ S[1].filesz = 512
            /\ S[2].off = 512 /\ S[2].addr = 4096 /\ S[2].filesz = vsize
            /\ S[3].off = PeWriter!idata_raw_ptr /\ S[3].addr = PeWriter!idata_va /\ S[3].filesz = name_end + 11
<1> DEFINE n == PeWriter!nimp
           vsize == 16 + n * 6 + text_size
           data == PeWriter!idata_raw_ptr
           idata == PeWriter!idata_va
<1>1. n \in Nat /\ text_size \in Nat /\ PeWriter!text_raw_ptr = 512 /\ PeWriter!text_va = 4096
      /\ PeWriter!code_rva = 4112 + n * 6 /\ PeWriter!text_size = text_size
  BY PePlaces, PeSame
<1>2. PeWriter!text_vsize = vsize BY <1>1 DEF PeWriter!text_vsize
<1>3. PeWriter!size_of_headers = 512
  BY DEF PeWriter!size_of_headers, PeWriter!align_up, PeWriter!PE_FILE_ALIGN
<1>4. file.segments = PeWriter!segments BY DEF PeOutput, PeWriter!PeExecutable
<1> HIDE DEF n, vsize, data, idata
<1>5. file.segments = <<[off |-> 0, filesz |-> 512, addr |-> 0, memsz |-> 512],
                        [off |-> 512, filesz |-> vsize, addr |-> 4096, memsz |-> vsize],
                        [off |-> data, filesz |-> name_end + 11, addr |-> idata, memsz |-> name_end + 11]>>
  BY <1>1, <1>2, <1>3, <1>4 DEF PeWriter!segments, PeWriter!Segment, PeWriter!idata_vsize, PeWriter!dllname_off, data, idata
<1>q. QED BY <1>5 DEF n, vsize, data, idata

\* Every piece is of the code or of a table.
LEMMA PePieces ==
  ASSUME TypeInv, PlaceInv, target = "pe-x86_64", PeOutput, NEW q \in file.pieces
  PROVE  LET at == PeWriter!Text(PeWriter!code_rva)
         IN \/ at <= q.at /\ q.at < at + text_size /\ q.at \in Nat
            \/ q = PeWriter!EntryStub \/ q = PeWriter!Descriptor \/ q = PeWriter!DllName
            \/ \E i \in 0 .. PeWriter!nimp - 1 :
                 \/ q = PeWriter!Thunk(i) \/ q = PeWriter!Entry(PeWriter!ilt_off, i)
                 \/ q = PeWriter!Entry(PeWriter!iat_off, i) \/ q = PeWriter!NameAt(i)
<1> DEFINE at == PeWriter!Text(PeWriter!code_rva)
<1>1. at \in Nat
  <2>1. PeWriter!nimp \in Nat /\ PeWriter!text_raw_ptr = 512 /\ PeWriter!text_va = 4096
        /\ PeWriter!code_rva = 4112 + PeWriter!nimp * 6
    BY PePlaces
  <2>q. QED BY <2>1 DEF PeWriter!Text
<1>2. file.pieces = PeWriter!PeExecutable.pieces BY DEF PeOutput
<1>3. PeWriter!TextPieces(at) = TextPieces(at) BY PeSame
<1>4. file.pieces = PeWriter!TextPieces(at) \cup {PeWriter!EntryStub, PeWriter!Descriptor, PeWriter!DllName}
             \cup UNION {{PeWriter!Thunk(i), PeWriter!Entry(PeWriter!ilt_off, i), PeWriter!Entry(PeWriter!iat_off, i), PeWriter!NameAt(i)} :
                           i \in PeWriter!Entries}
  BY <1>2 DEF PeWriter!PeExecutable
<1> HIDE DEF at
<1>5. CASE q \in TextPieces(at) BY <1>1, <1>5, TextWithin DEF at
<1>6. CASE q \notin TextPieces(at)
  BY <1>3, <1>4, <1>6 DEF PeWriter!Entries
<1>q. QED BY <1>5, <1>6

\* What the loader looks for in the tables is there.
LEMMA PeFinds ==
  ASSUME TypeInv, PlaceInv, target = "pe-x86_64", PeOutput
  PROVE  LET n == PeWriter!nimp
             idata == PeWriter!idata_va
         IN /\ At(4096) = PeWriter!EntryStub.what
            /\ At(idata) = PeWriter!Descriptor.what
            /\ At(idata + name_end) = PeWriter!DllName.what
            /\ \A i \in 0 .. n - 1 :
                 /\ At(4112 + i * 6) = PeWriter!Thunk(i).what
                 /\ At(idata + 40 + i * 8) = PeWriter!Entry(PeWriter!ilt_off, i).what
                 /\ At(idata + name_off[i + 1] + 2) = PeWriter!NameAt(i).what
<1> DEFINE n == PeWriter!nimp
           data == PeWriter!idata_raw_ptr
           idata == PeWriter!idata_va
           S == file.segments
           code == 528 + n * 6
           vsize == 16 + n * 6 + text_size
           start == PeWriter!EntryStub
           descriptor == PeWriter!Descriptor
           dll == PeWriter!DllName
           thunk(i) == PeWriter!Thunk(i)
           lookup(i) == PeWriter!Entry(PeWriter!ilt_off, i)
           address(i) == PeWriter!Entry(PeWriter!iat_off, i)
           name(i) == PeWriter!NameAt(i)
           off(i) == name_off[i + 1]
<1>1. /\ n \in Nat /\ n > 0 /\ data \in Nat /\ idata \in Nat /\ text_size \in Nat /\ name_end \in Nat
      /\ code + text_size <= data /\ 4112 + n * 6 + text_size <= idata /\ 60 + 16 * n <= name_end
  <2>1. Len(imports) \in Nat BY SizesTyped
  <2>q. QED BY <2>1, PePlaces
<1>2. /\ PeWriter!code_rva = 4112 + n * 6 /\ PeWriter!thunks_rva = 4112 /\ PeWriter!text_va = 4096
      /\ PeWriter!text_raw_ptr = 512 /\ PeWriter!ilt_off = 40 /\ PeWriter!iat_off = 48 + 8 * n
  BY PePlaces
<1>3. /\ DOMAIN S = {1, 2, 3}
      /\ S[1].off = 0 /\ S[1].addr = 0 /\ S[1].filesz = 512
      /\ S[2].off = 512 /\ S[2].addr = 4096 /\ S[2].filesz = vsize
      /\ S[3].off = data /\ S[3].addr = idata /\ S[3].filesz = name_end + 11
  BY PeSections
<1>4. /\ \A i \in 0 .. n - 1 : off(i) \in Nat /\ 56 + 16 * n <= off(i) /\ off(i) + 4 <= name_end
      /\ \A i, j \in 0 .. n - 1 : i # j => off(i) # off(j)
  <2> DEFINE at(i) == name_off[i]
  <2>1. /\ \A i \in 1 .. n : at(i) \in Nat /\ 56 + 16 * n <= at(i) /\ at(i) + 4 <= name_end
        /\ \A i, j \in 1 .. n : i < j => at(i) < at(j)
    BY PePlaces
  <2>2. off(0) = at(0 + 1) /\ \A i : off(i) = at(i + 1) OBVIOUS
  <2> HIDE DEF at, off, n
  <2>q. QED BY <1>1, <2>1, <2>2
<1>5. start.at = 512 /\ descriptor.at = data /\ dll.at = data + name_end
  BY <1>2 DEF PeWriter!EntryStub, PeWriter!Descriptor, PeWriter!DllName, PeWriter!Piece, PeWriter!Idata, PeWriter!dllname_off
<1>6. ASSUME NEW i \in 0 .. n - 1
      PROVE  /\ thunk(i).at = 528 + i * 6 /\ lookup(i).at = data + (40 + i * 8)
             /\ address(i).at = data + (48 + 8 * n + i * 8) /\ name(i).at = data + (off(i) + 2)
  <2>1. i \in Nat BY <1>1
  <2>q. QED
    BY <1>1, <1>2, <2>1 DEF PeWriter!Thunk, PeWriter!Entry, PeWriter!NameAt, PeWriter!Piece, PeWriter!Text, PeWriter!Idata,
       PeWriter!thunk_rva, PeWriter!pe_thunk_size, PeWriter!PE_THUNK_ENTRY
<1>7. /\ start \in file.pieces /\ descriptor \in file.pieces /\ dll \in file.pieces
      /\ \A i \in 0 .. n - 1 :
           thunk(i) \in file.pieces /\ lookup(i) \in file.pieces /\ address(i) \in file.pieces /\ name(i) \in file.pieces
  <2>1. PeWriter!Entries = 0 .. n - 1 BY DEF PeWriter!Entries
  <2>2. file.pieces = PeWriter!PeExecutable.pieces BY DEF PeOutput
  <2>3. start \in file.pieces /\ descriptor \in file.pieces /\ dll \in file.pieces
    BY <2>2 DEF PeWriter!PeExecutable
  <2>4. ASSUME NEW i \in 0 .. n - 1
        PROVE  thunk(i) \in file.pieces /\ lookup(i) \in file.pieces /\ address(i) \in file.pieces /\ name(i) \in file.pieces
    <3>1. {thunk(i), lookup(i), address(i), name(i)} \subseteq
            UNION {{thunk(j), lookup(j), address(j), name(j)} : j \in PeWriter!Entries}
      <4> HIDE DEF thunk, lookup, address, name
      <4>q. QED BY <2>1
    <3>q. QED BY <2>2, <3>1 DEF PeWriter!PeExecutable
  <2>q. QED BY <2>3, <2>4
<1>8. ASSUME NEW q \in file.pieces
      PROVE  \/ code <= q.at /\ q.at < code + text_size /\ q.at \in Nat
             \/ q = start \/ q = descriptor \/ q = dll
             \/ \E j \in 0 .. n - 1 : q = thunk(j) \/ q = lookup(j) \/ q = address(j) \/ q = name(j)
  <2>1. PeWriter!Text(PeWriter!code_rva) = code BY <1>1, <1>2 DEF PeWriter!Text
  <2> HIDE DEF code
  <2>q. QED BY <2>1, PePieces
<1> HIDE DEF n, data, idata, S, code, start, descriptor, dll, thunk, lookup, address, name, off
<1>9. ASSUME NEW p \in file.pieces, NEW a \in Nat, p.at \in Nat, \A q \in file.pieces : q.at = p.at => q = p,
             \/ 4096 <= a /\ a < 4096 + vsize /\ a = 3584 + p.at
             \/ idata <= a /\ a < idata + (name_end + 11) /\ \E o \in Nat : a = idata + o /\ p.at = data + o
      PROVE  At(a) = p.what
  <2>0. vsize \in Nat /\ 4096 + vsize <= idata BY <1>1
  <2> HIDE DEF vsize
  <2>1. CASE 4096 <= a /\ a < 4096 + vsize /\ a = 3584 + p.at
    <3>1. Mapped(S[2], a) BY <1>1, <1>3, <2>0, <2>1 DEF Mapped
    <3>2. ~Mapped(S[1], a) /\ ~Mapped(S[3], a) BY <1>1, <1>3, <2>0, <2>1 DEF Mapped
    <3>3. p.at = S[2].off + a - S[2].addr
      <4>1. p.at = 512 + a - 4096 BY <1>9, <2>1
      <4>q. QED BY <1>3, <4>1
    <3>4. \A t \in DOMAIN S : Mapped(S[t], a) => S[t].off + a - S[t].addr = p.at BY <1>3, <3>2, <3>3
    <3>5. 2 \in DOMAIN S BY <1>3
    <3>q. QED BY <1>9, <3>1, <3>3, <3>4, <3>5, AtPiece DEF S
  <2>2. CASE idata <= a /\ a < idata + (name_end + 11) /\ \E o \in Nat : a = idata + o /\ p.at = data + o
    <3>1. Mapped(S[3], a) BY <1>1, <1>3, <2>0, <2>2 DEF Mapped
    <3>2. ~Mapped(S[1], a) /\ ~Mapped(S[2], a) BY <1>1, <1>3, <2>0, <2>2 DEF Mapped
    <3>3. p.at = S[3].off + a - S[3].addr
      <4>1. PICK o \in Nat : a = idata + o /\ p.at = data + o BY <2>2
      <4>q. QED BY <1>1, <1>3, <4>1
    <3>4. \A t \in DOMAIN S : Mapped(S[t], a) => S[t].off + a - S[t].addr = p.at BY <1>3, <3>2, <3>3
    <3>5. 3 \in DOMAIN S BY <1>3
    <3>q. QED BY <1>9, <3>1, <3>3, <3>4, <3>5, AtPiece DEF S
  <2>q. QED BY <1>9, <2>1, <2>2
<1> DEFINE lists == data + (48 + 8 * n)
           names == data + (56 + 16 * n)
<1>z. ASSUME NEW j \in 0 .. n - 1
      PROVE  /\ thunk(j).at \in Nat /\ lookup(j).at \in Nat /\ address(j).at \in Nat /\ name(j).at \in Nat
             /\ 528 <= thunk(j).at /\ thunk(j).at < code
             /\ data + 40 <= lookup(j).at /\ lookup(j).at < lists
             /\ lists <= address(j).at /\ address(j).at < names
             /\ names <= name(j).at /\ name(j).at < data + name_end
  <2>0. j \in Nat /\ j < n BY <1>1
  <2>1. thunk(j).at = 528 + j * 6 /\ lookup(j).at = data + (40 + j * 8) BY <1>6
  <2>2. address(j).at = data + (48 + 8 * n + j * 8) /\ name(j).at = data + (off(j) + 2) BY <1>6
  <2>3. off(j) \in Nat /\ 56 + 16 * n <= off(j) /\ off(j) + 4 <= name_end BY <1>4
  <2>4. thunk(j).at \in Nat /\ 528 <= thunk(j).at /\ thunk(j).at < code BY <1>1, <2>0, <2>1 DEF code
  <2>5. lookup(j).at \in Nat /\ data + 40 <= lookup(j).at /\ lookup(j).at < lists BY <1>1, <2>0, <2>1
  <2>6. address(j).at \in Nat /\ lists <= address(j).at /\ address(j).at < names BY <1>1, <2>0, <2>2
  <2>7. name(j).at \in Nat /\ names <= name(j).at /\ name(j).at < data + name_end BY <1>1, <2>2, <2>3
  <2>q. QED BY <2>4, <2>5, <2>6, <2>7
<1>u. ASSUME NEW i \in 0 .. n - 1, NEW j \in 0 .. n - 1
      PROVE  /\ thunk(i).at = thunk(j).at => i = j
             /\ lookup(i).at = lookup(j).at => i = j
             /\ name(i).at = name(j).at => i = j
  <2>0. i \in Nat /\ j \in Nat BY <1>1
  <2>1. thunk(i).at = 528 + i * 6 /\ thunk(j).at = 528 + j * 6 BY <1>6
  <2>2. lookup(i).at = data + (40 + i * 8) /\ lookup(j).at = data + (40 + j * 8) BY <1>6
  <2>3. name(i).at = data + (off(i) + 2) /\ name(j).at = data + (off(j) + 2) BY <1>6
  <2>4. off(i) \in Nat /\ off(j) \in Nat /\ (off(i) = off(j) => i = j) BY <1>4
  <2>5. name(i).at = name(j).at => i = j BY <1>1, <2>3, <2>4
  <2>q. QED BY <1>1, <2>0, <2>1, <2>2, <2>5
<1>l. /\ lists \in Nat /\ names \in Nat /\ code \in Nat /\ 528 <= code /\ code <= code + text_size /\ code + text_size <= data
      /\ data + 40 <= lists /\ lists <= names /\ names < data + name_end
  BY <1>1 DEF code
<1> HIDE DEF lists, names
\* A piece that is looked for is alone at its place.
<1>t. ASSUME NEW q \in file.pieces
      PROVE  /\ q.at \in Nat
             /\ q.at < 528 => q = start
             /\ 528 <= q.at /\ q.at < code => \E j \in 0 .. n - 1 : q = thunk(j)
             /\ data <= q.at /\ q.at < data + 40 => q = descriptor
             /\ data + 40 <= q.at /\ q.at < lists => \E j \in 0 .. n - 1 : q = lookup(j)
             /\ names <= q.at /\ q.at < data + name_end => \E j \in 0 .. n - 1 : q = name(j)
             /\ data + name_end <= q.at => q = dll
  <2>1. CASE code <= q.at /\ q.at < code + text_size /\ q.at \in Nat BY <1>1, <1>l, <2>1
  <2>2. CASE q = start \/ q = descriptor \/ q = dll BY <1>1, <1>5, <1>l, <2>2
  <2>3. CASE \E j \in 0 .. n - 1 : q = thunk(j) \/ q = lookup(j) \/ q = address(j) \/ q = name(j)
    <3>1. PICK j \in 0 .. n - 1 : q = thunk(j) \/ q = lookup(j) \/ q = address(j) \/ q = name(j) BY <2>3
    <3>2. CASE q = thunk(j) BY <1>1, <1>l, <1>z, <3>2
    <3>3. CASE q = lookup(j) BY <1>1, <1>l, <1>z, <3>3
    <3>4. CASE q = address(j) BY <1>1, <1>l, <1>z, <3>4
    <3>5. CASE q = name(j) BY <1>1, <1>l, <1>z, <3>5
    <3>q. QED BY <3>1, <3>2, <3>3, <3>4, <3>5
  <2>q. QED BY <1>8, <2>1, <2>2, <2>3
<1>10. At(4096) = start.what
  <2>1. \A q \in file.pieces : q.at = start.at => q = start BY <1>5, <1>t
  <2>2. 4096 < 4096 + vsize /\ 4096 = 3584 + start.at BY <1>1, <1>5
  <2> HIDE DEF vsize
  <2>q. QED BY <1>7, <1>9, <1>t, <2>1, <2>2
<1>11. At(idata) = descriptor.what
  <2>1. \A q \in file.pieces : q.at = descriptor.at => q = descriptor BY <1>1, <1>5, <1>t
  <2>2. idata < idata + (name_end + 11) /\ idata = idata + 0 /\ descriptor.at = data + 0 /\ idata <= idata BY <1>1, <1>5
  <2> HIDE DEF vsize
  <2>q. QED BY <1>1, <1>7, <1>9, <1>t, <2>1, <2>2
<1>12. At(idata + name_end) = dll.what
  <2>1. \A q \in file.pieces : q.at = dll.at => q = dll BY <1>1, <1>5, <1>t
  <2>2. idata + name_end < idata + (name_end + 11) /\ idata <= idata + name_end /\ idata + name_end \in Nat BY <1>1
  <2> HIDE DEF vsize
  <2>q. QED BY <1>1, <1>5, <1>7, <1>9, <1>t, <2>1, <2>2
<1>13. ASSUME NEW i \in 0 .. n - 1
       PROVE  /\ At(4112 + i * 6) = thunk(i).what /\ At(idata + 40 + i * 8) = lookup(i).what
              /\ At(idata + off(i) + 2) = name(i).what
  <2>0. i \in Nat /\ i < n BY <1>1
  <2>1. At(4112 + i * 6) = thunk(i).what
    <3>1. \A q \in file.pieces : q.at = thunk(i).at => q = thunk(i) BY <1>t, <1>u, <1>z
    <3>2. 4112 + i * 6 \in Nat /\ 4096 <= 4112 + i * 6 /\ 4112 + i * 6 < 4096 + vsize BY <1>1, <2>0
    <3>3. 4112 + i * 6 = 3584 + thunk(i).at
      <4>1. thunk(i).at = 528 + i * 6 BY <1>6
      <4>q. QED BY <2>0, <4>1
    <3> HIDE DEF vsize
    <3>q. QED BY <1>7, <1>9, <1>t, <3>1, <3>2, <3>3
  <2>2. At(idata + 40 + i * 8) = lookup(i).what
    <3>1. \A q \in file.pieces : q.at = lookup(i).at => q = lookup(i) BY <1>l, <1>t, <1>u, <1>z
    <3> DEFINE o == 40 + i * 8
    <3>2. o \in Nat /\ o < name_end + 11 /\ idata + 40 + i * 8 = idata + o BY <1>1, <2>0
    <3>3. lookup(i).at = data + o BY <1>6
    <3> HIDE DEF vsize, o
    <3>4. idata + o \in Nat /\ idata <= idata + o /\ idata + o < idata + (name_end + 11) BY <1>1, <3>2
    <3>q. QED BY <1>7, <1>9, <1>t, <3>1, <3>2, <3>3, <3>4
  <2>3. At(idata + off(i) + 2) = name(i).what
    <3>1. \A q \in file.pieces : q.at = name(i).at => q = name(i) BY <1>l, <1>t, <1>u, <1>z
    <3> DEFINE o == off(i) + 2
    <3>2. o \in Nat /\ o < name_end + 11 /\ idata + off(i) + 2 = idata + o BY <1>1, <1>4
    <3>3. name(i).at = data + o BY <1>6
    <3> HIDE DEF vsize, o
    <3>4. idata + o \in Nat /\ idata <= idata + o /\ idata + o < idata + (name_end + 11) BY <1>1, <3>2
    <3>q. QED BY <1>7, <1>9, <1>t, <3>1, <3>2, <3>3, <3>4
  <2>q. QED BY <2>1, <2>2, <2>3
<1>q. QED BY <1>10, <1>11, <1>12, <1>13 DEF n, idata, start, descriptor, dll, thunk, lookup, name, off

\* A jump to a thunk ends up in what its entry of the import table names.
LEMMA PeReaches ==
  ASSUME TypeInv, PlaceInv, target = "pe-x86_64", PeOutput, NEW i \in 0 .. Len(imports),
         NEW f, (IF f = "_Exit" THEN "_exit" ELSE f) = PeWriter!pe_import_name(i)
  PROVE  PeWriter!Reaches(4112 + i * 6, f)
<1> DEFINE n == PeWriter!nimp
           idata == PeWriter!idata_va
           pc == 4112 + i * 6
           iat == 48 + 8 * n
           slot == idata + iat + i * 8
           g == PeWriter!pe_import_name(i)
<1>1. /\ n \in Nat /\ n = Len(imports) + 1 /\ idata \in Nat /\ i \in Nat /\ i < n /\ i \in 0 .. n - 1
      /\ \A j \in 1 .. n : name_off[j] \in Nat
      /\ PeWriter!thunks_rva = 4112 /\ PeWriter!ilt_off = 40 /\ PeWriter!iat_off = iat
  <2>1. Len(imports) \in Nat BY SizesTyped
  <2>2. n \in Nat /\ n = Len(imports) + 1 BY PePlaces
  <2>3. PeWriter!thunks_rva = 4112 /\ PeWriter!ilt_off = 40 /\ PeWriter!iat_off = iat /\ idata \in Nat BY PePlaces
  <2>4. \A j \in 1 .. n : name_off[j] \in Nat
    <3>1. \A j \in 1 .. PeWriter!nimp : name_off[j] \in Nat BY SMTT(30), PePlaces
    <3>q. QED BY <3>1
  <2> HIDE DEF n, idata, iat
  <2>5. i \in Nat /\ i < n /\ i \in 0 .. n - 1 BY <2>1, <2>2
  <2>q. QED BY <2>2, <2>3, <2>4, <2>5
<1>2. /\ At(idata) = PeWriter!Descriptor.what
      /\ At(idata + name_end) = PeWriter!DllName.what
      /\ \A j \in 0 .. n - 1 :
           /\ At(4112 + j * 6) = PeWriter!Thunk(j).what
           /\ At(idata + 40 + j * 8) = PeWriter!Entry(PeWriter!ilt_off, j).what
           /\ At(idata + name_off[j + 1] + 2) = PeWriter!NameAt(j).what
  BY PeFinds
<1>3. \A a : PeWriter!At(a) = At(a) BY PeSame
<1>4. file.loader.directory = idata BY DEF PeOutput, PeWriter!PeExecutable
<1>5. PeWriter!Imports.OriginalFirstThunk = idata + 40 /\ PeWriter!Imports.FirstThunk = idata + iat
  <2> DEFINE table == PeWriter!Descriptor.what
  <2>1. PeWriter!At(file.loader.directory) = table BY <1>2, <1>3, <1>4
  <2>2. /\ table.k = "descriptor" /\ table.OriginalFirstThunk = idata + 40 /\ table.Name = idata + name_end
        /\ table.FirstThunk = idata + iat
    BY <1>1 DEF PeWriter!Descriptor, PeWriter!Piece, PeWriter!dllname_off
  <2>3. PeWriter!At(table.Name) = [k |-> "name", of |-> PeWriter!PE_IMPORT_DLL]
    BY <1>2, <1>3, <2>2 DEF PeWriter!DllName, PeWriter!Piece
  <2> HIDE DEF table
  <2>q. QED BY <2>1, <2>2, <2>3 DEF PeWriter!Imports
<1>6. \A j \in 0 .. n - 1 : PeWriter!NameEntry(j).k = "entry" /\ PeWriter!NameEntry(j).name = idata + name_off[j + 1]
  <2> SUFFICES ASSUME NEW j \in 0 .. n - 1
               PROVE  PeWriter!NameEntry(j).k = "entry" /\ PeWriter!NameEntry(j).name = idata + name_off[j + 1]
    OBVIOUS
  <2>1. PeWriter!NameEntry(j) = PeWriter!Entry(PeWriter!ilt_off, j).what
    BY <1>2, <1>3, <1>5 DEF PeWriter!NameEntry, PeWriter!PE_THUNK_ENTRY
  <2>q. QED BY <2>1 DEF PeWriter!Entry, PeWriter!Piece
<1>7. PeWriter!Binds(slot, g)
  <2>1. i \in PeWriter!Entries BY <1>1 DEF PeWriter!Entries
  <2>2. \A j \in 0 .. i : PeWriter!NameEntry(j).k = "entry" BY <1>1, <1>6
  <2>3. PeWriter!At(PeWriter!NameEntry(i).name + 2) = [k |-> "name", of |-> g]
    <3>1. PeWriter!NameEntry(i).name = idata + name_off[i + 1] BY <1>1, <1>6
    <3>2. At(idata + name_off[i + 1] + 2) = PeWriter!NameAt(i).what BY <1>1, <1>2
    <3>3. PeWriter!NameAt(i).what = [k |-> "name", of |-> g] BY DEF PeWriter!NameAt, PeWriter!Piece
    <3>q. QED BY <1>3, <3>1, <3>2, <3>3
  <2>4. slot = PeWriter!Imports.FirstThunk + i * 8 BY <1>5
  <2> HIDE DEF slot, g
  <2>q. QED BY <2>1, <2>2, <2>3, <2>4 DEF PeWriter!Binds, PeWriter!PE_THUNK_ENTRY
<1>8. At(pc).k = "thunk" /\ pc + 6 + At(pc).jump = slot
  <2>0. \A j \in 0 .. n - 1 : At(4112 + j * 6) = PeWriter!Thunk(j).what BY <1>2
  <2>1. At(pc) = PeWriter!Thunk(i).what BY <1>1, <2>0
  <2>2. At(pc).k = "thunk" /\ At(pc).jump = idata + iat + i * 8 - (4112 + i * 6 + 6)
    BY <1>1, <2>1 DEF PeWriter!Thunk, PeWriter!Piece, PeWriter!thunk_rva, PeWriter!pe_thunk_size, PeWriter!PE_THUNK_ENTRY
  <2>3. iat \in Nat /\ i \in Nat BY <1>1
  <2> HIDE DEF iat, idata
  <2>4. \A x, y, z \in Nat : 4112 + x * 6 + 6 + (y + z + x * 8 - (4112 + x * 6 + 6)) = y + z + x * 8 OBVIOUS
  <2>q. QED BY <1>1, <2>2, <2>3, <2>4
<1>q. QED BY <1>3, <1>7, <1>8 DEF PeWriter!Reaches

\* A file for Windows: its calls, strings and start all lead where they should.
LEMMA PeLands == ASSUME TypeInv, PlaceInv, Defined("main"), target = "pe-x86_64", PeOutput PROVE ReferencesLand
<1> DEFINE n == PeWriter!nimp
           code == PeWriter!code_rva
           at == PeWriter!Text(code)
           S == file.segments
<1>1. /\ n \in Nat /\ n = Len(imports) + 1 /\ text_size \in Nat /\ code = 4112 + n * 6
      /\ PeWriter!thunks_rva = 4112 /\ PeWriter!text_va = 4096 /\ PeWriter!text_raw_ptr = 512
  BY PePlaces
<1>2. 2 \in DOMAIN S /\ S[2].off = 512 /\ S[2].addr = 4096 /\ S[2].filesz = 16 + n * 6 + text_size BY PeSections
<1>3. file.text = code /\ file.start = 4096
  BY <1>1 DEF PeOutput, PeWriter!PeExecutable
<1>4. TextPieces(at) \subseteq file.pieces /\ at = 512 + code - 4096
  <2>1. file.pieces = PeWriter!PeExecutable.pieces BY DEF PeOutput
  <2>2. PeWriter!TextPieces(at) = TextPieces(at) BY PeSame
  <2>3. PeWriter!TextPieces(PeWriter!Text(PeWriter!code_rva)) \subseteq PeWriter!PeExecutable.pieces
    BY DEF PeWriter!PeExecutable
  <2>4. at = 512 + code - 4096 BY <1>1 DEF PeWriter!Text
  <2>q. QED BY <2>1, <2>2, <2>3, <2>4
<1>5. /\ \A f \in Functions : Defined(f) => Holds(file.text + FnAt(f), [k |-> "function", of |-> f])
      /\ \A i \in DOMAIN fixups : fixups[i].kind = "str" =>
           Holds(file.text + (code_bytes + fixups[i].aux), [k |-> "string", of |-> i])
  <2> HIDE DEF at, S, code, n
  <2>0. code \in Nat BY <1>1
  <2>1. /\ S[2].off \in Nat /\ S[2].addr \in Nat /\ S[2].filesz \in Nat /\ S[2].addr <= code
        /\ code + text_size <= S[2].addr + S[2].filesz /\ at = S[2].off + code - S[2].addr /\ at \in Nat
    BY <1>1, <1>2, <1>4
  <2>2. /\ file.text \in Nat /\ S[2].addr <= file.text /\ file.text + text_size <= S[2].addr + S[2].filesz
        /\ at = S[2].off + file.text - S[2].addr
    BY <1>3, <2>0, <2>1
  <2>q. QED BY <1>2, <1>4, <2>1, <2>2, TextHeld DEF S
<1>6. Starts
  <2>1. At(4096) = PeWriter!EntryStub.what BY PeFinds
  <2>2. /\ At(4096).k = "start" /\ At(4096).main = code + entry - (4096 + 9)
        /\ At(4096).exit = 4112 + Len(imports) * 6 - (4096 + 16)
    BY <1>1, <2>1, PeSame
    DEF PeWriter!EntryStub, PeWriter!Piece, PeWriter!thunk_rva, PeWriter!exit_idx, PeWriter!pe_thunk_size
  <2>3. entry \in Nat BY Places DEF entry
  <2>4. Len(imports) \in Nat BY SizesTyped
  <2>5. Holds(4096 + 9 + At(4096).main, [k |-> "function", of |-> "main"])
    <3>1. Holds(code + entry, [k |-> "function", of |-> "main"]) BY <1>3, <1>5 DEF entry, Functions
    <3>2. 4096 + 9 + At(4096).main = code + entry BY <1>1, <2>2, <2>3
    <3>q. QED BY <3>1, <3>2
  <2>6. PeWriter!Reaches(4112 + Len(imports) * 6, "exit")
    <3>1. Len(imports) \in 0 .. Len(imports) BY <2>4
    <3>2. (IF "exit" = "_Exit" THEN "_exit" ELSE "exit") = PeWriter!pe_import_name(Len(imports))
      BY DEF PeWriter!pe_import_name, PeWriter!exit_idx
    <3>q. QED BY <3>1, <3>2, PeReaches
  <2>7. 4096 + 16 + At(4096).exit = 4112 + Len(imports) * 6 BY <2>2, <2>4
  <2>8. PeWriter!Starts BY <1>3, <2>2, <2>5, <2>6, <2>7, PeSame DEF PeWriter!Starts
  <2>q. QED BY <2>8 DEF Starts, Elf
<1>7. ASSUME NEW m \in DOMAIN imports PROVE Reaches(4112 + (m - 1) * 6, imports[m])
  <2>0. imports \in Seq(Called) BY DEF TypeInv, ImportInv
  <2>1. PICK i \in Nat : i = m - 1 /\ i + 1 = m /\ i \in 0 .. Len(imports) /\ i # Len(imports) BY <2>0
  <2>2. (IF imports[m] = "_Exit" THEN "_exit" ELSE imports[m]) = PeWriter!pe_import_name(i)
    BY <2>1 DEF PeWriter!pe_import_name, PeWriter!exit_idx, PeWriter!pe_export_name
  <2>3. PeWriter!Reaches(4112 + i * 6, imports[m]) BY <2>1, <2>2, PeReaches
  <2>q. QED BY <2>1, <2>3 DEF Reaches, Elf
<1>8. Linked(file.text, 4112, 6) BY <1>1, <1>3 DEF PeOutput
<1>9. file.text \in Nat /\ ~Arm BY <1>1, <1>3 DEF Arm
<1>q. QED BY <1>5, <1>6, <1>7, <1>8, <1>9, AllLand

\* WritePe writes such a file.
LEMMA PeWritten ==
  ASSUME TypeInv, CallInv, OrderInv, PeWriter!WritePe, ~diagnosed'
  PROVE  PeOutput'
<1>0. PICK text, stubs : text = PeWriter!code_rva /\ stubs = PeWriter!thunks_rva OBVIOUS
<1>1. /\ phase = "names" /\ target = "pe-x86_64" /\ Len(name_off) = Len(imports) + 1 /\ ~diagnosed
      /\ file' = PeWriter!PeExecutable /\ word' = PeWriter!Patched(text, stubs, 6)
      /\ UNCHANGED <<target, code_vars, next, import_vars, table_vars, diagnosed>>
  BY <1>0 DEF PeWriter!WritePe, PeWriter!Pe, PeWriter!nimp, PeWriter!Write, PeWriter!TooLarge, PeWriter!pe_thunk_size,
     PeWriter!code_vars, PeWriter!import_vars, PeWriter!table_vars
<1>2. PeWriter!PeExecutable' = PeWriter!PeExecutable /\ PeWriter!code_rva' = text /\ PeWriter!thunks_rva' = stubs
  BY <1>0, <1>1, PeFileSame
<1>3. Linked(text, stubs, 6)'
  <2>1. word' = Patched(text, stubs, 6) BY <1>1, PeSame
  <2>2. \A i \in DOMAIN fixups :
           IF Known(i) THEN word'[i] = Value(i)
           ELSE \E m \in DOMAIN imports :
                  imports[m] = fixups[i].key /\ word'[i] = Branch(text + Site(fixups[i]), stubs + (m - 1) * 6)
    BY <1>1, <2>1, PatchedLinks
  <2>q. QED BY <1>1, <2>2, LinksSame
<1>4. NamesInOrder'
  BY <1>1 DEF OrderInv, NamesInOrder, FirstName, Gap
<1>q. QED BY <1>1, <1>2, <1>3, <1>4 DEF PeOutput

-----------------------------------------------------------------------------
(* Files for Linux                                                           *)

\* The writer speaks of the same file.
LEMMA ElfSame ==
  /\ \A a : ElfWriter!At(a) = At(a)
  /\ \A a, w : ElfWriter!Holds(a, w) <=> Holds(a, w)
  /\ \A a : ElfWriter!TextPieces(a) = TextPieces(a)
  /\ \A t, s, z : ElfWriter!Patched(t, s, z) = Patched(t, s, z)
  /\ ElfWriter!entry = entry /\ ElfWriter!text_size = text_size
  /\ \A x, a : ElfWriter!align_up(x, a) = align_up(x, a)
  /\ (ElfWriter!Arm <=> Arm)
<1>0. ElfWriter!Arm <=> Arm BY DEF ElfWriter!Arm, Arm
<1>1. \A s, a : ElfWriter!Mapped(s, a) = Mapped(s, a) BY DEF ElfWriter!Mapped, Mapped
<1>2. \A a : ElfWriter!Found(a) = Found(a) BY <1>1 DEF ElfWriter!Found, Found
<1>3. ASSUME NEW a PROVE ElfWriter!At(a) = At(a)
  <2>1. ElfWriter!Found(a) = Found(a) BY <1>2
  <2>q. QED BY <2>1 DEF ElfWriter!At, At
<1>a. \A a, w : ElfWriter!Holds(a, w) <=> Holds(a, w) BY <1>2 DEF ElfWriter!Holds, Holds
<1>4. ElfWriter!Unit = Unit BY DEF ElfWriter!Unit, Unit, ElfWriter!Arm, Arm
<1>5. \A f : ElfWriter!FnAt(f) = FnAt(f) BY <1>4 DEF ElfWriter!FnAt, FnAt
<1>6. \A f : ElfWriter!Defined(f) = Defined(f) BY DEF ElfWriter!Defined, Defined
<1>7. ElfWriter!code_bytes = code_bytes BY <1>4 DEF ElfWriter!code_bytes, code_bytes
<1>8. ElfWriter!entry = entry /\ ElfWriter!text_size = text_size
  BY <1>5, <1>7 DEF ElfWriter!entry, entry, ElfWriter!text_size, text_size
<1>9. \A a, w : ElfWriter!Piece(a, w) = Piece(a, w) BY DEF ElfWriter!Piece, Piece
<1>10. ElfWriter!Functions = Functions BY DEF ElfWriter!Functions, Functions
<1>11. \A a : ElfWriter!TextPieces(a) = TextPieces(a)
  BY <1>5, <1>6, <1>7, <1>9, <1>10 DEF ElfWriter!TextPieces, TextPieces
<1>12. \A s, t : ElfWriter!Branch(s, t) = Branch(s, t)
  BY <1>0 DEF ElfWriter!Branch, Branch
<1>13. \A t, s, z : ElfWriter!Patched(t, s, z) = Patched(t, s, z)
  BY <1>12 DEF ElfWriter!Patched, Patched
<1>14. \A x, a : ElfWriter!align_up(x, a) = align_up(x, a)
  BY DEF ElfWriter!align_up, align_up
<1>q. QED BY <1>0, <1>3, <1>a, <1>8, <1>11, <1>13, <1>14


\* A file without imports does not change as long as what it is made from does not.
LEMMA StaticSame ==
  ASSUME UNCHANGED <<target, code_vars, import_vars>>
  PROVE  ElfWriter!StaticFile' = ElfWriter!StaticFile
<1>1. UNCHANGED ElfWriter!Unit /\ (ElfWriter!Arm' <=> ElfWriter!Arm)
  BY DEF ElfWriter!Unit, ElfWriter!Arm
<1>2. UNCHANGED <<ElfWriter!code_bytes, ElfWriter!text_size>> /\ \A f : ElfWriter!FnAt(f)' = ElfWriter!FnAt(f)
  BY <1>1 DEF ElfWriter!code_bytes, ElfWriter!text_size, ElfWriter!FnAt
<1>3. UNCHANGED <<ElfWriter!entry, ElfWriter!static_stub_off, ElfWriter!elf_start_stub_size>>
  BY <1>1, <1>2 DEF ElfWriter!entry, ElfWriter!static_stub_off, ElfWriter!elf_start_stub_size
<1>4. UNCHANGED ElfWriter!static_text_off BY <1>3 DEF ElfWriter!static_text_off
<1>5. UNCHANGED ElfWriter!static_image_size BY <1>2, <1>4 DEF ElfWriter!static_image_size
<1>6. UNCHANGED ElfWriter!static_shdr_off BY <1>5 DEF ElfWriter!static_shdr_off, ElfWriter!align_up
<1>7. UNCHANGED ElfWriter!static_parts
  BY <1>2, <1>3, <1>4, <1>5, <1>6 DEF ElfWriter!static_parts, ElfWriter!Part
<1>8. UNCHANGED ElfWriter!StaticStub
  BY <1>1, <1>3, <1>4 DEF ElfWriter!StaticStub, ElfWriter!Piece, ElfWriter!Call, ElfWriter!LOAD_BASE
<1>9. UNCHANGED ElfWriter!TextPieces(ElfWriter!static_text_off)
  BY <1>2, <1>4 DEF ElfWriter!TextPieces, ElfWriter!Piece, ElfWriter!Defined, ElfWriter!Functions
<1>q. QED
  BY <1>3, <1>4, <1>5, <1>6, <1>7, <1>8, <1>9
  DEF ElfWriter!StaticFile, ElfWriter!Segment, ElfWriter!LOAD_BASE, ElfWriter!PAGE, ElfWriter!ImgSize

\* Nor does a file with imports.
LEMMA DynamicSame ==
  ASSUME UNCHANGED <<target, code_vars, import_vars, table_vars>>
  PROVE  /\ ElfWriter!DynamicFile' = ElfWriter!DynamicFile
         /\ UNCHANGED <<ElfWriter!text_off, ElfWriter!plt_off, ElfWriter!elf_plt0_size>>
<1>1. UNCHANGED <<ElfWriter!Unit, ElfWriter!ImportNames, ElfWriter!nimp, ElfWriter!nsym, ElfWriter!Entries,
                  ElfWriter!elf_interp_size, ElfWriter!elf_dyn_start_stub_size, ElfWriter!elf_plt0_size>>
      /\ (ElfWriter!Arm' <=> ElfWriter!Arm)
  BY DEF ElfWriter!Unit, ElfWriter!Arm, ElfWriter!ImportNames, ElfWriter!nimp, ElfWriter!nsym, ElfWriter!Entries,
     ElfWriter!elf_interp_size, ElfWriter!elf_dyn_start_stub_size, ElfWriter!elf_plt0_size
<1>2. UNCHANGED <<ElfWriter!code_bytes, ElfWriter!text_size>> /\ \A f : ElfWriter!FnAt(f)' = ElfWriter!FnAt(f)
  BY <1>1 DEF ElfWriter!code_bytes, ElfWriter!text_size, ElfWriter!FnAt
<1>3. UNCHANGED ElfWriter!entry BY <1>2 DEF ElfWriter!entry
<1>4. UNCHANGED <<ElfWriter!interp_off, ElfWriter!dynsym_off>>
  BY <1>1 DEF ElfWriter!interp_off, ElfWriter!dynsym_off, ElfWriter!align_up
<1>5. UNCHANGED ElfWriter!dynstr_off BY <1>1, <1>4 DEF ElfWriter!dynstr_off
<1>6. UNCHANGED <<ElfWriter!hash_off, ElfWriter!hash_size>>
  BY <1>1, <1>5 DEF ElfWriter!hash_off, ElfWriter!hash_size, ElfWriter!align_up
<1>7. UNCHANGED <<ElfWriter!rela_off, ElfWriter!rela_size>>
  BY <1>1, <1>6 DEF ElfWriter!rela_off, ElfWriter!rela_size, ElfWriter!align_up
<1>8. UNCHANGED ElfWriter!stub_off
  BY <1>7 DEF ElfWriter!stub_off, ElfWriter!align_up
<1>9. UNCHANGED <<ElfWriter!plt_off, ElfWriter!plt_size>>
  BY <1>1, <1>8 DEF ElfWriter!plt_off, ElfWriter!plt_size, ElfWriter!elf_plt_entry_size
<1>10. UNCHANGED ElfWriter!text_off
  BY <1>9 DEF ElfWriter!text_off, ElfWriter!align_up
<1>11. UNCHANGED ElfWriter!ro_filesz BY <1>2, <1>10 DEF ElfWriter!ro_filesz
<1>12. UNCHANGED ElfWriter!dynamic_off
  BY <1>11 DEF ElfWriter!dynamic_off, ElfWriter!align_up, ElfWriter!PAGE
<1>13. UNCHANGED ElfWriter!got_off BY <1>12 DEF ElfWriter!got_off
<1>14. UNCHANGED ElfWriter!image_size BY <1>1, <1>13 DEF ElfWriter!image_size, ElfWriter!GOT_RESERVED
<1>15. UNCHANGED ElfWriter!shdr_off BY <1>14 DEF ElfWriter!shdr_off, ElfWriter!align_up
<1>16. UNCHANGED ElfWriter!parts
  BY <1>1, <1>2, <1>4, <1>5, <1>6, <1>7, <1>8, <1>9, <1>10, <1>12, <1>13, <1>14, <1>15
  DEF ElfWriter!parts, ElfWriter!Part, ElfWriter!elf_plt_entry_size, ElfWriter!GOT_RESERVED
<1>17. UNCHANGED ElfWriter!segments
  BY <1>11, <1>12, <1>14 DEF ElfWriter!segments, ElfWriter!Segment, ElfWriter!LOAD_BASE
<1>18. /\ UNCHANGED <<ElfWriter!got_vaddr, ElfWriter!plt0_vaddr>>
       /\ \A i : ElfWriter!plt_entry_off(i)' = ElfWriter!plt_entry_off(i)
                 /\ ElfWriter!got_entry_vaddr(i)' = ElfWriter!got_entry_vaddr(i)
  BY <1>1, <1>9, <1>13 DEF ElfWriter!got_vaddr, ElfWriter!plt0_vaddr, ElfWriter!plt_entry_off, ElfWriter!got_entry_vaddr,
     ElfWriter!elf_plt_entry_size, ElfWriter!GOT_RESERVED, ElfWriter!LOAD_BASE
<1>19. UNCHANGED ElfWriter!TextPieces(ElfWriter!text_off)
  BY <1>2, <1>10 DEF ElfWriter!TextPieces, ElfWriter!Piece, ElfWriter!Defined, ElfWriter!Functions
<1>20. UNCHANGED ElfWriter!StartStub
  <2>1. UNCHANGED ElfWriter!plt_entry_off(Len(imports))
    BY <1>1, <1>9 DEF ElfWriter!plt_entry_off, ElfWriter!elf_plt_entry_size
  <2>q. QED BY <1>1, <1>3, <1>8, <1>10, <2>1 DEF ElfWriter!StartStub, ElfWriter!Piece, ElfWriter!Call, ElfWriter!LOAD_BASE
<1>21. UNCHANGED ElfWriter!Plt0
  BY <1>1, <1>9, <1>18 DEF ElfWriter!Plt0, ElfWriter!Piece, ElfWriter!Reference, ElfWriter!Paged, ElfWriter!PAGE
<1>22. UNCHANGED ElfWriter!HashTable
  BY <1>1, <1>6 DEF ElfWriter!HashTable, ElfWriter!Piece
<1>23. UNCHANGED ElfWriter!Piece(ElfWriter!dynstr_off + 1, [k |-> "name", of |-> ElfWriter!LIBNAME])
  BY <1>5 DEF ElfWriter!Piece, ElfWriter!LIBNAME
<1>24. \A i : ElfWriter!PltEntry(i)' = ElfWriter!PltEntry(i)
  BY <1>1, <1>18 DEF ElfWriter!PltEntry, ElfWriter!Piece, ElfWriter!Reference, ElfWriter!Paged, ElfWriter!PAGE, ElfWriter!LOAD_BASE,
     ElfWriter!plt_entry_off, ElfWriter!got_entry_vaddr
<1>25. \A i : ElfWriter!GotEntry(i)' = ElfWriter!GotEntry(i)
  BY <1>1, <1>13, <1>18 DEF ElfWriter!GotEntry, ElfWriter!Piece, ElfWriter!LOAD_BASE, ElfWriter!GOT_RESERVED
<1>26. \A i : /\ ElfWriter!Rela(i)' = ElfWriter!Rela(i) /\ ElfWriter!Sym(i)' = ElfWriter!Sym(i)
              /\ ElfWriter!NameAt(i)' = ElfWriter!NameAt(i)
  BY <1>1, <1>4, <1>5, <1>7, <1>18 DEF ElfWriter!Rela, ElfWriter!Sym, ElfWriter!NameAt, ElfWriter!Piece, ElfWriter!SymbolOf
<1>27. UNCHANGED UNION {{ElfWriter!PltEntry(i), ElfWriter!GotEntry(i), ElfWriter!Rela(i), ElfWriter!Sym(i), ElfWriter!NameAt(i)} :
                        i \in ElfWriter!Entries}
  BY <1>1, <1>24, <1>25, <1>26
<1>28. UNCHANGED ElfWriter!DynamicFile.pieces
  BY <1>19, <1>20, <1>21, <1>22, <1>23, <1>27 DEF ElfWriter!DynamicFile
<1>29. UNCHANGED ElfWriter!dynamic
  BY <1>5, <1>4, <1>6, <1>7, <1>18 DEF ElfWriter!dynamic, ElfWriter!LOAD_BASE
<1>30. ElfWriter!DynamicFile' =
         [parts |-> ElfWriter!parts', loaded |-> 11, size |-> (ElfWriter!shdr_off + 4 * 64)',
          room |-> ElfWriter!ImgSize, segments |-> ElfWriter!segments', page |-> ElfWriter!PAGE,
          text |-> (ElfWriter!LOAD_BASE + ElfWriter!text_off)', start |-> (ElfWriter!LOAD_BASE + ElfWriter!stub_off)',
          loader |-> ElfWriter!dynamic', pieces |-> ElfWriter!DynamicFile.pieces']
  BY DEF ElfWriter!DynamicFile, ElfWriter!PAGE, ElfWriter!ImgSize
<1>31. ElfWriter!DynamicFile =
         [parts |-> ElfWriter!parts, loaded |-> 11, size |-> ElfWriter!shdr_off + 4 * 64,
          room |-> ElfWriter!ImgSize, segments |-> ElfWriter!segments, page |-> ElfWriter!PAGE,
          text |-> ElfWriter!LOAD_BASE + ElfWriter!text_off, start |-> ElfWriter!LOAD_BASE + ElfWriter!stub_off,
          loader |-> ElfWriter!dynamic, pieces |-> ElfWriter!DynamicFile.pieces]
  BY DEF ElfWriter!DynamicFile, ElfWriter!PAGE, ElfWriter!ImgSize
<1>32. /\ UNCHANGED <<ElfWriter!shdr_off + 4 * 64, ElfWriter!LOAD_BASE + ElfWriter!text_off, ElfWriter!LOAD_BASE + ElfWriter!stub_off>>
  BY <1>8, <1>10, <1>15 DEF ElfWriter!LOAD_BASE
<1>q. QED BY <1>1, <1>9, <1>10, <1>16, <1>17, <1>28, <1>29, <1>30, <1>31, <1>32

\* What a file for Linux is made of, and how its calls are patched.
StaticOutput ==
  /\ imports = << >> /\ file = ElfWriter!StaticFile
  /\ \A i \in DOMAIN fixups : Known(i) /\ word[i] = Value(i)
DynamicOutput ==
  /\ imports # << >> /\ file = ElfWriter!DynamicFile
  /\ \E text, stubs : /\ text = ElfWriter!LOAD_BASE + ElfWriter!text_off
                      /\ stubs = ElfWriter!LOAD_BASE + ElfWriter!plt_off + ElfWriter!elf_plt0_size
                      /\ Linked(text, stubs, 16)
  /\ Len(name_off) = Len(imports) + 1 /\ NamesInOrder
  /\ ElfWriter!ListsEnd

\* A call the writer has encoded leads where it says.
LEMMA CallLeads ==
  ASSUME NEW pc \in Nat, NEW to \in Nat, NEW size \in Nat, Arm => (to - pc) % 4 = 0
  PROVE  ElfWriter!CallTo(pc, size, ElfWriter!Call(pc, size, to)) = to
<1>1. ElfWriter!Arm <=> Arm BY ElfSame
<1>2. CASE Arm
  <2>1. 4 * ((to - pc) \div 4) = to - pc BY <1>2
  <2>2. pc + 4 * ((to - pc) \div 4) = to BY <2>1
  <2>q. QED BY <1>1, <1>2, <2>2 DEF ElfWriter!CallTo, ElfWriter!Call
<1>3. CASE ~Arm
  <2>1. pc + size + (to - (pc + size)) = to OBVIOUS
  <2>q. QED BY <1>1, <1>3, <2>1 DEF ElfWriter!CallTo, ElfWriter!Call
<1>q. QED BY <1>2, <1>3

\* A file without imports: everything is in its one segment.
LEMMA StaticLands == ASSUME TypeInv, PlaceInv, Defined("main"), Elf, StaticOutput PROVE ReferencesLand
<1> DEFINE base == ElfWriter!LOAD_BASE
           stub == ElfWriter!elf_start_stub_size
           at == ElfWriter!static_text_off
           size == at + text_size
           S == file.segments
           start == ElfWriter!StaticStub
<1>1. /\ text_size \in Nat /\ base = 4194304 /\ at \in {132, 134} /\ (Arm => at = 132) /\ ElfWriter!text_size = text_size
  <2>1. ElfWriter!Arm <=> Arm BY ElfSame
  <2>q. QED
    BY <2>1, SizesTyped, ElfSame DEF ElfWriter!LOAD_BASE, ElfWriter!static_text_off, ElfWriter!static_stub_off,
       ElfWriter!elf_start_stub_size
<1>2. file = ElfWriter!StaticFile BY DEF StaticOutput
<1>3. /\ DOMAIN S = {1} /\ S[1].off = 0 /\ S[1].addr = base /\ S[1].filesz = size
  <2>1. S = <<[off |-> 0, filesz |-> size, addr |-> base, memsz |-> size]>>
    BY <1>1, <1>2 DEF ElfWriter!StaticFile, ElfWriter!Segment, ElfWriter!static_image_size
  <2> HIDE DEF S, size, base
  <2>q. QED BY <2>1
<1>4. file.text = base + at /\ file.start = base + 120
  BY <1>2 DEF ElfWriter!StaticFile, ElfWriter!static_stub_off
<1>5. /\ TextPieces(at) \subseteq file.pieces /\ start \in file.pieces
      /\ \A q \in file.pieces : q = start \/ q \in TextPieces(at)
  <2>1. ElfWriter!TextPieces(at) = TextPieces(at) BY ElfSame
  <2>2. file.pieces = {start} \cup ElfWriter!TextPieces(at) BY <1>2 DEF ElfWriter!StaticFile
  <2>q. QED BY <2>1, <2>2
<1>6. start.at = 120 /\ start.what.k = "start"
      /\ start.what.main = ElfWriter!Call(base + 120, 5, base + at + entry)
  <2>1. ElfWriter!entry = entry BY ElfSame
  <2>q. QED BY <2>1 DEF ElfWriter!StaticStub, ElfWriter!Piece, ElfWriter!static_stub_off
<1>7. entry \in Nat /\ (Arm => entry % 4 = 0)
  <2>1. FnAt("main") \in Nat /\ \E a \in Nat : FnAt("main") = a * Unit BY Places
  <2>2. Arm => Unit = 4 BY Places
  <2>q. QED BY <2>1, <2>2 DEF entry
<1> HIDE DEF base, at, size, S, start, stub
<1>8. size \in Nat /\ at \in Nat /\ size = at + text_size BY <1>1 DEF size
<1>9. /\ \A f \in Functions : Defined(f) => Holds(file.text + FnAt(f), [k |-> "function", of |-> f])
      /\ \A i \in DOMAIN fixups : fixups[i].kind = "str" =>
           Holds(file.text + (code_bytes + fixups[i].aux), [k |-> "string", of |-> i])
  <2>1. /\ S[1].off \in Nat /\ S[1].addr \in Nat /\ S[1].filesz \in Nat /\ S[1].addr <= base + at
        /\ base + at + text_size <= S[1].addr + S[1].filesz /\ at = S[1].off + (base + at) - S[1].addr
        /\ base + at \in Nat /\ 1 \in DOMAIN S
    BY <1>1, <1>3, <1>8
  <2>q. QED BY <1>1, <1>4, <1>5, <1>8, <2>1, TextHeld DEF S
<1>10. At(base + 120) = start.what
  <2>1. Mapped(S[1], base + 120) BY <1>1, <1>3, <1>8 DEF Mapped
  <2>2. start.at = S[1].off + (base + 120) - S[1].addr BY <1>1, <1>3, <1>6
  <2>3. \A t \in DOMAIN S : Mapped(S[t], base + 120) => S[t].off + (base + 120) - S[t].addr = start.at BY <1>3, <2>2
  <2>4. \A q \in file.pieces : q.at = start.at => q = start
    <3> SUFFICES ASSUME NEW q \in TextPieces(at) PROVE q.at # 120 BY <1>5, <1>6
    <3>1. at <= q.at /\ q.at \in Nat BY <1>8, TextWithin
    <3>q. QED BY <1>1, <3>1
  <2>5. 1 \in DOMAIN S BY <1>3
  <2>q. QED BY <1>5, <2>1, <2>2, <2>3, <2>4, <2>5, AtPiece DEF S
<1>11. Starts
  <2>1. \A a : ElfWriter!At(a) = At(a) BY ElfSame
  <2>2. ElfWriter!CallTo(file.start, 5, start.what.main) = base + at + entry
    <3> DEFINE pc == base + 120
               to == base + at + entry
    <3>1. pc \in Nat /\ to \in Nat /\ (Arm => (to - pc) % 4 = 0) BY <1>1, <1>7
    <3> HIDE DEF pc, to
    <3>2. ElfWriter!CallTo(pc, 5, ElfWriter!Call(pc, 5, to)) = to BY <3>1, CallLeads
    <3>q. QED BY <1>4, <1>6, <3>2 DEF pc, to
  <2>3. Holds(base + at + entry, [k |-> "function", of |-> "main"])
    BY <1>4, <1>9 DEF entry, Functions
  <2>4. imports = << >> BY DEF StaticOutput
  <2>5. ElfWriter!Starts
    BY <1>4, <1>6, <1>10, <2>1, <2>2, <2>3, <2>4, ElfSame DEF ElfWriter!Starts
  <2>6. ElfWriter!Loads BY <2>4 DEF ElfWriter!Loads
  <2>q. QED BY <2>5, <2>6 DEF Starts, Elf
<1>12. file.text \in Nat /\ (Arm => file.text % 4 = 0) BY <1>1, <1>4
<1>13. Linked(file.text, 0, 16) BY DEF StaticOutput, Linked
<1>14. DOMAIN imports = {} BY DEF StaticOutput
<1>15. \A m \in DOMAIN imports : Reaches(0 + (m - 1) * 16, imports[m]) BY <1>14
<1>16. 0 \in Nat /\ 16 \in {6, 12, 16} /\ 0 % 4 = 0 /\ 16 % 4 = 0 OBVIOUS
<1> DEFINE stubs == 0
           bytes == 16
<1>17. /\ stubs \in Nat /\ bytes \in {6, 12, 16} /\ stubs % 4 = 0 /\ bytes % 4 = 0
       /\ Linked(file.text, stubs, bytes) /\ \A m \in DOMAIN imports : Reaches(stubs + (m - 1) * bytes, imports[m])
  BY <1>13, <1>15, <1>16
<1> HIDE DEF stubs, bytes
<1>q. QED BY <1>9, <1>11, <1>12, <1>17, AllLand

\* WriteStatic writes such a file.
LEMMA StaticWritten ==
  ASSUME TypeInv, CallInv, ElfWriter!WriteStatic, ~diagnosed'
  PROVE  StaticOutput'
<1>1. /\ phase = "resolve" /\ next > Len(fixups) /\ imports = << >> /\ ~diagnosed
      /\ file' = ElfWriter!StaticFile /\ word' = word
      /\ UNCHANGED <<target, code_vars, next, import_vars, table_vars, diagnosed>>
  BY DEF ElfWriter!WriteStatic, ElfWriter!BinEmitted, ElfWriter!Write, ElfWriter!TooLarge,
     ElfWriter!code_vars, ElfWriter!import_vars, ElfWriter!table_vars
<1>2. ElfWriter!StaticFile' = ElfWriter!StaticFile BY <1>1, StaticSame
<1>3. \A i \in DOMAIN fixups : Known(i) /\ word[i] = Value(i) BY <1>1, EmittedLinks
<1>4. \A i : (Known(i)' <=> Known(i)) /\ Value(i)' = Value(i) BY <1>1, SameValues
<1>q. QED BY <1>1, <1>2, <1>3, <1>4 DEF StaticOutput

\* The numbers of a file with imports.
LEMMA DynamicPlaces ==
  ASSUME TypeInv, Elf, DynamicOutput
  PROVE  LET n == ElfWriter!nimp
             base == ElfWriter!LOAD_BASE
             plt0 == ElfWriter!elf_plt0_size
             strings == ElfWriter!dynstr_off
             hash == ElfWriter!hash_off
             rela == ElfWriter!rela_off
             stub == ElfWriter!stub_off
             plt == ElfWriter!plt_off
             text == ElfWriter!text_off
             dyn == ElfWriter!dynamic_off
         IN /\ n \in Nat /\ n = Len(imports) + 1 /\ name_end \in Nat /\ text_size \in Nat
            /\ base = 4194304 /\ plt0 \in {16, 32} /\ (Arm => plt0 = 32)
            /\ ElfWriter!dynsym_off = 376 /\ strings = 400 + n * 24
            /\ hash \in Nat /\ strings + name_end <= hash
            /\ rela \in Nat /\ hash + 4 < rela
            /\ stub \in Nat /\ rela + n * 24 <= stub /\ stub % 16 = 0
            /\ plt \in Nat /\ stub < plt /\ plt % 4 = 0
            /\ text \in Nat /\ plt + plt0 + n * 16 <= text /\ text % 16 = 0
            /\ dyn \in Nat /\ text + text_size <= dyn /\ dyn % 4096 = 0
            /\ ElfWriter!got_off = dyn + 176
            /\ 12 <= name_end
            /\ \A i \in 1 .. n : name_off[i] \in Nat /\ 11 <= name_off[i] /\ name_off[i] < name_end
            /\ \A i, j \in 1 .. n : i < j => name_off[i] < name_off[j]
<1> DEFINE n == ElfWriter!nimp
           base == ElfWriter!LOAD_BASE
           plt0 == ElfWriter!elf_plt0_size
           strings == ElfWriter!dynstr_off
           hash == ElfWriter!hash_off
           rela == ElfWriter!rela_off
           stub == ElfWriter!stub_off
           plt == ElfWriter!plt_off
           text == ElfWriter!text_off
           dyn == ElfWriter!dynamic_off
           start == ElfWriter!elf_dyn_start_stub_size
<1>1. /\ n \in Nat /\ n = Len(imports) + 1 /\ name_end \in Nat /\ text_size \in Nat /\ Len(imports) \in Nat /\ n > 0
      /\ start \in {8, 12} /\ plt0 \in {16, 32} /\ (Arm => plt0 = 32)
  BY SizesTyped, ElfSame DEF ElfWriter!nimp, ElfWriter!elf_dyn_start_stub_size, ElfWriter!elf_plt0_size
<1>0. base = 4194304 BY SMT DEF ElfWriter!LOAD_BASE
<1>2. ElfWriter!text_size = text_size /\ \A x, a : ElfWriter!align_up(x, a) = align_up(x, a) BY ElfSame
<1>3. \A x \in Nat : align_up(x, 16) % 16 = 0 /\ align_up(x, 4096) % 4096 = 0
  BY DEF align_up
<1>4. ElfWriter!dynsym_off = 376
  BY DEF ElfWriter!dynsym_off, ElfWriter!interp_off, ElfWriter!elf_interp_size, ElfWriter!align_up
<1>5. strings = 400 + n * 24
  <2>1. strings = 376 + (n + 1) * 24 BY <1>4 DEF ElfWriter!dynstr_off, ElfWriter!nsym
  <2>q. QED BY <1>1, <2>1
<1>6. hash \in Nat /\ strings + name_end <= hash
  <2>1. strings + name_end \in Nat BY <1>1, <1>5
  <2>q. QED BY <1>2, <2>1, RoundedUp DEF ElfWriter!hash_off
<1>7. rela \in Nat /\ hash + 4 < rela
  <2>1. hash + (2 + n + (n + 1)) * 4 \in Nat BY <1>1, <1>6
  <2>2. rela \in Nat /\ hash + (2 + n + (n + 1)) * 4 <= rela
    BY <1>2, <2>1, RoundedUp DEF ElfWriter!rela_off, ElfWriter!hash_size, ElfWriter!nsym
  <2> HIDE DEF n, hash, rela
  <2>q. QED BY <1>1, <1>6, <2>2
<1>8. stub \in Nat /\ rela + n * 24 <= stub /\ stub % 16 = 0
  <2>1. rela + n * 24 \in Nat BY <1>1, <1>7
  <2>2. stub = align_up(rela + n * 24, 16) BY <1>2 DEF ElfWriter!stub_off, ElfWriter!rela_size
  <2>q. QED BY <1>3, <2>1, <2>2, RoundedUp
<1>9. plt = stub + start BY DEF ElfWriter!plt_off
<1>10. plt \in Nat /\ stub < plt /\ plt % 4 = 0
  <2> HIDE DEF stub, start, plt
  <2>q. QED BY <1>1, <1>8, <1>9
<1>11. text \in Nat /\ plt + plt0 + n * 16 <= text /\ text % 16 = 0
  <2> DEFINE x == plt + (plt0 + n * 16)
  <2>1. x \in Nat /\ x = plt + plt0 + n * 16 BY <1>1, <1>10
  <2>2. text = align_up(x, 16)
    BY <1>2 DEF ElfWriter!text_off, ElfWriter!plt_size, ElfWriter!elf_plt_entry_size
  <2> HIDE DEF x, text
  <2>q. QED BY <1>3, <2>1, <2>2, RoundedUp
<1>12. dyn \in Nat /\ text + text_size <= dyn /\ dyn % 4096 = 0
  <2> DEFINE x == text + text_size
  <2>1. x \in Nat BY <1>1, <1>11
  <2>2. dyn = align_up(x, 4096) BY <1>2 DEF ElfWriter!dynamic_off, ElfWriter!ro_filesz, ElfWriter!PAGE
  <2> HIDE DEF x, dyn
  <2>3. dyn \in Nat /\ x <= dyn /\ dyn % 4096 = 0 BY <1>3, <2>1, <2>2, RoundedUp
  <2>q. QED BY <2>3 DEF x
<1>13. ElfWriter!got_off = dyn + 176 BY <1>12 DEF ElfWriter!got_off
<1>14. name_off \in Seq(Nat) /\ DOMAIN name_off = 1 .. n /\ FirstName = 11 /\ Gap = 1
  BY <1>1 DEF DynamicOutput, TypeInv, NameInv, FirstName, Gap, Elf
<1>15. /\ \A i \in 1 .. n : name_off[i] \in Nat
       /\ \A i \in 1 .. n : 11 <= name_off[i] /\ name_off[i] + 1 <= name_end
       /\ \A i, j \in 1 .. n : i < j => name_off[i] + 1 <= name_off[j]
  <2>1. NamesInOrder BY DEF DynamicOutput
  <2> HIDE DEF n
  <2>2. \A i \in 1 .. n : name_off[i] \in Nat BY <1>14, SeqElement
  <2>q. QED BY <1>14, <2>1, <2>2 DEF NamesInOrder
<1> HIDE DEF n, base, plt0, strings, hash, rela, stub, plt, text, dyn
<1>16. 12 <= name_end
  <2>1. 1 \in 1 .. n BY <1>1
  <2>2. name_off[1] \in Nat /\ 11 <= name_off[1] /\ name_off[1] + 1 <= name_end BY <1>15, <2>1
  <2>q. QED BY <1>1, <2>2
<1>17. \A i \in 1 .. n : name_off[i] \in Nat /\ 11 <= name_off[i] /\ name_off[i] < name_end
  <2> SUFFICES ASSUME NEW i \in 1 .. n PROVE name_off[i] \in Nat /\ 11 <= name_off[i] /\ name_off[i] < name_end OBVIOUS
  <2>1. name_off[i] \in Nat /\ 11 <= name_off[i] /\ name_off[i] + 1 <= name_end BY <1>15
  <2>q. QED BY <1>1, <2>1
<1>18. \A i, j \in 1 .. n : i < j => name_off[i] < name_off[j]
  <2> SUFFICES ASSUME NEW i \in 1 .. n, NEW j \in 1 .. n, i < j PROVE name_off[i] < name_off[j] OBVIOUS
  <2>1. name_off[i] \in Nat /\ name_off[j] \in Nat /\ name_off[i] + 1 <= name_off[j] BY <1>15
  <2>q. QED BY <2>1
<1>q. QED BY <1>0, <1>1, <1>4, <1>5, <1>6, <1>7, <1>8, <1>10, <1>11, <1>12, <1>13, <1>16, <1>17, <1>18
      DEF n, base, plt0, strings, hash, rela, stub, plt, text, dyn

\* Its two segments; both map an offset to the same distance from the base.
LEMMA DynamicSegments ==
  ASSUME TypeInv, Elf, DynamicOutput
  PROVE  LET S == file.segments
             base == ElfWriter!LOAD_BASE
             dyn == ElfWriter!dynamic_off
         IN /\ DOMAIN S = {1, 2}
            /\ S[1].off = 0 /\ S[1].addr = base /\ S[1].filesz = ElfWriter!text_off + text_size
            /\ S[2].off = dyn /\ S[2].addr = base + dyn /\ S[2].filesz = 200 + ElfWriter!nimp * 8
<1> DEFINE n == ElfWriter!nimp
           base == ElfWriter!LOAD_BASE
           dyn == ElfWriter!dynamic_off
           text == ElfWriter!text_off
<1>1. n \in Nat /\ dyn \in Nat /\ ElfWriter!got_off = dyn + 176 /\ ElfWriter!text_size = text_size
  BY DynamicPlaces, ElfSame
<1>2. ElfWriter!image_size - dyn = 200 + n * 8
  <2>1. ElfWriter!image_size = dyn + 176 + (3 + n) * 8 BY <1>1 DEF ElfWriter!image_size, ElfWriter!GOT_RESERVED
  <2> HIDE DEF n, dyn
  <2>q. QED BY <1>1, <2>1
<1>3. ElfWriter!ro_filesz = text + text_size BY <1>1 DEF ElfWriter!ro_filesz
<1>4. file.segments = ElfWriter!segments BY DEF DynamicOutput, ElfWriter!DynamicFile
<1> DEFINE ro == text + text_size
           rest == 200 + n * 8
<1>5. file.segments = <<[off |-> 0, filesz |-> ro, addr |-> base, memsz |-> ro],
                        [off |-> dyn, filesz |-> rest, addr |-> base + dyn, memsz |-> rest]>>
  BY <1>2, <1>3, <1>4 DEF ElfWriter!segments, ElfWriter!Segment
<1> HIDE DEF base, dyn, ro, rest
<1>6. /\ DOMAIN file.segments = {1, 2}
      /\ file.segments[1].off = 0 /\ file.segments[1].addr = base /\ file.segments[1].filesz = ro
      /\ file.segments[2].off = dyn /\ file.segments[2].addr = base + dyn /\ file.segments[2].filesz = rest
  BY <1>5
<1>q. QED BY <1>6 DEF base, dyn, ro, rest

\* Every piece is of the code or of a table.
LEMMA DynamicPieces ==
  ASSUME TypeInv, PlaceInv, Elf, DynamicOutput, NEW q \in file.pieces
  PROVE  LET at == ElfWriter!text_off
         IN \/ at <= q.at /\ q.at < at + text_size /\ q.at \in Nat
            \/ q = ElfWriter!StartStub \/ q = ElfWriter!Plt0 \/ q = ElfWriter!HashTable
            \/ q = ElfWriter!Piece(ElfWriter!dynstr_off + 1, [k |-> "name", of |-> ElfWriter!LIBNAME])
            \/ \E i \in 0 .. ElfWriter!nimp - 1 :
                 \/ q = ElfWriter!PltEntry(i) \/ q = ElfWriter!GotEntry(i) \/ q = ElfWriter!Rela(i)
                 \/ q = ElfWriter!Sym(i) \/ q = ElfWriter!NameAt(i)
<1> DEFINE at == ElfWriter!text_off
<1>1. at \in Nat BY DynamicPlaces
<1>2. file.pieces = ElfWriter!DynamicFile.pieces BY DEF DynamicOutput
<1>3. ElfWriter!TextPieces(at) = TextPieces(at) BY ElfSame
<1>4. file.pieces = ElfWriter!TextPieces(at) \cup {ElfWriter!StartStub, ElfWriter!Plt0, ElfWriter!HashTable,
                      ElfWriter!Piece(ElfWriter!dynstr_off + 1, [k |-> "name", of |-> ElfWriter!LIBNAME])}
             \cup UNION {{ElfWriter!PltEntry(i), ElfWriter!GotEntry(i), ElfWriter!Rela(i), ElfWriter!Sym(i), ElfWriter!NameAt(i)} :
                           i \in ElfWriter!Entries}
  BY <1>2 DEF ElfWriter!DynamicFile
<1> HIDE DEF at
<1>5. CASE q \in TextPieces(at) BY <1>1, <1>5, TextWithin DEF at
<1>6. CASE q \notin TextPieces(at)
  BY <1>3, <1>4, <1>6 DEF ElfWriter!Entries
<1>q. QED BY <1>5, <1>6

\* What the loader looks for in the tables is there.
LEMMA DynamicFinds ==
  ASSUME TypeInv, PlaceInv, Elf, DynamicOutput
  PROVE  LET n == ElfWriter!nimp
             base == ElfWriter!LOAD_BASE
         IN /\ At(base + ElfWriter!stub_off) = ElfWriter!StartStub.what
            /\ At(base + ElfWriter!plt_off) = ElfWriter!Plt0.what
            /\ At(base + ElfWriter!hash_off) = ElfWriter!HashTable.what
            /\ At(base + (ElfWriter!dynstr_off + 1)) = [k |-> "name", of |-> ElfWriter!LIBNAME]
            /\ \A i \in 0 .. n - 1 :
                 /\ At(base + (ElfWriter!plt_off + ElfWriter!elf_plt0_size + i * 16)) = ElfWriter!PltEntry(i).what
                 /\ At(base + (ElfWriter!dynamic_off + 200 + i * 8)) = ElfWriter!GotEntry(i).what
                 /\ At(base + (ElfWriter!rela_off + i * 24)) = ElfWriter!Rela(i).what
                 /\ At(base + (400 + i * 24)) = ElfWriter!Sym(i).what
                 /\ At(base + (ElfWriter!dynstr_off + name_off[i + 1])) = ElfWriter!NameAt(i).what
<1> DEFINE n == ElfWriter!nimp
           base == ElfWriter!LOAD_BASE
           size == ElfWriter!elf_plt0_size
           strings == ElfWriter!dynstr_off
           hash == ElfWriter!hash_off
           rela == ElfWriter!rela_off
           stub == ElfWriter!stub_off
           plt == ElfWriter!plt_off
           text == ElfWriter!text_off
           dyn == ElfWriter!dynamic_off
           S == file.segments
           start == ElfWriter!StartStub
           first == ElfWriter!Plt0
           table == ElfWriter!HashTable
           lib == ElfWriter!Piece(strings + 1, [k |-> "name", of |-> ElfWriter!LIBNAME])
           entry_(i) == ElfWriter!PltEntry(i)
           got(i) == ElfWriter!GotEntry(i)
           relocation(i) == ElfWriter!Rela(i)
           symbol(i) == ElfWriter!Sym(i)
           name(i) == ElfWriter!NameAt(i)
           off(i) == name_off[i + 1]
<1>1. /\ n \in Nat /\ n > 0 /\ name_end \in Nat /\ text_size \in Nat /\ base \in Nat /\ size \in {16, 32}
      /\ strings = 400 + n * 24
      /\ hash \in Nat /\ strings + name_end <= hash
      /\ rela \in Nat /\ hash + 4 < rela
      /\ stub \in Nat /\ rela + n * 24 <= stub
      /\ plt \in Nat /\ stub < plt
      /\ text \in Nat /\ plt + size + n * 16 <= text
      /\ dyn \in Nat /\ text + text_size <= dyn
      /\ 12 <= name_end
  <2>1. Len(imports) \in Nat BY SizesTyped
  <2>q. QED BY <2>1, DynamicPlaces
<1>2. ElfWriter!dynsym_off = 376 /\ ElfWriter!got_off = dyn + 176 BY DynamicPlaces
<1>3. /\ DOMAIN S = {1, 2}
      /\ S[1].off = 0 /\ S[1].addr = base /\ S[1].filesz = text + text_size
      /\ S[2].off = dyn /\ S[2].addr = base + dyn /\ S[2].filesz = 200 + n * 8
  BY DynamicSegments
<1>4. /\ \A i \in 0 .. n - 1 : off(i) \in Nat /\ 11 <= off(i) /\ off(i) < name_end
      /\ \A i, j \in 0 .. n - 1 : i # j => off(i) # off(j)
  <2> DEFINE at(i) == name_off[i]
  <2>1. /\ \A i \in 1 .. n : at(i) \in Nat /\ 11 <= at(i) /\ at(i) < name_end
        /\ \A i, j \in 1 .. n : i < j => at(i) < at(j)
    BY DynamicPlaces
  <2>2. off(0) = at(0 + 1) /\ \A i : off(i) = at(i + 1) OBVIOUS
  <2> HIDE DEF at, off, n
  <2>q. QED BY <1>1, <2>1, <2>2
<1>5. start.at = stub /\ first.at = plt /\ table.at = hash /\ lib.at = strings + 1
      /\ lib.what = [k |-> "name", of |-> ElfWriter!LIBNAME]
  BY DEF ElfWriter!StartStub, ElfWriter!Plt0, ElfWriter!HashTable, ElfWriter!Piece
<1>6. ASSUME NEW i \in 0 .. n - 1
      PROVE  /\ entry_(i).at = plt + size + i * 16 /\ got(i).at = dyn + 200 + i * 8 /\ relocation(i).at = rela + i * 24
             /\ symbol(i).at = 400 + i * 24 /\ name(i).at = strings + off(i)
  <2>1. i \in Nat BY <1>1
  <2>2. entry_(i).at = plt + size + i * 16
    BY DEF ElfWriter!PltEntry, ElfWriter!Piece, ElfWriter!plt_entry_off, ElfWriter!elf_plt_entry_size
  <2>3. got(i).at = dyn + 200 + i * 8
    <3>1. got(i).at = dyn + 176 + (3 + i) * 8 BY <1>2 DEF ElfWriter!GotEntry, ElfWriter!Piece, ElfWriter!GOT_RESERVED
    <3> HIDE DEF got, dyn
    <3>q. QED BY <1>1, <2>1, <3>1
  <2>4. relocation(i).at = rela + i * 24 /\ name(i).at = strings + off(i)
    BY DEF ElfWriter!Rela, ElfWriter!NameAt, ElfWriter!Piece
  <2>5. symbol(i).at = 400 + i * 24
    <3>1. symbol(i).at = 376 + (i + 1) * 24 BY <1>2 DEF ElfWriter!Sym, ElfWriter!Piece
    <3> HIDE DEF symbol
    <3>q. QED BY <2>1, <3>1
  <2>q. QED BY <2>2, <2>3, <2>4, <2>5
<1>7. /\ start \in file.pieces /\ first \in file.pieces /\ table \in file.pieces /\ lib \in file.pieces
      /\ \A i \in 0 .. n - 1 : /\ entry_(i) \in file.pieces /\ got(i) \in file.pieces /\ relocation(i) \in file.pieces
                              /\ symbol(i) \in file.pieces /\ name(i) \in file.pieces
  <2>1. ElfWriter!Entries = 0 .. n - 1 BY DEF ElfWriter!Entries
  <2>2. file.pieces = ElfWriter!DynamicFile.pieces BY DEF DynamicOutput
  <2>3. start \in file.pieces /\ first \in file.pieces /\ table \in file.pieces /\ lib \in file.pieces
    BY <2>2 DEF ElfWriter!DynamicFile
  <2>4. ASSUME NEW i \in 0 .. n - 1
        PROVE  /\ entry_(i) \in file.pieces /\ got(i) \in file.pieces /\ relocation(i) \in file.pieces
               /\ symbol(i) \in file.pieces /\ name(i) \in file.pieces
    <3>1. {entry_(i), got(i), relocation(i), symbol(i), name(i)} \subseteq
            UNION {{entry_(j), got(j), relocation(j), symbol(j), name(j)} : j \in ElfWriter!Entries}
      <4> HIDE DEF entry_, got, relocation, symbol, name
      <4>q. QED BY <2>1
    <3>q. QED BY <2>2, <3>1 DEF ElfWriter!DynamicFile
  <2>q. QED BY <2>3, <2>4
<1>8. ASSUME NEW q \in file.pieces
      PROVE  \/ text <= q.at /\ q.at < text + text_size /\ q.at \in Nat
             \/ q = start \/ q = first \/ q = table \/ q = lib
             \/ \E j \in 0 .. n - 1 : q = entry_(j) \/ q = got(j) \/ q = relocation(j) \/ q = symbol(j) \/ q = name(j)
  BY DynamicPieces
<1> HIDE DEF n, base, size, strings, hash, rela, stub, plt, text, dyn, S, start, first, table, lib,
             entry_, got, relocation, symbol, name, off
<1>9. ASSUME NEW p \in file.pieces, p.at \in Nat, \A q \in file.pieces : q.at = p.at => q = p,
             p.at < text + text_size \/ (dyn <= p.at /\ p.at < dyn + (200 + n * 8))
      PROVE  At(base + p.at) = p.what
  <2> DEFINE a == base + p.at
             rest == 200 + n * 8
  <2>0. a \in Nat /\ rest \in Nat BY <1>1, <1>9
  <2>1. \A t \in DOMAIN S : S[t].off + a - S[t].addr = p.at
    <3>1. S[1].off + a - S[1].addr = p.at BY <1>1, <1>3, <1>9
    <3>2. S[2].off + a - S[2].addr = p.at BY <1>1, <1>3, <1>9
    <3>q. QED BY <1>3, <3>1, <3>2
  <2>2. \E s \in DOMAIN S : Mapped(S[s], a)
    <3>1. CASE p.at < text + text_size
      <4>1. Mapped(S[1], a) BY <1>1, <1>3, <1>9, <3>1 DEF Mapped
      <4>q. QED BY <1>3, <4>1
    <3>2. CASE dyn <= p.at /\ p.at < dyn + rest
      <4>1. S[2].addr = base + dyn /\ S[2].filesz = rest BY <1>3
      <4> HIDE DEF rest
      <4>2. Mapped(S[2], a) BY <1>1, <1>9, <2>0, <3>2, <4>1 DEF Mapped
      <4>q. QED BY <1>3, <4>2
    <3>q. QED BY <1>9, <3>1, <3>2
  <2>3. PICK s \in DOMAIN S : Mapped(S[s], a) BY <2>2
  <2> HIDE DEF a
  <2>4. At(a) = p.what BY <1>9, <2>1, <2>3, AtPiece DEF S
  <2>q. QED BY <2>4 DEF a
<1> DEFINE ends == strings + name_end
           end == dyn + (200 + n * 8)
<1>z. ASSUME NEW j \in 0 .. n - 1
      PROVE  /\ entry_(j).at \in Nat /\ got(j).at \in Nat /\ relocation(j).at \in Nat /\ symbol(j).at \in Nat /\ name(j).at \in Nat
             /\ symbol(j).at < strings
             /\ strings + 11 <= name(j).at /\ name(j).at < ends
             /\ rela <= relocation(j).at /\ relocation(j).at < stub
             /\ plt + 16 <= entry_(j).at /\ entry_(j).at < text
             /\ dyn <= got(j).at /\ got(j).at < end
  <2>0. j \in Nat /\ j < n BY <1>1
  <2>1. entry_(j).at = plt + size + j * 16 /\ got(j).at = dyn + 200 + j * 8 BY <1>6
  <2>2. relocation(j).at = rela + j * 24 /\ symbol(j).at = 400 + j * 24 /\ name(j).at = strings + off(j) BY <1>6
  <2>3. off(j) \in Nat /\ 11 <= off(j) /\ off(j) < name_end BY <1>4
  <2>4. symbol(j).at \in Nat /\ symbol(j).at < strings BY <1>1, <2>0, <2>2
  <2>5. name(j).at \in Nat /\ strings + 11 <= name(j).at /\ name(j).at < ends BY <1>1, <2>2, <2>3
  <2>6. relocation(j).at \in Nat /\ rela <= relocation(j).at /\ relocation(j).at < stub BY <1>1, <2>0, <2>2
  <2>7. entry_(j).at \in Nat /\ plt + 16 <= entry_(j).at /\ entry_(j).at < text BY <1>1, <2>0, <2>1
  <2>8. got(j).at \in Nat /\ dyn <= got(j).at /\ got(j).at < end BY <1>1, <2>0, <2>1
  <2>q. QED BY <2>4, <2>5, <2>6, <2>7, <2>8
<1>u. ASSUME NEW i \in 0 .. n - 1, NEW j \in 0 .. n - 1
      PROVE  /\ entry_(i).at = entry_(j).at => i = j
             /\ got(i).at = got(j).at => i = j
             /\ relocation(i).at = relocation(j).at => i = j
             /\ symbol(i).at = symbol(j).at => i = j
             /\ name(i).at = name(j).at => i = j
  <2>0. i \in Nat /\ j \in Nat /\ plt + size \in Nat BY <1>1
  <2>1. entry_(i).at = plt + size + i * 16 /\ entry_(j).at = plt + size + j * 16 BY <1>6
  <2>2. got(i).at = dyn + 200 + i * 8 /\ got(j).at = dyn + 200 + j * 8 BY <1>6
  <2>3. relocation(i).at = rela + i * 24 /\ relocation(j).at = rela + j * 24 BY <1>6
  <2>4. symbol(i).at = 400 + i * 24 /\ symbol(j).at = 400 + j * 24 BY <1>6
  <2>5. name(i).at = strings + off(i) /\ name(j).at = strings + off(j) BY <1>6
  <2>6. off(i) \in Nat /\ off(j) \in Nat /\ (off(i) = off(j) => i = j) BY <1>4
  <2>7. strings \in Nat BY <1>1
  <2>8. name(i).at = name(j).at => i = j BY <2>5, <2>6, <2>7
  <2>9. entry_(i).at = entry_(j).at => i = j BY <2>0, <2>1
  <2>10. got(i).at = got(j).at => i = j BY <1>1, <2>0, <2>2
  <2>11. relocation(i).at = relocation(j).at => i = j BY <1>1, <2>0, <2>3
  <2>12. symbol(i).at = symbol(j).at => i = j BY <2>0, <2>4
  <2>q. QED BY <2>8, <2>9, <2>10, <2>11, <2>12
<1>l. /\ strings \in Nat /\ ends \in Nat /\ end \in Nat /\ strings + 11 < ends /\ ends <= hash /\ hash < rela /\ rela < stub
      /\ plt + 16 <= text /\ text <= text + text_size /\ dyn < end
  BY <1>1
<1> HIDE DEF ends, end
\* A piece is alone at its place.
<1>t. ASSUME NEW q \in file.pieces
      PROVE  /\ q.at \in Nat
             /\ q.at < strings => \E j \in 0 .. n - 1 : q = symbol(j)
             /\ strings <= q.at /\ q.at < strings + 11 => q = lib
             /\ strings + 11 <= q.at /\ q.at < ends => \E j \in 0 .. n - 1 : q = name(j)
             /\ hash <= q.at /\ q.at < rela => q = table
             /\ rela <= q.at /\ q.at < stub => \E j \in 0 .. n - 1 : q = relocation(j)
             /\ stub <= q.at /\ q.at < plt => q = start
             /\ plt <= q.at /\ q.at < plt + 16 => q = first
             /\ plt + 16 <= q.at /\ q.at < text => \E j \in 0 .. n - 1 : q = entry_(j)
             /\ dyn <= q.at => \E j \in 0 .. n - 1 : q = got(j)
  <2>1. CASE text <= q.at /\ q.at < text + text_size /\ q.at \in Nat BY <1>1, <1>l, <2>1
  <2>2. CASE q = start \/ q = first \/ q = table \/ q = lib
    <3>1. CASE q = start BY <1>1, <1>5, <1>l, <3>1
    <3>2. CASE q = first BY <1>1, <1>5, <1>l, <3>2
    <3>3. CASE q = table BY <1>1, <1>5, <1>l, <3>3
    <3>4. CASE q = lib BY <1>1, <1>5, <1>l, <3>4
    <3>q. QED BY <2>2, <3>1, <3>2, <3>3, <3>4
  <2>3. CASE \E j \in 0 .. n - 1 : q = entry_(j) \/ q = got(j) \/ q = relocation(j) \/ q = symbol(j) \/ q = name(j)
    <3>1. PICK j \in 0 .. n - 1 : q = entry_(j) \/ q = got(j) \/ q = relocation(j) \/ q = symbol(j) \/ q = name(j) BY <2>3
    <3>2. CASE q = entry_(j) BY <1>1, <1>l, <1>z, <3>2
    <3>3. CASE q = got(j) BY <1>1, <1>l, <1>z, <3>3
    <3>4. CASE q = relocation(j) BY <1>1, <1>l, <1>z, <3>4
    <3>5. CASE q = symbol(j) BY <1>1, <1>l, <1>z, <3>5
    <3>6. CASE q = name(j) BY <1>1, <1>l, <1>z, <3>6
    <3>q. QED BY <3>1, <3>2, <3>3, <3>4, <3>5, <3>6
  <2>q. QED BY <1>8, <2>1, <2>2, <2>3
<1>10. At(base + start.at) = start.what
  <2>1. \A q \in file.pieces : q.at = start.at => q = start BY <1>1, <1>5, <1>t
  <2>2. start.at \in Nat /\ start.at < text + text_size BY <1>1, <1>5, <1>l
  <2>q. QED BY <1>7, <1>9, <2>1, <2>2
<1>11. At(base + first.at) = first.what
  <2>1. \A q \in file.pieces : q.at = first.at => q = first BY <1>1, <1>5, <1>t
  <2>2. first.at \in Nat /\ first.at < text + text_size BY <1>1, <1>5, <1>l
  <2>q. QED BY <1>7, <1>9, <2>1, <2>2
<1>12. At(base + table.at) = table.what
  <2>1. \A q \in file.pieces : q.at = table.at => q = table BY <1>1, <1>5, <1>l, <1>t
  <2>2. table.at \in Nat /\ table.at < text + text_size BY <1>1, <1>5, <1>l
  <2>q. QED BY <1>7, <1>9, <2>1, <2>2
<1>13. At(base + lib.at) = lib.what
  <2>1. \A q \in file.pieces : q.at = lib.at => q = lib BY <1>1, <1>5, <1>l, <1>t
  <2>2. lib.at \in Nat /\ lib.at < text + text_size BY <1>1, <1>5, <1>l
  <2>q. QED BY <1>7, <1>9, <2>1, <2>2
<1>14. ASSUME NEW i \in 0 .. n - 1
       PROVE  /\ At(base + entry_(i).at) = entry_(i).what /\ At(base + got(i).at) = got(i).what
              /\ At(base + relocation(i).at) = relocation(i).what
              /\ At(base + symbol(i).at) = symbol(i).what /\ At(base + name(i).at) = name(i).what
  <2>1. At(base + entry_(i).at) = entry_(i).what
    <3>1. \A q \in file.pieces : q.at = entry_(i).at => q = entry_(i) BY <1>t, <1>u, <1>z
    <3>2. entry_(i).at \in Nat /\ entry_(i).at < text + text_size BY <1>1, <1>l, <1>z
    <3>q. QED BY <1>7, <1>9, <3>1, <3>2
  <2>2. At(base + got(i).at) = got(i).what
    <3>1. \A q \in file.pieces : q.at = got(i).at => q = got(i) BY <1>t, <1>u, <1>z
    <3>2. got(i).at \in Nat /\ dyn <= got(i).at /\ got(i).at < dyn + (200 + n * 8) BY <1>z DEF end
    <3>q. QED BY <1>7, <1>9, <3>1, <3>2
  <2>3. At(base + relocation(i).at) = relocation(i).what
    <3>1. \A q \in file.pieces : q.at = relocation(i).at => q = relocation(i) BY <1>t, <1>u, <1>z
    <3>2. relocation(i).at \in Nat /\ relocation(i).at < text + text_size BY <1>1, <1>l, <1>z
    <3>q. QED BY <1>7, <1>9, <3>1, <3>2
  <2>4. At(base + symbol(i).at) = symbol(i).what
    <3>1. \A q \in file.pieces : q.at = symbol(i).at => q = symbol(i) BY <1>t, <1>u, <1>z
    <3>2. symbol(i).at \in Nat /\ symbol(i).at < text + text_size BY <1>1, <1>l, <1>z
    <3>q. QED BY <1>7, <1>9, <3>1, <3>2
  <2>5. At(base + name(i).at) = name(i).what
    <3>1. \A q \in file.pieces : q.at = name(i).at => q = name(i) BY <1>t, <1>u, <1>z
    <3>2. name(i).at \in Nat /\ name(i).at < text + text_size BY <1>1, <1>l, <1>z
    <3>q. QED BY <1>7, <1>9, <3>1, <3>2
  <2>q. QED BY <2>1, <2>2, <2>3, <2>4, <2>5
<1>15. ASSUME NEW i \in 0 .. n - 1
       PROVE  /\ At(base + (plt + size + i * 16)) = entry_(i).what /\ At(base + (dyn + 200 + i * 8)) = got(i).what
              /\ At(base + (rela + i * 24)) = relocation(i).what
              /\ At(base + (400 + i * 24)) = symbol(i).what /\ At(base + (strings + off(i))) = name(i).what
  BY <1>6, <1>14
<1>q. QED BY <1>5, <1>10, <1>11, <1>12, <1>13, <1>15
      DEF n, base, size, strings, hash, rela, stub, plt, dyn, start, first, table, lib,
          entry_, got, relocation, symbol, name, off

\* The pages and the rest of an address are the address again.
LEMMA PagedLeads ==
  ASSUME Arm, NEW pc \in Nat, NEW to \in Nat, NEW size \in Nat, to % 8 = 0
  PROVE  ElfWriter!Referred(pc, size, ElfWriter!Paged(pc, to)) = to
<1>1. ElfWriter!Arm BY ElfSame
<1>2. ElfWriter!Referred(pc, size, ElfWriter!Paged(pc, to)) =
        (pc \div 4096 + (to \div 4096 - pc \div 4096)) * 4096 + ((to % 4096) \div 8) * 8
  BY <1>1 DEF ElfWriter!Referred, ElfWriter!Paged, ElfWriter!PAGE
<1>3. (to \div 4096) * 4096 + ((to % 4096) \div 8) * 8 = to OBVIOUS
<1>4. pc \div 4096 + (to \div 4096 - pc \div 4096) = to \div 4096 OBVIOUS
<1>q. QED BY <1>2, <1>3, <1>4

\* What an instruction of a stub refers to is what it was written for.
LEMMA ReferenceLeads ==
  ASSUME NEW pc \in Nat, NEW to \in Nat, NEW size \in Nat, Arm => to % 8 = 0
  PROVE  ElfWriter!Referred(pc, size, ElfWriter!Reference(pc, size, to)) = to
<1>1. ElfWriter!Arm <=> Arm BY ElfSame
<1>2. CASE Arm
  <2>1. ElfWriter!Reference(pc, size, to) = ElfWriter!Paged(pc, to) BY <1>1, <1>2 DEF ElfWriter!Reference
  <2>q. QED BY <1>2, <2>1, PagedLeads
<1>3. CASE ~Arm
  <2>1. pc + size + (to - (pc + size)) = to OBVIOUS
  <2>q. QED BY <1>1, <1>3, <2>1 DEF ElfWriter!Referred, ElfWriter!Reference
<1>q. QED BY <1>2, <1>3

\* Where the file is loaded.
LEMMA LoadBase == ElfWriter!LOAD_BASE \in Nat /\ ElfWriter!LOAD_BASE % 4096 = 0
BY SMT DEF ElfWriter!LOAD_BASE

\* What ld.so is told of the tables.
LEMMA DynamicLoader ==
  ASSUME TypeInv, Elf, DynamicOutput
  PROVE  LET base == ElfWriter!LOAD_BASE
             dyn == ElfWriter!dynamic_off
         IN /\ file.loader.needed = 1 /\ file.loader.strsz = name_end
            /\ file.loader.hash = base + ElfWriter!hash_off /\ file.loader.strtab = base + ElfWriter!dynstr_off
            /\ file.loader.symtab = base + 376 /\ file.loader.jmprel = base + ElfWriter!rela_off
            /\ file.loader.pltrelsz \div 24 = ElfWriter!nimp
            /\ file.loader.pltgot = base + dyn + 176
            /\ ElfWriter!got_vaddr = base + dyn + 176
            /\ \A i \in Nat : /\ ElfWriter!got_entry_vaddr(i) = base + (dyn + 200 + i * 8)
                             /\ ElfWriter!plt_entry_off(i) = ElfWriter!plt_off + ElfWriter!elf_plt0_size + i * 16
<1> DEFINE n == ElfWriter!nimp
           base == ElfWriter!LOAD_BASE
           dyn == ElfWriter!dynamic_off
<1>1. /\ n \in Nat /\ dyn \in Nat /\ base \in Nat /\ ElfWriter!got_off = dyn + 176 /\ ElfWriter!dynsym_off = 376
  BY SMT, DynamicPlaces, LoadBase
<1>2. file.loader = ElfWriter!dynamic BY DEF DynamicOutput, ElfWriter!DynamicFile
<1>3. ElfWriter!got_vaddr = base + dyn + 176 BY <1>1 DEF ElfWriter!got_vaddr
<1>4. (n * 24) \div 24 = n
  <2> HIDE DEF n
  <2>q. QED BY <1>1
<1>5. ASSUME NEW i \in Nat
      PROVE  /\ ElfWriter!got_entry_vaddr(i) = base + (dyn + 200 + i * 8)
             /\ ElfWriter!plt_entry_off(i) = ElfWriter!plt_off + ElfWriter!elf_plt0_size + i * 16
  <2>1. ElfWriter!got_entry_vaddr(i) = base + dyn + 176 + (3 + i) * 8
    BY <1>3 DEF ElfWriter!got_entry_vaddr, ElfWriter!GOT_RESERVED
  <2>2. base + dyn + 176 + (3 + i) * 8 = base + (dyn + 200 + i * 8)
    <3> HIDE DEF base, dyn
    <3>q. QED BY <1>1
  <2>q. QED BY <2>1, <2>2 DEF ElfWriter!plt_entry_off, ElfWriter!elf_plt_entry_size
<1>6. /\ file.loader.needed = 1 /\ file.loader.strsz = name_end
      /\ file.loader.hash = base + ElfWriter!hash_off /\ file.loader.strtab = base + ElfWriter!dynstr_off
      /\ file.loader.symtab = base + 376 /\ file.loader.jmprel = base + ElfWriter!rela_off
      /\ file.loader.pltrelsz = n * 24 /\ file.loader.pltgot = ElfWriter!got_vaddr
  BY <1>1, <1>2 DEF ElfWriter!dynamic, ElfWriter!rela_size
<1>q. QED BY <1>3, <1>4, <1>5, <1>6

\* The first entry of the PLT leads to ld.so.
LEMMA DynamicEnters ==
  ASSUME TypeInv, PlaceInv, Elf, DynamicOutput
  PROVE  ElfWriter!EntersLoader(ElfWriter!LOAD_BASE + ElfWriter!plt_off)
<1> DEFINE base == ElfWriter!LOAD_BASE
           plt == ElfWriter!plt_off
           dyn == ElfWriter!dynamic_off
           pc == base + plt
           gotv == base + dyn + 176
           first == ElfWriter!At(pc)
<1>1. base \in Nat /\ base % 4096 = 0 /\ plt \in Nat /\ dyn \in Nat /\ dyn % 4096 = 0 BY SMT, DynamicPlaces, LoadBase
<1>2. ElfWriter!got_vaddr = gotv /\ file.loader.pltgot = gotv BY DynamicLoader
<1>3. first = ElfWriter!Plt0.what BY DynamicFinds, ElfSame
<1>4. /\ first.k = "plt0"
      /\ Arm => first.jump = ElfWriter!Paged(pc + 4, gotv + 16)
      /\ ~Arm => /\ first.push = ElfWriter!Reference(pc, 6, gotv + 8)
                 /\ first.jump = ElfWriter!Reference(pc, 12, gotv + 16)
  BY <1>2, <1>3, ElfSame DEF ElfWriter!Plt0, ElfWriter!Piece, ElfWriter!plt0_vaddr
<1>5. pc \in Nat /\ pc + 4 \in Nat /\ gotv + 8 \in Nat /\ gotv + 16 \in Nat /\ (gotv + 16) % 8 = 0
  <2> HIDE DEF base, plt, dyn
  <2>q. QED BY <1>1
<1> HIDE DEF pc, gotv, first
<1>6. CASE Arm
  <2>1. ElfWriter!Referred(pc + 4, 0, first.jump) = gotv + 16 BY <1>4, <1>5, <1>6, PagedLeads
  <2>q. QED BY <1>2, <1>4, <1>6, <2>1, ElfSame DEF ElfWriter!EntersLoader, first, pc
<1>7. CASE ~Arm
  <2>1. ElfWriter!Referred(pc, 12, first.jump) = gotv + 16 BY <1>4, <1>5, <1>7, ReferenceLeads
  <2>2. ElfWriter!Referred(pc, 6, first.push) = gotv + 8 BY <1>4, <1>5, <1>7, ReferenceLeads
  <2>q. QED BY <1>2, <1>4, <1>7, <2>1, <2>2, ElfSame DEF ElfWriter!EntersLoader, first, pc
<1>q. QED BY <1>6, <1>7

\* A jump to an entry of the PLT ends up in its import, early or late.
LEMMA DynamicReaches ==
  ASSUME TypeInv, PlaceInv, Elf, DynamicOutput, NEW i \in 0 .. Len(imports)
  PROVE  ElfWriter!Reaches(ElfWriter!LOAD_BASE + (ElfWriter!plt_off + ElfWriter!elf_plt0_size + i * 16),
                           ElfWriter!ImportNames[i + 1])
<1> DEFINE n == ElfWriter!nimp
           base == ElfWriter!LOAD_BASE
           plt == ElfWriter!plt_off
           size == ElfWriter!elf_plt0_size
           strings == ElfWriter!dynstr_off
           rela == ElfWriter!rela_off
           dyn == ElfWriter!dynamic_off
           pc == base + (plt + size + i * 16)
           slot == base + (dyn + 200 + i * 8)
           f == ElfWriter!ImportNames[i + 1]
           it == ElfWriter!At(pc)
           got == ElfWriter!At(slot)
<1>1. /\ n \in Nat /\ n = Len(imports) + 1 /\ i \in Nat /\ i \in 0 .. n - 1 /\ i + 1 \in 1 .. n
      /\ base \in Nat /\ base % 4096 = 0 /\ plt \in Nat /\ size \in {16, 32} /\ dyn \in Nat /\ dyn % 4096 = 0
      /\ strings \in Nat /\ rela \in Nat
      /\ name_off[i + 1] \in Nat /\ name_off[i + 1] < name_end
  <2>1. Len(imports) \in Nat BY SizesTyped
  <2>2. n \in Nat /\ n = Len(imports) + 1 BY SMT, DynamicPlaces
  <2>3. i \in Nat /\ i \in 0 .. n - 1 /\ i + 1 \in 1 .. n BY <2>1, <2>2
  <2>4. \A j \in 1 .. n : name_off[j] \in Nat /\ 11 <= name_off[j] /\ name_off[j] < name_end BY SMT, DynamicPlaces
  <2>5. strings = 400 + n * 24 BY SMT, DynamicPlaces
  <2>6. plt \in Nat /\ size \in {16, 32} /\ dyn \in Nat /\ dyn % 4096 = 0 /\ rela \in Nat BY SMT, DynamicPlaces
  <2> HIDE DEF n, plt, size, dyn, rela, strings, base
  <2>7. strings \in Nat /\ name_off[i + 1] \in Nat /\ name_off[i + 1] < name_end BY <2>2, <2>3, <2>4, <2>5
  <2>8. base \in Nat /\ base % 4096 = 0 BY LoadBase DEF base
  <2>q. QED BY <2>2, <2>3, <2>6, <2>7, <2>8
<1>2. /\ file.loader.strsz = name_end /\ file.loader.strtab = base + strings
      /\ file.loader.symtab = base + 376 /\ file.loader.jmprel = base + rela
      /\ file.loader.pltrelsz \div 24 = n
      /\ file.loader.pltgot = base + dyn + 176
      /\ ElfWriter!got_entry_vaddr(i) = slot /\ ElfWriter!plt_entry_off(i) = plt + size + i * 16
  <2>1. /\ file.loader.strsz = name_end /\ file.loader.strtab = base + strings
        /\ file.loader.symtab = base + 376 /\ file.loader.jmprel = base + rela
        /\ file.loader.pltrelsz \div 24 = n
        /\ file.loader.pltgot = base + dyn + 176
    BY DynamicLoader
  <2>2. \A j \in Nat : /\ ElfWriter!got_entry_vaddr(j) = base + (dyn + 200 + j * 8)
                       /\ ElfWriter!plt_entry_off(j) = plt + size + j * 16
    BY DynamicLoader
  <2>q. QED BY <1>1, <2>1, <2>2
<1>3. \A a : ElfWriter!At(a) = At(a) BY ElfSame
<1>4. /\ it = ElfWriter!PltEntry(i).what /\ got = ElfWriter!GotEntry(i).what
      /\ ElfWriter!At(base + (rela + i * 24)) = ElfWriter!Rela(i).what
      /\ ElfWriter!At(base + (400 + i * 24)) = ElfWriter!Sym(i).what
      /\ ElfWriter!At(base + (strings + name_off[i + 1])) = ElfWriter!NameAt(i).what
  BY <1>1, <1>3, DynamicFinds
<1>5. /\ it.k = "plt" /\ it.index = i /\ it.jump = ElfWriter!Reference(pc, 6, slot)
      /\ ~Arm => it.back = (base + plt) - (pc + 16)
  <2>1. ElfWriter!LOAD_BASE + ElfWriter!plt_entry_off(i) = pc BY <1>2
  <2>2. it = [k |-> "plt", index |-> i,
              jump |-> ElfWriter!Reference(ElfWriter!LOAD_BASE + ElfWriter!plt_entry_off(i), 6, ElfWriter!got_entry_vaddr(i)),
              back |-> IF ElfWriter!Arm THEN 0 ELSE ElfWriter!plt0_vaddr - (ElfWriter!LOAD_BASE + ElfWriter!plt_entry_off(i) + 16)]
    BY <1>4 DEF ElfWriter!PltEntry, ElfWriter!Piece
  <2>3. ElfWriter!plt0_vaddr = base + plt BY DEF ElfWriter!plt0_vaddr
  <2>4. ElfWriter!got_entry_vaddr(i) = slot BY <1>2
  <2> HIDE DEF pc, slot, it, base, plt
  <2>5. it.jump = ElfWriter!Reference(pc, 6, slot)
    <3>1. it.jump = ElfWriter!Reference(ElfWriter!LOAD_BASE + ElfWriter!plt_entry_off(i), 6, ElfWriter!got_entry_vaddr(i))
      BY <2>2
    <3>q. QED BY <2>1, <2>4, <3>1
  <2>6. ~Arm => it.back = (base + plt) - (pc + 16)
    <3>1. ~Arm => it.back = ElfWriter!plt0_vaddr - (ElfWriter!LOAD_BASE + ElfWriter!plt_entry_off(i) + 16)
      BY <2>2, ElfSame
    <3>q. QED BY <2>1, <2>3, <3>1
  <2>7. it.k = "plt" /\ it.index = i BY <2>2
  <2>q. QED BY <2>5, <2>6, <2>7
<1>6. got.k = "got" /\ got.to = IF Arm THEN base + plt ELSE pc + 6
  BY <1>2, <1>4, ElfSame DEF ElfWriter!GotEntry, ElfWriter!Piece, ElfWriter!plt0_vaddr
<1>7. pc \in Nat /\ slot \in Nat /\ slot % 8 = 0 /\ (slot - (base + dyn + 176 + 24)) \div 8 = i
  <2> HIDE DEF base, plt, dyn, size
  <2>1. slot - (base + dyn + 176 + 24) = i * 8 BY <1>1
  <2>q. QED BY <1>1, <2>1
<1>8. file.loader.jmprel + i * 24 = base + (rela + i * 24)
  <2> HIDE DEF base, rela
  <2>q. QED BY <1>1, <1>2
<1>9. ElfWriter!Relocation(i) = [k |-> "rela", offset |-> slot, symbol |-> i + 1]
  BY <1>2, <1>4, <1>8 DEF ElfWriter!Relocation, ElfWriter!Rela, ElfWriter!Piece, ElfWriter!SymbolOf
<1>10. i \in ElfWriter!Relocations
  <2> HIDE DEF n
  <2>1. i \in 0 .. (file.loader.pltrelsz \div 24) - 1 BY <1>1, <1>2
  <2>2. ElfWriter!At(file.loader.jmprel + i * 24).k = "rela" BY <1>9 DEF ElfWriter!Relocation
  <2>q. QED BY <2>1, <2>2 DEF ElfWriter!Relocations
<1>11. ElfWriter!SymbolName(i + 1) = [k |-> "name", of |-> f]
  <2>1. file.loader.symtab + (i + 1) * 24 = base + (400 + i * 24)
    <3>1. file.loader.symtab = base + 376 /\ base \in Nat /\ i \in Nat BY <1>1, <1>2
    <3> HIDE DEF base
    <3>q. QED BY <3>1
  <2>2. ElfWriter!At(file.loader.symtab + (i + 1) * 24) = [k |-> "symbol", name |-> name_off[i + 1]]
    BY <1>4, <2>1 DEF ElfWriter!Sym, ElfWriter!Piece
  <2>3. file.loader.strtab + name_off[i + 1] = base + (strings + name_off[i + 1])
    <3>1. file.loader.strtab = base + strings /\ base \in Nat /\ strings \in Nat /\ name_off[i + 1] \in Nat BY <1>1, <1>2
    <3> HIDE DEF base, strings
    <3>q. QED BY <3>1
  <2>4. ElfWriter!At(file.loader.strtab + name_off[i + 1]) = [k |-> "name", of |-> f]
    BY <1>4, <2>3 DEF ElfWriter!NameAt, ElfWriter!Piece
  <2> DEFINE symbol == ElfWriter!At(file.loader.symtab + (i + 1) * 24)
  <2>5. ElfWriter!SymbolName(i + 1) =
          IF symbol.k = "symbol" /\ symbol.name < file.loader.strsz THEN ElfWriter!At(file.loader.strtab + symbol.name)
          ELSE symbol
    BY DEF ElfWriter!SymbolName
  <2>6. symbol.k = "symbol" /\ symbol.name = name_off[i + 1] BY <2>2
  <2>7. name_off[i + 1] < file.loader.strsz BY <1>1, <1>2
  <2> HIDE DEF f, symbol
  <2>q. QED BY <2>4, <2>5, <2>6, <2>7
<1> HIDE DEF pc, slot, f, it, got, n, base, plt, size, strings, rela, dyn
<1>12. ElfWriter!Binds(i, slot, f)
  BY <1>9, <1>10, <1>11 DEF ElfWriter!Binds
<1>13. ElfWriter!Referred(pc, 6, it.jump) = slot BY <1>5, <1>7, ReferenceLeads
<1>14. ElfWriter!EntersLoader(base + plt) BY DynamicEnters DEF base, plt
<1>15. CASE Arm
  <2>1. it.jump.add = slot % ElfWriter!PAGE
    BY <1>5, <1>15, ElfSame DEF ElfWriter!Reference, ElfWriter!Paged
  <2>2. (slot - (file.loader.pltgot + 24)) \div 8 = i BY <1>2, <1>7
  <2>3. got.to = base + plt BY <1>6, <1>15
  <2>q. QED BY <1>5, <1>6, <1>10, <1>12, <1>13, <1>14, <1>15, <2>1, <2>2, <2>3, ElfSame
       DEF ElfWriter!Reaches, it, got, pc, f, base, plt, size
<1>16. CASE ~Arm
  <2>1. pc + 16 + it.back = base + plt BY <1>1, <1>5, <1>7, <1>16
  <2>2. got.to = pc + 6 BY <1>6, <1>16
  <2>q. QED BY <1>5, <1>6, <1>10, <1>12, <1>13, <1>14, <1>16, <2>1, <2>2, ElfSame
       DEF ElfWriter!Reaches, it, got, pc, f, base, plt, size
<1>q. QED BY <1>15, <1>16

\* A file with imports: its start, its calls and its strings lead where they
\* should, and ld.so finds what it is told of.
LEMMA DynamicLands == ASSUME TypeInv, PlaceInv, Defined("main"), Elf, DynamicOutput PROVE ReferencesLand
<1> DEFINE n == ElfWriter!nimp
           base == ElfWriter!LOAD_BASE
           size == ElfWriter!elf_plt0_size
           plt == ElfWriter!plt_off
           stub == ElfWriter!stub_off
           at == ElfWriter!text_off
           S == file.segments
           start == ElfWriter!StartStub
           stubs == base + (plt + size)
<1>1. /\ n \in Nat /\ n = Len(imports) + 1 /\ text_size \in Nat /\ size \in {16, 32} /\ (Arm => size = 32)
      /\ stub \in Nat /\ stub % 16 = 0 /\ plt \in Nat /\ plt % 4 = 0 /\ at \in Nat /\ at % 16 = 0
  BY SMT, DynamicPlaces
<1>2. base \in Nat /\ base % 4096 = 0 BY LoadBase
<1>3. DOMAIN S = {1, 2} /\ S[1].off = 0 /\ S[1].addr = base /\ S[1].filesz = at + text_size BY DynamicSegments
<1>4. file = ElfWriter!DynamicFile BY DEF DynamicOutput
<1>5. file.text = base + at /\ file.start = base + stub BY <1>4 DEF ElfWriter!DynamicFile
<1>6. TextPieces(at) \subseteq file.pieces
  <2>1. ElfWriter!TextPieces(at) = TextPieces(at) BY ElfSame
  <2>2. ElfWriter!TextPieces(at) \subseteq ElfWriter!DynamicFile.pieces BY DEF ElfWriter!DynamicFile
  <2>q. QED BY <1>4, <2>1, <2>2
<1>7. start.what.k = "start"
      /\ start.what.main = ElfWriter!Call(base + stub, 5, base + at + entry)
      /\ start.what.exit = ElfWriter!Call(IF Arm THEN base + stub + 4 ELSE base + stub, 12, base + ElfWriter!plt_entry_off(Len(imports)))
  <2>1. ElfWriter!entry = entry /\ (ElfWriter!Arm <=> Arm) BY ElfSame
  <2>q. QED BY <2>1 DEF ElfWriter!StartStub, ElfWriter!Piece
<1>8. entry \in Nat /\ (Arm => entry % 4 = 0)
  <2>1. FnAt("main") \in Nat /\ \E a \in Nat : FnAt("main") = a * Unit BY Places
  <2>2. Arm => Unit = 4 BY Places
  <2>q. QED BY <2>1, <2>2 DEF entry
<1>9. Len(imports) \in Nat /\ ElfWriter!plt_entry_off(Len(imports)) = plt + size + Len(imports) * 16
  BY SizesTyped DEF ElfWriter!plt_entry_off, ElfWriter!elf_plt_entry_size
<1>10. At(base + stub) = start.what BY DynamicFinds
<1>11. ElfWriter!Loads
  <2>1. \A a : ElfWriter!At(a) = At(a) BY ElfSame
  <2>2. file.loader.needed = 1 /\ file.loader.hash = base + ElfWriter!hash_off /\ file.loader.strtab = base + ElfWriter!dynstr_off
    BY DynamicLoader
  <2>3. ElfWriter!At(file.loader.hash) =
          [k |-> "hash", nbucket |-> ElfWriter!nimp, nchain |-> ElfWriter!nsym, bucket |-> bucket, chain |-> chain]
    <3>1. ElfWriter!At(base + ElfWriter!hash_off) = ElfWriter!HashTable.what BY <2>1, DynamicFinds
    <3>q. QED BY <2>2, <3>1 DEF ElfWriter!HashTable, ElfWriter!Piece
  <2>4. ElfWriter!At(file.loader.strtab + file.loader.needed) = [k |-> "name", of |-> ElfWriter!LIBNAME]
    <3>1. ElfWriter!At(base + (ElfWriter!dynstr_off + 1)) = [k |-> "name", of |-> ElfWriter!LIBNAME] BY <2>1, DynamicFinds
    <3>2. ElfWriter!dynstr_off = 400 + n * 24 BY SMT, DynamicPlaces
    <3>3. base + ElfWriter!dynstr_off + 1 = base + (ElfWriter!dynstr_off + 1)
      <4> HIDE DEF n, base
      <4>q. QED BY <1>1, <1>2, <3>2
    <3>q. QED BY <2>2, <3>1, <3>3
  <2>5. ElfWriter!ListsEnd BY DEF DynamicOutput
  <2>q. QED BY <2>3, <2>4, <2>5 DEF ElfWriter!Loads
<1>12. \A i \in 0 .. Len(imports) : ElfWriter!Reaches(base + (plt + size + i * 16), ElfWriter!ImportNames[i + 1])
  BY DynamicReaches
<1> HIDE DEF n, base, size, plt, stub, at, S, start
<1>13. /\ \A f \in Functions : Defined(f) => Holds(file.text + FnAt(f), [k |-> "function", of |-> f])
       /\ \A i \in DOMAIN fixups : fixups[i].kind = "str" =>
            Holds(file.text + (code_bytes + fixups[i].aux), [k |-> "string", of |-> i])
  <2>1. /\ S[1].off \in Nat /\ S[1].addr \in Nat /\ S[1].filesz \in Nat /\ S[1].addr <= base + at
        /\ base + at + text_size <= S[1].addr + S[1].filesz /\ at = S[1].off + (base + at) - S[1].addr
        /\ base + at \in Nat /\ 1 \in DOMAIN S
    BY <1>1, <1>2, <1>3
  <2>q. QED BY <1>1, <1>5, <1>6, <2>1, TextHeld DEF S
<1>14. ASSUME NEW m \in DOMAIN imports PROVE Reaches(stubs + (m - 1) * 16, imports[m])
  <2>0. imports \in Seq(Called) /\ m \in 1 .. Len(imports) BY DEF TypeInv, ImportInv
  <2>1. PICK i \in Nat : i = m - 1 /\ i + 1 = m /\ i \in 0 .. Len(imports) BY <2>0
  <2>2. ElfWriter!ImportNames[i + 1] = imports[m]
    <3>1. "exit" \in Called \cup {"exit"} /\ imports \in Seq(Called \cup {"exit"}) BY <2>0
    <3>2. \A j \in 1 .. Len(imports) : Append(imports, "exit")[j] = imports[j] BY <3>1, SeqAppended
    <3>q. QED BY <2>0, <2>1, <3>2 DEF ElfWriter!ImportNames
  <2>3. stubs + i * 16 = base + (plt + size + i * 16)
    <3>1. base \in Nat /\ plt \in Nat /\ size \in Nat /\ i \in Nat BY <1>1, <1>2
    <3>q. QED BY <3>1
  <2>4. ElfWriter!Reaches(stubs + i * 16, imports[m]) BY <1>12, <2>1, <2>2, <2>3
  <2>5. Reaches(stubs + i * 16, imports[m]) BY <2>4 DEF Reaches, Elf
  <2>q. QED BY <2>1, <2>5
<1>15. Starts
  <2>1. (\A a : ElfWriter!At(a) = At(a)) /\ (ElfWriter!Arm <=> Arm) /\ \A a, w : ElfWriter!Holds(a, w) <=> Holds(a, w) BY ElfSame
  <2>2. ElfWriter!CallTo(file.start, 5, start.what.main) = base + at + entry
    <3> DEFINE pc == base + stub
               to == base + at + entry
    <3>1. pc \in Nat /\ to \in Nat /\ (Arm => (to - pc) % 4 = 0) BY <1>1, <1>2, <1>8
    <3> HIDE DEF pc, to
    <3>2. ElfWriter!CallTo(pc, 5, ElfWriter!Call(pc, 5, to)) = to BY <3>1, CallLeads
    <3>q. QED BY <1>5, <1>7, <3>2 DEF pc, to
  <2>3. Holds(base + at + entry, [k |-> "function", of |-> "main"])
    BY <1>5, <1>13 DEF entry, Functions
  <2> DEFINE last == base + (plt + size + Len(imports) * 16)
             exit == start.what.exit
  <2>4. last \in Nat /\ (Arm => last % 4 = 0) BY <1>1, <1>2, <1>9
  <2>5. ElfWriter!Reaches(last, "exit")
    <3>1. Len(imports) \in 0 .. Len(imports) BY <1>9
    <3>2. ElfWriter!ImportNames[Len(imports) + 1] = "exit"
      <4>1. "exit" \in Called \cup {"exit"} /\ imports \in Seq(Called \cup {"exit"}) BY DEF TypeInv, ImportInv
      <4>q. QED BY <4>1, SeqAppended DEF ElfWriter!ImportNames
    <3>q. QED BY <1>12, <3>1, <3>2
  <2>6. (IF ElfWriter!Arm THEN file.start + 4 * (1 + exit) ELSE file.start + 12 + exit) = last
    <3> DEFINE pc == base + stub
    <3>0. pc \in Nat /\ pc % 4 = 0 /\ file.start = pc BY <1>1, <1>2, <1>5
    <3>1. CASE Arm
      <4>1. exit = ElfWriter!Call(pc + 4, 12, last) BY <1>7, <1>9, <3>1
      <4>2. exit = (last - (pc + 4)) \div 4 BY <2>1, <3>1, <4>1 DEF ElfWriter!Call
      <4> HIDE DEF pc, last, exit
      <4>3. 4 * ((last - (pc + 4)) \div 4) = last - (pc + 4) BY <2>4, <3>0, <3>1
      <4>4. pc + 4 * (1 + exit) = last BY <2>4, <3>0, <4>2, <4>3
      <4>q. QED BY <2>1, <3>0, <3>1, <4>4
    <3>2. CASE ~Arm
      <4>1. exit = ElfWriter!Call(pc, 12, last) BY <1>7, <1>9, <3>2
      <4>2. exit = last - (pc + 12) BY <2>1, <3>2, <4>1 DEF ElfWriter!Call
      <4> HIDE DEF pc, last, exit
      <4>3. pc + 12 + exit = last BY <2>4, <3>0, <4>2
      <4>q. QED BY <2>1, <3>0, <3>2, <4>3
    <3>q. QED BY <3>1, <3>2
  <2> HIDE DEF last
  <2>7. ElfWriter!Starts
    BY <1>5, <1>7, <1>10, <2>1, <2>2, <2>3, <2>5, <2>6 DEF ElfWriter!Starts
  <2>q. QED BY <1>11, <2>7 DEF Starts, Elf
<1>16. /\ file.text \in Nat /\ stubs \in Nat /\ (Arm => file.text % 4 = 0 /\ stubs % 4 = 0)
  BY <1>1, <1>2, <1>5
<1>17. Linked(file.text, stubs, 16)
  <2>1. Linked(base + at, base + plt + size, 16) BY DEF DynamicOutput, base, at, plt, size
  <2>2. base + plt + size = stubs BY <1>1, <1>2
  <2>q. QED BY <1>5, <2>1, <2>2
<1> DEFINE bytes == 16
<1>18. /\ bytes \in {6, 12, 16} /\ bytes % 4 = 0 /\ Linked(file.text, stubs, bytes)
       /\ \A m \in DOMAIN imports : Reaches(stubs + (m - 1) * bytes, imports[m])
  BY <1>14, <1>17
<1> HIDE DEF stubs, bytes
<1>q. QED BY <1>13, <1>15, <1>16, <1>18, AllLand

\* A file with names has imports.
ImportedInv == phase \in {"names", "hash"} /\ Elf => imports # << >>

\* No step takes the imports away once their names are begun.
LEMMA ImportedStep == ASSUME TypeInv, ImportedInv, [Next]_vars PROVE ImportedInv'
<1>1. CASE Program \/ bin_emit
  <2>1. phase' \in {"code", "resolve"}
    BY <1>1 DEF Program, EmitFunction, emit_fn_call, emit_string_lit, Noted, EndCode, bin_emit, ResolveString,
       ResolveCall, ResolveImport, ImportOverflow, Resolving, Resolved
  <2>q. QED BY <2>1 DEF ImportedInv
<1>2. CASE ElfWriter!Next
  <2>1. CASE ElfWriter!StartNames
    BY <2>1 DEF ElfWriter!StartNames, ElfWriter!NamesFrom, ElfWriter!Afterwards, ElfWriter!import_vars, ImportedInv
  <2>2. CASE ElfWriter!ImportName
    BY <2>2 DEF ElfWriter!ImportName, ElfWriter!WriteName, ElfWriter!import_vars, ImportedInv, Elf
  <2>3. CASE ElfWriter!EndNames
    BY <2>3 DEF ElfWriter!EndNames, ElfWriter!TooLarge, ElfWriter!import_vars, ImportedInv, Elf
  <2>4. CASE ElfWriter!HashSymbol
    BY <2>4 DEF ElfWriter!HashSymbol, ElfWriter!import_vars, ImportedInv, Elf
  <2>5. CASE ElfWriter!WriteStatic \/ ElfWriter!WriteDynamic
    <3>1. phase' = "end" BY <2>5 DEF ElfWriter!WriteStatic, ElfWriter!WriteDynamic, ElfWriter!Write, ElfWriter!TooLarge
    <3>q. QED BY <3>1 DEF ImportedInv
  <2>q. QED BY <1>2, <2>1, <2>2, <2>3, <2>4, <2>5 DEF ElfWriter!Next
<1>3. CASE PeWriter!Next \/ MachOWriter!Next
  <2>1. ~Elf'
    BY <1>3 DEF PeWriter!Next, MachOWriter!Next, PeWriter!StartNames, PeWriter!ImportName, PeWriter!WritePe, PeWriter!Pe,
       MachOWriter!StartNames, MachOWriter!ImportName, MachOWriter!WriteMachO, MachOWriter!MachO, Elf,
       PeWriter!NamesFrom, PeWriter!Afterwards, PeWriter!WriteName, PeWriter!Write, PeWriter!TooLarge,
       MachOWriter!NamesFrom, MachOWriter!Afterwards, MachOWriter!WriteName, MachOWriter!Write
  <2>q. QED BY <2>1 DEF ImportedInv
<1>4. CASE UNCHANGED vars BY <1>4 DEF ImportedInv, Elf
<1>q. QED BY <1>1, <1>2, <1>3, <1>4 DEF Next

\* WriteDynamic writes such a file.
LEMMA DynamicWritten ==
  ASSUME TypeInv, CallInv, OrderInv, ListInv, ImportedInv, ElfWriter!WriteDynamic, ~diagnosed'
  PROVE  DynamicOutput'
<1>0. PICK text, stubs : /\ text = ElfWriter!LOAD_BASE + ElfWriter!text_off
                         /\ stubs = ElfWriter!LOAD_BASE + ElfWriter!plt_off + ElfWriter!elf_plt0_size
  OBVIOUS
<1>1. /\ phase = "hash" /\ ~diagnosed
      /\ file' = ElfWriter!DynamicFile /\ word' = ElfWriter!Patched(text, stubs, 16)
      /\ UNCHANGED <<target, code_vars, next, import_vars, table_vars, diagnosed>>
  BY <1>0 DEF ElfWriter!WriteDynamic, ElfWriter!Write, ElfWriter!TooLarge, ElfWriter!elf_plt_entry_size,
     ElfWriter!code_vars, ElfWriter!import_vars, ElfWriter!table_vars
<1>2. /\ ElfWriter!DynamicFile' = ElfWriter!DynamicFile
      /\ UNCHANGED <<ElfWriter!text_off, ElfWriter!plt_off, ElfWriter!elf_plt0_size>>
  BY <1>1, DynamicSame
<1>3. /\ text = (ElfWriter!LOAD_BASE + ElfWriter!text_off)'
      /\ stubs = (ElfWriter!LOAD_BASE + ElfWriter!plt_off + ElfWriter!elf_plt0_size)'
  BY <1>0, <1>2 DEF ElfWriter!LOAD_BASE
<1>4. Linked(text, stubs, 16)'
  <2>1. word' = Patched(text, stubs, 16) BY <1>1, ElfSame
  <2>2. \A i \in DOMAIN fixups :
           IF Known(i) THEN word'[i] = Value(i)
           ELSE \E m \in DOMAIN imports :
                  imports[m] = fixups[i].key /\ word'[i] = Branch(text + Site(fixups[i]), stubs + (m - 1) * 16)
    BY <1>1, <2>1, PatchedLinks
  <2>q. QED BY <1>1, <2>2, LinksSame
<1>5. imports # << >> /\ Len(name_off) = Len(imports) + 1 BY <1>1 DEF ListInv, ImportedInv
<1>6. NamesInOrder' BY <1>1 DEF OrderInv, NamesInOrder, FirstName, Gap
<1>7. ElfWriter!ListsEnd BY <1>1 DEF ListInv, ElfWriter!ListsEnd, HashOf
<1>8. ElfWriter!ListsEnd' BY <1>1, <1>7 DEF ElfWriter!ListsEnd, ElfWriter!ImportNames, ElfWriter!nimp
<1>q. QED BY <1>1, <1>2, <1>3, <1>4, <1>5, <1>6, <1>8 DEF DynamicOutput

-----------------------------------------------------------------------------
(* What is written leads where it should                                     *)

\* A file that is written is the one its writer makes, and its links are set.
DoneInv == Written =>
  /\ target = "macho" => MachOOutput
  /\ target = "pe-x86_64" => PeOutput
  /\ Elf => StaticOutput \/ DynamicOutput

\* Links are kept as long as nothing they depend on changes.
LEMMA LinksKept ==
  ASSUME UNCHANGED <<target, code_vars, imports, word>>, NEW text, NEW stubs, NEW size, Linked(text, stubs, size)
  PROVE  Linked(text, stubs, size)'
<1>1. \A i \in DOMAIN fixups :
        IF Known(i) THEN word'[i] = Value(i)
        ELSE \E m \in DOMAIN imports :
               imports[m] = fixups[i].key /\ word'[i] = Branch(text + Site(fixups[i]), stubs + (m - 1) * size)
  BY DEF Linked
<1>q. QED BY <1>1, LinksSame

\* What has been written stays as it is.
LEMMA DoneKept == ASSUME DoneInv, UNCHANGED vars PROVE DoneInv'
<1> SUFFICES ASSUME Written PROVE DoneInv' BY DEF DoneInv, Written
<1>0. NamesInOrder => NamesInOrder' BY DEF NamesInOrder, FirstName, Gap
<1>1. MachOOutput => MachOOutput'
  <2> SUFFICES ASSUME MachOOutput PROVE MachOOutput' OBVIOUS
  <2>1. PICK text, stubs : text = MachOWriter!code_off /\ stubs = MachOWriter!stub_off /\ Linked(text, stubs, 12)
    BY DEF MachOOutput
  <2>2. MachOWriter!MachOExecutable' = MachOWriter!MachOExecutable BY MachOFileSame
  <2>3. MachOWriter!code_off' = text /\ MachOWriter!stub_off' = stubs
    BY <2>1 DEF MachOWriter!code_off, MachOWriter!stub_off, MachOWriter!dyn, MachOWriter!n_imp, MachOWriter!align_up,
       MachOWriter!text_size, MachOWriter!code_bytes, MachOWriter!Unit, MachOWriter!Arm
  <2>4. Linked(text, stubs, 12)' BY <2>1, LinksKept
  <2>q. QED BY <1>0, <2>2, <2>3, <2>4 DEF MachOOutput
<1>2. PeOutput => PeOutput'
  <2> SUFFICES ASSUME PeOutput PROVE PeOutput' OBVIOUS
  <2>1. PICK text, stubs : text = PeWriter!code_rva /\ stubs = PeWriter!thunks_rva /\ Linked(text, stubs, 6)
    BY DEF PeOutput
  <2>2. PeWriter!PeExecutable' = PeWriter!PeExecutable /\ PeWriter!code_rva' = text /\ PeWriter!thunks_rva' = stubs
    BY <2>1, PeFileSame
  <2>3. Linked(text, stubs, 6)' BY <2>1, LinksKept
  <2>q. QED BY <1>0, <2>2, <2>3 DEF PeOutput
<1>3. StaticOutput => StaticOutput'
  <2>1. ElfWriter!StaticFile' = ElfWriter!StaticFile BY StaticSame
  <2>2. \A i : (Known(i)' <=> Known(i)) /\ Value(i)' = Value(i) BY SameValues
  <2>q. QED BY <2>1, <2>2 DEF StaticOutput
<1>4. DynamicOutput => DynamicOutput'
  <2> SUFFICES ASSUME DynamicOutput PROVE DynamicOutput' OBVIOUS
  <2>1. PICK text, stubs : /\ text = ElfWriter!LOAD_BASE + ElfWriter!text_off
                           /\ stubs = ElfWriter!LOAD_BASE + ElfWriter!plt_off + ElfWriter!elf_plt0_size
                           /\ Linked(text, stubs, 16)
    BY DEF DynamicOutput
  <2>2. /\ ElfWriter!DynamicFile' = ElfWriter!DynamicFile
        /\ UNCHANGED <<ElfWriter!text_off, ElfWriter!plt_off, ElfWriter!elf_plt0_size>>
    BY DynamicSame
  <2>3. /\ text = (ElfWriter!LOAD_BASE + ElfWriter!text_off)'
        /\ stubs = (ElfWriter!LOAD_BASE + ElfWriter!plt_off + ElfWriter!elf_plt0_size)'
    BY <2>1, <2>2 DEF ElfWriter!LOAD_BASE
  <2>4. Linked(text, stubs, 16)' BY <2>1, LinksKept
  <2>5. ElfWriter!ListsEnd BY DEF DynamicOutput
  <2>6. ElfWriter!ListsEnd' BY <2>5 DEF ElfWriter!ListsEnd, ElfWriter!ImportNames, ElfWriter!nimp
  <2>7. imports' # << >> /\ Len(name_off') = Len(imports') + 1 /\ file' = ElfWriter!DynamicFile BY DEF DynamicOutput
  <2>q. QED BY <1>0, <2>2, <2>3, <2>4, <2>6, <2>7 DEF DynamicOutput
<1>5. Elf' <=> Elf BY DEF Elf
<1>q. QED BY <1>1, <1>2, <1>3, <1>4, <1>5 DEF DoneInv

\* What is written by a step is the file its writer is to write.
LEMMA DoneStep ==
  ASSUME TypeInv, CallInv, OrderInv, ListInv, ImportedInv, DoneInv, [Next]_vars
  PROVE  DoneInv'
<1>1. CASE Program \/ bin_emit
  <2>1. phase' \in {"code", "resolve"}
    BY <1>1 DEF Program, EmitFunction, emit_fn_call, emit_string_lit, Noted, EndCode, bin_emit, ResolveString,
       ResolveCall, ResolveImport, ImportOverflow, Resolving, Resolved
  <2>q. QED BY <2>1 DEF DoneInv, Written
<1>2. CASE ElfWriter!StartNames \/ ElfWriter!ImportName \/ ElfWriter!HashSymbol
           \/ PeWriter!StartNames \/ PeWriter!ImportName \/ MachOWriter!StartNames \/ MachOWriter!ImportName
  <2>1. phase' # "end"
    BY <1>2 DEF ElfWriter!StartNames, ElfWriter!ImportName, ElfWriter!HashSymbol, PeWriter!StartNames, PeWriter!ImportName,
       MachOWriter!StartNames, MachOWriter!ImportName,
       ElfWriter!NamesFrom, PeWriter!NamesFrom, MachOWriter!NamesFrom,
       ElfWriter!Afterwards, PeWriter!Afterwards, MachOWriter!Afterwards,
       ElfWriter!WriteName, PeWriter!WriteName, MachOWriter!WriteName
  <2>q. QED BY <2>1 DEF DoneInv, Written
<1>3. CASE ElfWriter!EndNames
  <2>1. phase' = "end" => diagnosed' BY <1>3 DEF ElfWriter!EndNames, ElfWriter!TooLarge
  <2>q. QED BY <2>1 DEF DoneInv, Written
<1> SUFFICES ASSUME ~diagnosed' PROVE DoneInv' BY DEF DoneInv, Written
<1>4. CASE ElfWriter!WriteStatic
  <2>1. StaticOutput' BY <1>4, StaticWritten
  <2>2. Elf' BY <1>4 DEF ElfWriter!WriteStatic, ElfWriter!Elf, Elf, ElfWriter!Write, ElfWriter!TooLarge
  <2>q. QED BY <2>1, <2>2 DEF DoneInv, Elf
<1>5. CASE ElfWriter!WriteDynamic
  <2>1. DynamicOutput' BY <1>5, DynamicWritten
  <2>2. Elf' BY <1>5 DEF ElfWriter!WriteDynamic, ElfWriter!Write, ElfWriter!TooLarge, ListInv, Elf
  <2>q. QED BY <2>1, <2>2 DEF DoneInv, Elf
<1>6. CASE PeWriter!WritePe
  <2>1. PeOutput' BY <1>6, PeWritten
  <2>2. target' = "pe-x86_64" BY <1>6 DEF PeWriter!WritePe, PeWriter!Pe, PeWriter!Write, PeWriter!TooLarge
  <2>q. QED BY <2>1, <2>2 DEF DoneInv, Elf
<1>7. CASE MachOWriter!WriteMachO
  <2>1. target' = "macho" /\ ~diagnosed BY <1>7 DEF MachOWriter!WriteMachO, MachOWriter!MachO, MachOWriter!Write
  <2>2. MachOOutput' BY <1>7, <2>1, MachOWritten
  <2>q. QED BY <2>1, <2>2 DEF DoneInv, Elf
<1>8. CASE UNCHANGED vars BY <1>8, DoneKept
<1>q. QED
  BY <1>1, <1>2, <1>3, <1>4, <1>5, <1>6, <1>7, <1>8 DEF Next, ElfWriter!Next, PeWriter!Next, MachOWriter!Next

\* References land in each of these files.
LEMMA DoneLands == ASSUME TypeInv, PlaceInv, DoneInv PROVE ReferencesLand
<1> SUFFICES ASSUME Written PROVE ReferencesLand BY DEF ReferencesLand
<1>1. Defined("main") BY DEF PlaceInv, Written
<1>2. target \in Targets BY DEF TypeInv, CodeInv
<1>3. CASE target = "macho" BY <1>1, <1>3, MachOLands DEF DoneInv
<1>4. CASE target = "pe-x86_64" BY <1>1, <1>4, PeLands DEF DoneInv
<1>5. CASE Elf BY <1>1, <1>5, StaticLands, DynamicLands DEF DoneInv
<1>q. QED BY <1>2, <1>3, <1>4, <1>5 DEF Targets, Elf

\* Every reference of a file that is written without an error leads to what the
\* program names, for every target, every program and every number of imports:
\* the patches of bin_emit and of the writers, the tables the loader reads and
\* the stubs between them agree on where everything is.
THEOREM ReferencesSound == Spec => []ReferencesLand
<1> DEFINE Inv == TypeInv /\ PlaceInv /\ CallInv /\ OrderInv /\ ListInv /\ ImportedInv /\ DoneInv
<1>1. Init => Inv
  <2> SUFFICES ASSUME Init PROVE Inv OBVIOUS
  <2>1. ImportedInv /\ DoneInv BY DEF Init, ImportedInv, DoneInv, Written
  <2>q. QED BY <2>1, InitTyped, PlaceInit
<1>2. Inv /\ [Next]_vars => Inv'
  <2> SUFFICES ASSUME Inv, [Next]_vars PROVE Inv' OBVIOUS
  <2>1. TypeInv' BY TypeInductive
  <2>2. PlaceInv' BY PlaceStep
  <2>3. CallInv' BY CallStep
  <2>4. OrderInv' BY OrderStep
  <2>5. ListInv' BY ListStep
  <2>6. ImportedInv' BY ImportedStep
  <2>7. DoneInv' BY DoneStep
  <2>q. QED BY <2>1, <2>2, <2>3, <2>4, <2>5, <2>6, <2>7
<1>3. Inv => ReferencesLand BY DoneLands
<1>q. QED BY <1>1, <1>2, <1>3, PTL DEF Spec

=============================================================================
