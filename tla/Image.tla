-------------------------------- MODULE Image --------------------------------
(***************************************************************************)
(* What the writers of executables are given.  The binary backends note    *)
(* calls and string literals as they write the code; bin_emit() fills in   *)
(* those it can and numbers the functions to import; the writer of a       *)
(* target then writes the names the loader binds imports by, lays out the  *)
(* file and patches the calls of imports.  ElfFile, PeFile and MachOFile   *)
(* are the writers, Executables puts them together.                        *)
(*                                                                         *)
(* A file is known by its parts, and by the pieces something refers to: a  *)
(* function, a string, a stub, an entry of a table, a name.                *)
(***************************************************************************)
EXTENDS Integers, Sequences

CONSTANTS
  Called,          \* functions that programs call
  Own,             \* those of them that programs may define
  Length,          \* strlen of names
  Hash,            \* elf_hash of names
  FixupCap,        \* FIXUP_CAP
  ImportCap,       \* IMPORT_CAP
  NameCap,         \* length of sym_name_off
  NameMost,        \* names the ELF writer admits, 62
  CodeSizes        \* code put out before, in offsets

Functions == Own \cup {"main"}
Names == Called \cup {"exit", "_exit"}

ASSUME NamesAssumption ==
  /\ Own \subseteq Called /\ "main" \notin Called
  /\ Length \in [Names -> 1 .. 95] /\ Hash \in [Names -> Nat]      \* KEY_CAP
  /\ "_Exit" \in Called => Length["_Exit"] = Length["_exit"]
ASSUME CapsAssumption ==
  /\ FixupCap \in 0 .. 1024 /\ ImportCap \in 0 .. 64
  /\ NameCap \in Nat /\ NameMost \in Nat /\ NameMost <= NameCap
  /\ CodeSizes \subseteq 0 .. 8192

VARIABLES
  target,
  phase,       \* "code", "resolve", "names", "hash", "write", "end"
  code_len, cstrs_len, fixups, fn_syms,
  next,        \* the fixup bin_emit has come to
  word,        \* what the instruction of each fixup holds
  imports, extcalls,
  name_off, name_end,      \* where the names written so far are, and end
  bucket, chain,           \* the lists of the ELF hash table
  diagnosed,
  file

code_vars == <<code_len, cstrs_len, fixups, fn_syms>>
import_vars == <<imports, extcalls>>
table_vars == <<name_off, name_end, bucket, chain>>
vars == <<target, phase, code_vars, next, word, import_vars, table_vars, diagnosed, file>>

Targets == {"elf-x86_64", "elf-aarch64", "pe-x86_64", "macho"}
Arm == target \in {"elf-aarch64", "macho"}
Elf == target \in {"elf-x86_64", "elf-aarch64"}

\* align_up, pe_align
align_up(x, a) == ((x + a - 1) \div a) * a

-----------------------------------------------------------------------------
(* The code, as far as something refers to it or it to something.          *)

\* Bytes of an offset, CODE_CAP, CSTR_CAP
Unit == IF Arm THEN 4 ELSE 1
CodeCap == IF Arm THEN 8192 ELSE 131072
CstrCap == IF Arm THEN 4096 ELSE 8192
StringSize == 3        \* of every literal, with its end

\* A function begins, and has its first instruction.
EmitFunction(f) ==
  /\ phase = "code" /\ code_len < CodeCap
  /\ \A i \in DOMAIN fn_syms : fn_syms[i].key # f
  /\ fn_syms' = Append(fn_syms, [key |-> f, at |-> code_len])
  /\ code_len' = code_len + 1
  /\ UNCHANGED <<target, phase, cstrs_len, fixups, next, word, import_vars, table_vars, diagnosed, file>>

\* On x86-64 the site is behind the opcode, with the next instruction behind it.
Noted(kind, key, aux, opcode) ==
  LET before == IF Arm THEN 0 ELSE opcode
      size == IF Arm THEN 1 ELSE opcode + 4
  IN /\ phase = "code" /\ fn_syms # << >>
     /\ Len(fixups) < FixupCap /\ code_len + size <= CodeCap
     /\ fixups' = Append(fixups, [kind |-> kind, key |-> key, aux |-> aux, site |-> code_len + before])
     /\ word' = Append(word, 0)
     /\ code_len' = code_len + size
     /\ UNCHANGED <<target, phase, fn_syms, next, import_vars, table_vars, diagnosed, file>>
emit_fn_call(f) == Noted("call", f, 0, 1) /\ UNCHANGED cstrs_len
emit_string_lit ==
  /\ cstrs_len + StringSize <= CstrCap
  /\ Noted("str", "", cstrs_len, 3)
  /\ cstrs_len' = cstrs_len + StringSize

Defined(f) == \E i \in DOMAIN fn_syms : fn_syms[i].key = f
EndCode ==
  /\ phase = "code" /\ Defined("main")
  /\ phase' = "resolve"
  /\ UNCHANGED <<target, code_vars, next, word, import_vars, table_vars, diagnosed, file>>

-----------------------------------------------------------------------------
(* bin_emit, one step for each fixup                                       *)

FnAt(f) == fn_syms[CHOOSE i \in DOMAIN fn_syms : fn_syms[i].key = f].at * Unit
entry == FnAt("main")
code_bytes == code_len * Unit
text_size == code_bytes + cstrs_len
Site(fx) == fx.site * Unit

\* What leads from a site to `to'; on aarch64 a branch counts words.
Relative(site, to) == IF Arm THEN to - site ELSE to - (site + 4)
Branch(site, to) == IF Arm THEN (to - site) \div 4 ELSE to - (site + 4)

Resolving(kind) == phase = "resolve" /\ next <= Len(fixups) /\ fixups[next].kind = kind
Resolved(value) ==
  /\ word' = [word EXCEPT ![next] = value]
  /\ next' = next + 1
  /\ UNCHANGED <<target, phase, code_vars, import_vars, table_vars, diagnosed, file>>

ResolveString ==
  /\ Resolving("str")
  /\ Resolved(Relative(Site(fixups[next]), code_bytes + fixups[next].aux))
ResolveCall ==
  /\ Resolving("call") /\ Defined(fixups[next].key)
  /\ Resolved(Branch(Site(fixups[next]), FnAt(fixups[next].key)))

Full(list) == Len(list) >= ImportCap

Imported(list, f) == \E k \in DOMAIN list : list[k] = f
ResolveImport ==
  LET f == fixups[next].key
      list == IF Imported(imports, f) THEN imports ELSE Append(imports, f)
  IN /\ Resolving("call") /\ ~Defined(f)
     /\ Imported(imports, f) \/ ~Full(imports)
     /\ imports' = list
     /\ extcalls' = Append(extcalls, [site |-> Site(fixups[next]), fixup |-> next,
                                      import |-> (CHOOSE k \in DOMAIN list : list[k] = f) - 1])
     /\ next' = next + 1
     /\ UNCHANGED <<target, phase, code_vars, word, table_vars, diagnosed, file>>

\* An import too many is diagnosed, and the call is left as it is.
ImportOverflow ==
  /\ Resolving("call") /\ ~Defined(fixups[next].key)
  /\ ~Imported(imports, fixups[next].key) /\ Full(imports)
  /\ diagnosed' = TRUE
  /\ next' = next + 1
  /\ UNCHANGED <<target, phase, code_vars, word, import_vars, table_vars, file>>

BinEmitted == phase = "resolve" /\ next > Len(fixups)
Afterwards(p) ==
  /\ phase' = p
  /\ UNCHANGED <<target, code_vars, next, word, import_vars, bucket, chain, diagnosed, file>>

-----------------------------------------------------------------------------
(* What all writers do                                                     *)

\* The names are written one behind the other.
NamesFrom(start) ==
  /\ name_end' = start
  /\ Afterwards("names") /\ UNCHANGED name_off
WriteName(size) ==
  /\ phase = "names"
  /\ name_off' = Append(name_off, name_end)
  /\ name_end' = name_end + size
  /\ UNCHANGED <<target, phase, code_vars, next, word, import_vars, bucket, chain, diagnosed, file>>

\* The calls of imports, with the code at `text' and the stubs from `stubs'
Patched(text, stubs, size) ==
  [i \in DOMAIN word |->
     IF \E k \in DOMAIN extcalls : extcalls[k].fixup = i
     THEN LET e == extcalls[CHOOSE k \in DOMAIN extcalls : extcalls[k].fixup = i]
          IN Branch(text + e.site, stubs + e.import * size)
     ELSE word[i]]

Write(f, words) ==
  /\ file' = f /\ word' = words /\ phase' = "end"
  /\ UNCHANGED <<target, code_vars, next, import_vars, table_vars, diagnosed>>
TooLarge ==
  /\ diagnosed' = TRUE /\ phase' = "end"
  /\ UNCHANGED <<target, code_vars, next, word, import_vars, table_vars, file>>

Part(at, n) == [at |-> at, n |-> n]
Piece(at, what) == [at |-> at, what |-> what]
\* A range of the file, and where it is in memory.
Segment(off, filesz, addr, memsz) == [off |-> off, filesz |-> filesz, addr |-> addr, memsz |-> memsz]
NoFile == [parts |-> << >>, loaded |-> 0, size |-> 0, room |-> 0, segments |-> << >>, page |-> 1,
           text |-> 0, start |-> 0, loader |-> << >>, pieces |-> {}]

\* What the code itself holds, at an offset of the file.
TextPieces(at) ==
  {Piece(at + FnAt(f), [k |-> "function", of |-> f]) : f \in {g \in Functions : Defined(g)}}
  \cup {Piece(at + code_bytes + fixups[i].aux, [k |-> "string", of |-> i]) :
          i \in {j \in DOMAIN fixups : fixups[j].kind = "str"}}

\* What the program finds at an address.
Mapped(s, addr) == addr \in s.addr .. s.addr + s.filesz - 1
Found(addr) ==
  UNION {LET s == file.segments[i]
             offset == s.off + addr - s.addr
         IN IF Mapped(s, addr) THEN {p.what : p \in {q \in file.pieces : q.at = offset}} ELSE {} :
           i \in DOMAIN file.segments}
At(addr) == LET found == Found(addr)
            IN IF found = {} THEN [k |-> "nothing"] ELSE CHOOSE w \in found : TRUE
Holds(addr, what) == what \in Found(addr)

Init ==
  /\ target \in Targets
  /\ phase = "code"
  /\ code_len \in CodeSizes
  /\ cstrs_len = 0 /\ fixups = << >> /\ fn_syms = << >>
  /\ next = 1 /\ word = << >>
  /\ imports = << >> /\ extcalls = << >>
  /\ name_off = << >> /\ name_end = 0
  /\ bucket = << >> /\ chain = << >>
  /\ diagnosed = FALSE
  /\ file = NoFile
=============================================================================
