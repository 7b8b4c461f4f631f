----------------------------- MODULE Executables -----------------------------
(* From the code of the functions to a file that runs: bin_emit() and the     *)
(* writer of each target.                                                     *)
EXTENDS Image, FiniteSets

ElfWriter == INSTANCE ElfFile
PeWriter == INSTANCE PeFile
MachOWriter == INSTANCE MachOFile

Program ==
  \/ \E f \in Functions : EmitFunction(f)
  \/ \E f \in Called : emit_fn_call(f)
  \/ emit_string_lit
  \/ EndCode
bin_emit == ResolveString \/ ResolveCall \/ ResolveImport \/ ImportOverflow

Next == Program \/ bin_emit \/ ElfWriter!Next \/ PeWriter!Next \/ MachOWriter!Next
Spec == Init /\ [][Next]_vars

-----------------------------------------------------------------------------
(* Properties *)

\* What there is of each table stays in its place and within its limit: the
\* imports are IMPORT_CAP different functions at most that no file defines.
\* Only sym_name_off may be overrun, while the names are written, and no hash
\* table and no file is made of such names: the error is reported.
TypeOK ==
  /\ target \in Targets
  /\ phase \in {"code", "resolve", "names", "hash", "end"}
  /\ code_len \in 0 .. CodeCap /\ cstrs_len \in 0 .. CstrCap
  /\ Len(fixups) \in 0 .. FixupCap /\ DOMAIN word = DOMAIN fixups
  /\ next \in 1 .. Len(fixups) + 1
  /\ Len(imports) \in 0 .. ImportCap
  /\ \A i \in DOMAIN imports :
       imports[i] \in Called /\ ~Defined(imports[i]) /\ \A j \in 1 .. i - 1 : imports[i] # imports[j]
  /\ \A k \in DOMAIN extcalls : extcalls[k].import \in 0 .. Len(imports) - 1
  /\ ElfWriter!Overrun => phase = "names" \/ (phase = "end" /\ diagnosed)
  /\ name_end \in Nat /\ \A i \in DOMAIN name_off : name_off[i] < name_end
  /\ diagnosed \in BOOLEAN

\* The parts of the file lie one behind the other, inside the file and the
\* buffer it is made in; what the program needs is mapped, each part whole, from
\* pages of its own: no layout of the writers puts one table over another,
\* whatever the sizes of the code, the strings and the names.
PartsApart ==
  LET ps == file.parts
      segs == file.segments
      End(p) == p.at + p.n
  IN /\ \A i \in 1 .. Len(ps) - 1 : End(ps[i]) <= ps[i + 1].at
     /\ \A i \in DOMAIN ps : End(ps[i]) <= file.size
     /\ file.size <= file.room
     /\ \A i \in 1 .. file.loaded : \E s \in DOMAIN segs :
          segs[s].off <= ps[i].at /\ End(ps[i]) <= segs[s].off + segs[s].filesz
     /\ \A s \in DOMAIN segs :
          segs[s].filesz <= segs[s].memsz /\ segs[s].off + segs[s].filesz <= file.size
     /\ \A s \in 1 .. Len(segs) - 1 :
          align_up(segs[s].addr + segs[s].memsz, file.page) <= segs[s + 1].addr

\* In a file that is written without an error, every reference leads to what
\* the program names: the start to main and on to exit, a string literal to its
\* text, a call to the first instruction of a function some file defines, and
\* any other call by way of a stub and a slot to the import of that name,
\* however late the loader binds it.
Written == phase = "end" /\ ~diagnosed
Reaches(pc, f) == CASE Elf -> ElfWriter!Reaches(pc, f)
                    [] target = "pe-x86_64" -> PeWriter!Reaches(pc, f)
                    [] target = "macho" -> MachOWriter!Reaches(pc, f)
Starts == CASE Elf -> ElfWriter!Starts /\ ElfWriter!Loads
            [] target = "pe-x86_64" -> PeWriter!Starts
            [] target = "macho" -> MachOWriter!Starts
\* Where the instruction of a fixup leads.
LeadsTo(i) ==
  LET pc == file.text + Site(fixups[i])
  IN CASE ~Arm -> pc + 4 + word[i]
       [] Arm /\ fixups[i].kind = "call" -> pc + 4 * word[i]
       [] Arm /\ fixups[i].kind = "str" -> pc + word[i]
ReferencesLand ==
  Written =>
    /\ Starts
    /\ \A i \in DOMAIN fixups :
         CASE fixups[i].kind = "str" -> Holds(LeadsTo(i), [k |-> "string", of |-> i])
           [] fixups[i].kind = "call" /\ Defined(fixups[i].key) ->
                Holds(LeadsTo(i), [k |-> "function", of |-> fixups[i].key])
           [] OTHER -> Reaches(LeadsTo(i), fixups[i].key)
=============================================================================
