------------------------------- MODULE ElfFile -------------------------------
(* emit_helper-elf-exe.h with exe-elf-x86_64.c or exe-elf-aarch64.c: a static *)
(* file when nothing is imported, else a file that ld.so binds: dynamic       *)
(* symbols and their hash table, a PLT with its GOT, and exit as last import. *)
EXTENDS Image

LOAD_BASE == 4194304
PAGE == 4096
GOT_RESERVED == 3
ImgSize == 524288

elf_interp_size == IF Arm THEN 27 ELSE 28
elf_start_stub_size == IF Arm THEN 12 ELSE 14
elf_dyn_start_stub_size == IF Arm THEN 8 ELSE 12
elf_plt0_size == IF Arm THEN 32 ELSE 16
elf_plt_entry_size == 16

\* elf_patch_call and the calls of the stubs: a call in a stub at pc, on x86-64
\* with its end at pc + size.
Call(pc, size, to) == IF Arm THEN (to - pc) \div 4 ELSE to - (pc + size)
\* enc_adrp, enc_ldr64, enc_add64
Paged(pc, to) == [pages |-> (to \div PAGE) - (pc \div PAGE), ldr |-> (to % PAGE) \div 8, add |-> to % PAGE]
Reference(pc, size, to) == IF Arm THEN Paged(pc, to) ELSE to - (pc + size)

-----------------------------------------------------------------------------
(* write_static_elf                                                          *)

static_stub_off == 64 + 56
static_text_off == static_stub_off + elf_start_stub_size
static_image_size == static_text_off + text_size
static_shdr_off == align_up(static_image_size + 17, 8)

static_parts == <<
  Part(0, 64 + 56),
  Part(static_stub_off, elf_start_stub_size),
  Part(static_text_off, text_size),
  Part(static_image_size, 17),
  Part(static_shdr_off, 3 * 64) >>

\* elf_build_start_stub: call main, exit
StaticStub == LET pc == LOAD_BASE + static_stub_off
              IN Piece(static_stub_off, [k |-> "start", main |-> Call(pc, 5, LOAD_BASE + static_text_off + entry)])

StaticFile == [
  parts |-> static_parts, loaded |-> 3, size |-> static_shdr_off + 3 * 64, room |-> ImgSize,
  segments |-> <<Segment(0, static_image_size, LOAD_BASE, static_image_size)>>, page |-> PAGE,
  text |-> LOAD_BASE + static_text_off, start |-> LOAD_BASE + static_stub_off, loader |-> << >>,
  pieces |-> {StaticStub} \cup TextPieces(static_text_off)]

WriteStatic ==
  /\ BinEmitted /\ Elf /\ imports = << >>
  /\ IF StaticFile.size > ImgSize THEN TooLarge ELSE Write(StaticFile, word)

-----------------------------------------------------------------------------
(* write_dynamic_elf: names, then the lists of the hash table                *)

ImportNames == Append(imports, "exit")
nimp == Len(imports) + 1
nsym == nimp + 1
LIBNAME == "libc.so.6"

StartNames == BinEmitted /\ Elf /\ imports # << >> /\ NamesFrom(1 + 10)
ImportName ==
  /\ Elf /\ Len(name_off) < nimp
  /\ WriteName(Length[ImportNames[Len(name_off) + 1]] + 1)

\* The names are counted when all are written: an import and exit may be one
\* too many for sym_name_off, and the entry lands behind it.  What it lands on
\* is not modelled; the writer then gives up, and makes nothing of it.
Overrun == Elf /\ Len(name_off) > NameCap

\* mutant: only their length is looked at
TooLongNames == name_end > 8192
TooManyNames == name_end > 8192 \/ nimp > NameMost
EndNames ==
  /\ phase = "names" /\ Elf /\ Len(name_off) = nimp
  /\ IF TooManyNames THEN TooLarge
     ELSE /\ phase' = "hash"
          /\ bucket' = [h \in 0 .. nimp - 1 |-> 0]
          /\ UNCHANGED <<target, code_vars, next, word, import_vars, name_off, name_end, chain, diagnosed, file>>

\* Symbol i goes to the head of its list.
HashSymbol ==
  /\ phase = "hash" /\ Len(chain) < nimp
  /\ LET i == Len(chain) + 1
         h == Hash[ImportNames[i]] % nimp
     IN chain' = Append(chain, bucket[h]) /\ bucket' = [bucket EXCEPT ![h] = i]
  /\ UNCHANGED <<target, phase, code_vars, next, word, import_vars, name_off, name_end, diagnosed, file>>

-----------------------------------------------------------------------------
(* write_dynamic_elf: the layout                                             *)

interp_off == 64 + 5 * 56
dynsym_off == align_up(interp_off + elf_interp_size, 8)
dynstr_off == dynsym_off + nsym * 24
hash_off == align_up(dynstr_off + name_end, 8)
hash_size == (2 + nimp + nsym) * 4
rela_off == align_up(hash_off + hash_size, 8)
rela_size == nimp * 24
stub_off == align_up(rela_off + rela_size, 16)
plt_off == stub_off + elf_dyn_start_stub_size
\* mutant: the first entry is forgotten
plt_size_short == nimp * elf_plt_entry_size
plt_size == elf_plt0_size + nimp * elf_plt_entry_size
text_off == align_up(plt_off + plt_size, 16)
ro_filesz == text_off + text_size
dynamic_off == align_up(ro_filesz, PAGE)
got_off == dynamic_off + 11 * 16
image_size == got_off + (GOT_RESERVED + nimp) * 8
shdr_off == align_up(image_size + 22, 8)

parts == <<
  Part(0, 64 + 5 * 56),
  Part(interp_off, elf_interp_size),
  Part(dynsym_off, nsym * 24),
  Part(dynstr_off, name_end),
  Part(hash_off, (2 + nimp + nsym) * 4),
  Part(rela_off, nimp * 24),
  Part(stub_off, elf_dyn_start_stub_size),
  Part(plt_off, elf_plt0_size + nimp * elf_plt_entry_size),
  Part(text_off, text_size),
  Part(dynamic_off, 11 * 16),
  Part(got_off, (GOT_RESERVED + nimp) * 8),
  Part(image_size, 22),
  Part(shdr_off, 4 * 64) >>

segments == <<
  Segment(0, ro_filesz, LOAD_BASE, ro_filesz),
  Segment(dynamic_off, image_size - dynamic_off, LOAD_BASE + dynamic_off, image_size - dynamic_off) >>

-----------------------------------------------------------------------------
(* write_dynamic_elf: the pieces                                             *)

got_vaddr == LOAD_BASE + got_off
plt0_vaddr == LOAD_BASE + plt_off
plt_entry_off(i) == plt_off + elf_plt0_size + i * elf_plt_entry_size
got_entry_vaddr(i) == got_vaddr + (GOT_RESERVED + i) * 8
Entries == 0 .. nimp - 1

\* elf_build_dyn_start_stub: call main, call exit
StartStub ==
  LET pc == LOAD_BASE + stub_off
  IN Piece(stub_off, [k |-> "start",
       main |-> Call(pc, 5, LOAD_BASE + text_off + entry),
       exit |-> Call(IF Arm THEN pc + 4 ELSE pc, 12, LOAD_BASE + plt_entry_off(Len(imports)))])

\* elf_build_plt0: what ld.so is entered through
Plt0 == Piece(plt_off, [k |-> "plt0",
  push |-> IF Arm THEN 0 ELSE Reference(plt0_vaddr, 6, got_vaddr + 8),
  jump |-> IF Arm THEN Paged(plt0_vaddr + 4, got_vaddr + 16) ELSE Reference(plt0_vaddr, 12, got_vaddr + 16)])

\* elf_build_plt_entry
PltEntry(i) ==
  LET pc == LOAD_BASE + plt_entry_off(i)
  IN Piece(plt_entry_off(i), [k |-> "plt", index |-> i,
       jump |-> Reference(pc, 6, got_entry_vaddr(i)),
       back |-> IF Arm THEN 0 ELSE plt0_vaddr - (pc + 16)])
\* Until ld.so has bound it, an entry leads to where its index is pushed, or to PLT0.
GotEntry(i) == Piece(got_off + (GOT_RESERVED + i) * 8,
  [k |-> "got", to |-> IF Arm THEN plt0_vaddr ELSE LOAD_BASE + plt_entry_off(i) + 6])

\* mutant: the null symbol is not counted
SymbolFromZero(i) == i
SymbolOf(i) == i + 1
Rela(i) == Piece(rela_off + i * 24, [k |-> "rela", offset |-> got_entry_vaddr(i), symbol |-> SymbolOf(i)])
Sym(i) == Piece(dynsym_off + (i + 1) * 24, [k |-> "symbol", name |-> name_off[i + 1]])
NameAt(i) == Piece(dynstr_off + name_off[i + 1], [k |-> "name", of |-> ImportNames[i + 1]])
HashTable == Piece(hash_off, [k |-> "hash", nbucket |-> nimp, nchain |-> nsym, bucket |-> bucket, chain |-> chain])

dynamic == [
  needed |-> 1, hash |-> LOAD_BASE + hash_off, strtab |-> LOAD_BASE + dynstr_off,
  symtab |-> LOAD_BASE + dynsym_off, strsz |-> name_end, pltgot |-> got_vaddr,
  pltrelsz |-> rela_size, jmprel |-> LOAD_BASE + rela_off]

DynamicFile == [
  parts |-> parts, loaded |-> 11, size |-> shdr_off + 4 * 64, room |-> ImgSize,
  segments |-> segments, page |-> PAGE,
  text |-> LOAD_BASE + text_off, start |-> LOAD_BASE + stub_off, loader |-> dynamic,
  pieces |-> TextPieces(text_off) \cup {StartStub, Plt0, HashTable, Piece(dynstr_off + 1, [k |-> "name", of |-> LIBNAME])}
             \cup UNION {{PltEntry(i), GotEntry(i), Rela(i), Sym(i), NameAt(i)} : i \in Entries}]

WriteDynamic ==
  /\ phase = "hash" /\ Len(chain) = nimp
  /\ IF DynamicFile.size > ImgSize THEN TooLarge
     ELSE Write(DynamicFile, Patched(LOAD_BASE + text_off, LOAD_BASE + plt_off + elf_plt0_size, elf_plt_entry_size))

Next == WriteStatic \/ StartNames \/ ImportName \/ EndNames \/ HashSymbol \/ WriteDynamic

-----------------------------------------------------------------------------
(* What the processor and ld.so make of it.                                  *)

\* Where an address in an instruction at pc leads.
Referred(pc, size, ref) ==
  IF Arm THEN (pc \div PAGE + ref.pages) * PAGE + ref.ldr * 8 ELSE pc + size + ref
CallTo(pc, size, rel) == IF Arm THEN pc + 4 * rel ELSE pc + size + rel

Relocations == {i \in 0 .. (file.loader.pltrelsz \div 24) - 1 : At(file.loader.jmprel + i * 24).k = "rela"}
Relocation(i) == At(file.loader.jmprel + i * 24)
SymbolName(s) == LET symbol == At(file.loader.symtab + s * 24)
                 IN IF symbol.k = "symbol" /\ symbol.name < file.loader.strsz
                    THEN At(file.loader.strtab + symbol.name) ELSE symbol
\* ld.so puts f where relocation i says, which is `slot'.
Binds(i, slot, f) ==
  /\ i \in Relocations
  /\ Relocation(i).offset = slot
  /\ SymbolName(Relocation(i).symbol) = [k |-> "name", of |-> f]

\* The first entry of the PLT goes to ld.so by way of its entries of the GOT.
EntersLoader(pc) ==
  LET plt0 == At(pc) IN
  /\ plt0.k = "plt0"
  /\ IF Arm THEN Referred(pc + 4, 0, plt0.jump) = file.loader.pltgot + 16
     ELSE /\ Referred(pc, 12, plt0.jump) = file.loader.pltgot + 16
          /\ Referred(pc, 6, plt0.push) = file.loader.pltgot + 8

\* A jump to pc ends up in f, whether ld.so binds all when the program starts
\* or each at its first call, when it is told the index on x86-64 and the slot
\* on aarch64.
Reaches(pc, f) ==
  LET plt == At(pc)
      slot == Referred(pc, 6, plt.jump)
      got == At(slot)
  IN /\ plt.k = "plt" /\ got.k = "got"
     /\ \E i \in Relocations : Binds(i, slot, f)
     /\ IF Arm
        THEN /\ plt.jump.add = slot % PAGE
             /\ Binds((slot - (file.loader.pltgot + 24)) \div 8, slot, f)
             /\ EntersLoader(got.to)
        ELSE /\ got.to = pc + 6
             /\ Binds(plt.index, slot, f)
             /\ EntersLoader(pc + 16 + plt.back)

\* The program is started, calls main and ends by exit.
Starts ==
  LET stub == At(file.start)
      main == CallTo(file.start, 5, stub.main)
  IN /\ stub.k = "start"
     /\ Holds(main, [k |-> "function", of |-> "main"])
     /\ imports # << >> => Reaches(IF Arm THEN file.start + 4 * (1 + stub.exit) ELSE file.start + 12 + stub.exit, "exit")

\* Each list of the hash table ends, since it runs towards smaller symbols, and
\* leads past every symbol of its names.
ListsEnd ==
  \A i \in DOMAIN chain :
    LET h == Hash[ImportNames[i]] % nimp IN
    /\ chain[i] < i
    /\ bucket[h] = i \/ \E j \in i + 1 .. Len(chain) : chain[j] = i /\ Hash[ImportNames[j]] % nimp = h
Loads ==
  imports # << >> =>
    /\ At(file.loader.strtab + file.loader.needed) = [k |-> "name", of |-> LIBNAME]
    /\ At(file.loader.hash) = [k |-> "hash", nbucket |-> nimp, nchain |-> nsym, bucket |-> bucket, chain |-> chain]
    /\ ListsEnd
=============================================================================
