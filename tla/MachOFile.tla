------------------------------ MODULE MachOFile ------------------------------
(* exe-macho.c: the code with a stub for each import behind it, a page of     *)
(* slots that dyld binds by a chain of fixups, and what it binds them by, with *)
(* the signature, in __LINKEDIT.  Addresses are relative to TEXT_VM.  With no *)
(* imports there are neither stubs nor slots.  link_c is always set.          *)
EXTENDS Image

FILE_PAGE == 16384
CS_PAGE == 4096

MachO == target = "macho"
n_imp == Len(imports)
dyn == n_imp > 0
nsegs == IF dyn THEN 4 ELSE 3
Entries == 0 .. n_imp - 1

-----------------------------------------------------------------------------
(* The names of build_chained_imports                                        *)

StartNames == BinEmitted /\ MachO /\ NamesFrom(1)
ImportName ==
  /\ MachO /\ Len(name_off) < n_imp
  /\ WriteName(Length[imports[Len(name_off) + 1]] + 2)

-----------------------------------------------------------------------------
(* write_macho: the layout                                                   *)

\* The header and the load commands: segments of 72 bytes with sections of 80,
\* fixups 16, dylinker 32, build version 24, entry point 24, signature 16, and
\* for a dynamic file __DATA_CONST and libSystem.
code_off == 32 + 72 + 152 + 72 + 16 + 32 + 24 + 24 + 16 + (IF dyn THEN 152 + 56 ELSE 0)
sect_size == align_up(text_size, 4) + n_imp * 12
stub_off == code_off + align_up(text_size, 4)
text_fp == align_up(code_off + sect_size, FILE_PAGE)
le_fileoff == IF dyn THEN text_fp + FILE_PAGE ELSE text_fp
cf_off == le_fileoff

\* build_chained_imports
starts_offset == 32
sis_off == align_up(starts_offset + 4 + 4 * nsegs, 8)
imports_off == align_up(sis_off + 24, 4)
symbols_off == align_up(imports_off + 4 * n_imp, 4)
cf_size == IF dyn THEN symbols_off + name_end ELSE starts_offset + 4 * (1 + nsegs)

sig_off == align_up(cf_off + cf_size, 16)
code_limit == sig_off
n_slots == (code_limit + CS_PAGE - 1) \div CS_PAGE
\* write_signature: a header, the directory with its name, the hashes
sb_len == 20 + (88 + 4) + n_slots * 32

\* What was allocated before all this was known.
cmd_max == 32 + 1024
cf_max == 256 + 4 * n_imp + name_end
body_max == cmd_max + sect_size + 2 * FILE_PAGE + cf_max
sig_max == 64 + 88 + 4 + (body_max \div CS_PAGE + 2) * 32
img_cap == body_max + 16 + sig_max

parts ==
  IF dyn
  THEN <<Part(0, code_off), Part(code_off, text_size), Part(stub_off, n_imp * 12), Part(text_fp, n_imp * 8),
         Part(cf_off, 32), Part(cf_off + starts_offset, 4 + 4 * nsegs), Part(cf_off + sis_off, 24),
         Part(cf_off + imports_off, 4 * n_imp), Part(cf_off + symbols_off, name_end), Part(sig_off, sb_len)>>
  ELSE <<Part(0, code_off), Part(code_off, text_size),
         Part(cf_off, 32), Part(cf_off + starts_offset, 4 * (1 + nsegs)), Part(sig_off, sb_len)>>

\* __TEXT, __DATA_CONST, __LINKEDIT
segments ==
  LET text == Segment(0, text_fp, 0, text_fp)
      linkedit == Segment(le_fileoff, sig_off + sb_len - le_fileoff, le_fileoff, FILE_PAGE)
  IN IF dyn THEN <<text, Segment(text_fp, FILE_PAGE, text_fp, FILE_PAGE), linkedit>> ELSE <<text, linkedit>>

-----------------------------------------------------------------------------
(* write_macho: the pieces                                                   *)

stub_vm(i) == stub_off + i * 12
got_vm(i) == text_fp + i * 8

\* adrp, ldr, br
Stub(i) == Piece(stub_vm(i), [k |-> "stub",
  pages |-> (got_vm(i) \div 4096) - (stub_vm(i) \div 4096), ldr |-> (got_vm(i) % 4096) \div 8])
\* A slot tells its import, and how far the next slot is, in words.
Slot(i) == Piece(text_fp + i * 8, [k |-> "slot", ordinal |-> i, next |-> IF i + 1 < n_imp THEN 2 ELSE 0])
ImportEntry(i) == Piece(cf_off + imports_off + 4 * i, [k |-> "import", name |-> name_off[i + 1]])
\* With '_' before it.
NameAt(i) == Piece(cf_off + symbols_off + name_off[i + 1], [k |-> "name", of |-> imports[i + 1]])
\* The chain of the one segment that has slots.
Chain == Piece(cf_off + sis_off, [k |-> "chain", segment_offset |-> text_fp, page_start |-> 0])
Header == Piece(cf_off, [k |-> "fixups", starts |-> sis_off, imports |-> imports_off,
                         symbols |-> symbols_off, count |-> n_imp])

MachOExecutable == [
  parts |-> parts, loaded |-> Len(parts), size |-> sig_off + sb_len, room |-> img_cap,
  segments |-> segments, page |-> FILE_PAGE,
  text |-> code_off, start |-> code_off + entry,
  loader |-> [fixups |-> cf_off, code_limit |-> code_limit, n_slots |-> n_slots],
  pieces |-> TextPieces(code_off)
             \cup (IF dyn THEN {Chain, Header} ELSE {})
             \cup UNION {{Stub(i), Slot(i), ImportEntry(i), NameAt(i)} : i \in Entries}]

WriteMachO ==
  /\ phase = "names" /\ MachO /\ Len(name_off) = n_imp
  /\ Write(MachOExecutable, Patched(code_off, stub_off, 12))

Next == StartNames \/ ImportName \/ WriteMachO

-----------------------------------------------------------------------------
(* What the processor and dyld make of it.                                   *)

Fixups == At(file.loader.fixups)
FirstSlot == LET chained == At(file.loader.fixups + Fixups.starts)
             IN chained.segment_offset + chained.page_start
\* dyld goes from slot to slot, in words of four bytes.
OnChain(slot) ==
  \E n \in Entries :
    /\ slot = FirstSlot + 8 * n
    /\ \A j \in 0 .. n - 1 : At(FirstSlot + 8 * j).k = "slot" /\ At(FirstSlot + 8 * j).next * 4 = 8
    /\ At(slot).k = "slot"
Binds(slot, f) ==
  /\ OnChain(slot) /\ At(slot).ordinal < Fixups.count
  /\ LET import == At(file.loader.fixups + Fixups.imports + 4 * At(slot).ordinal)
     IN /\ import.k = "import"
        /\ At(file.loader.fixups + Fixups.symbols + import.name) = [k |-> "name", of |-> f]

Reaches(pc, f) ==
  LET stub == At(pc)
  IN stub.k = "stub" /\ Binds((pc \div 4096 + stub.pages) * 4096 + stub.ldr * 8, f)

\* dyld calls main itself, and every page up to the signature has its hash.
Starts ==
  /\ Holds(file.start, [k |-> "function", of |-> "main"])
  /\ file.loader.n_slots * CS_PAGE >= file.loader.code_limit
  /\ (file.loader.n_slots - 1) * CS_PAGE < file.loader.code_limit
=============================================================================
