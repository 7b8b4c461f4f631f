------------------------------- MODULE PeFile -------------------------------
(* emit_helper-pe-exe.h with exe-pe-x86_64.c: a section of code, which begins *)
(* with the entry stub and the thunks of the imports, and one of import data. *)
(* Addresses are relative to the base of the image.                           *)
EXTENDS Image

PE_SECTION_ALIGN == 4096
PE_FILE_ALIGN == 512
PE_THUNK_ENTRY == 8
ImgSize == 524288
pe_entry_stub_size == 16
pe_thunk_size == 6
PE_IMPORT_DLL == "msvcrt.dll"

Pe == target = "pe-x86_64"
\* PE_MAX_IMPORTS, 128, cannot be met with IMPORT_CAP imports.
nimp == Len(imports) + 1
exit_idx == Len(imports)
Entries == 0 .. nimp - 1

pe_export_name(f) == IF f = "_Exit" THEN "_exit" ELSE f
pe_import_name(i) == IF i = exit_idx THEN "exit" ELSE pe_export_name(imports[i + 1])

-----------------------------------------------------------------------------
(* write_pe: the names, then the layout                                      *)

desc_size == 2 * 20
ilt_off == desc_size
ilt_size == (nimp + 1) * PE_THUNK_ENTRY
iat_off == ilt_off + ilt_size
iat_size == (nimp + 1) * PE_THUNK_ENTRY

StartNames == BinEmitted /\ Pe /\ NamesFrom(iat_off + iat_size)
ImportName ==
  /\ Pe /\ Len(name_off) < nimp
  /\ WriteName(align_up(2 + Length[pe_import_name(Len(name_off))] + 1, 2))

size_of_headers == align_up(64 + 264 + 2 * 40, PE_FILE_ALIGN)
text_va == PE_SECTION_ALIGN
thunks_rva == text_va + pe_entry_stub_size
code_rva == thunks_rva + nimp * pe_thunk_size
text_vsize == code_rva - text_va + text_size
text_raw_ptr == size_of_headers
text_raw_size == align_up(text_vsize, PE_FILE_ALIGN)
idata_va == align_up(text_va + text_vsize, PE_SECTION_ALIGN)
dllname_off == name_end
idata_vsize == dllname_off + 11
idata_raw_ptr == text_raw_ptr + text_raw_size
idata_raw_size == align_up(idata_vsize, PE_FILE_ALIGN)
total_file == idata_raw_ptr + idata_raw_size

\* The offset in the file of an address of the code, of an offset in the data
Text(rva) == text_raw_ptr + rva - text_va
Idata(off) == idata_raw_ptr + off

parts == <<
  Part(0, 64 + 264 + 2 * 40),
  Part(text_raw_ptr, pe_entry_stub_size),
  Part(Text(thunks_rva), nimp * pe_thunk_size),
  Part(Text(code_rva), text_size),
  Part(idata_raw_ptr, desc_size),
  Part(Idata(ilt_off), ilt_size),
  Part(Idata(iat_off), iat_size),
  Part(Idata(iat_off + iat_size), name_end - (iat_off + iat_size)),
  Part(Idata(dllname_off), 11) >>

\* The headers, .text and .idata
segments == <<
  Segment(0, size_of_headers, 0, size_of_headers),
  Segment(text_raw_ptr, text_vsize, text_va, text_vsize),
  Segment(idata_raw_ptr, idata_vsize, idata_va, idata_vsize) >>

-----------------------------------------------------------------------------
(* write_pe: the pieces                                                      *)

thunk_rva(i) == thunks_rva + i * pe_thunk_size

\* pe_build_entry_stub: call main, call exit
EntryStub == Piece(text_raw_ptr, [k |-> "start",
  main |-> code_rva + entry - (text_va + 9),
  exit |-> thunk_rva(exit_idx) - (text_va + 16)])
\* pe_build_thunk
Thunk(i) == Piece(Text(thunk_rva(i)), [k |-> "thunk",
  jump |-> idata_va + iat_off + i * PE_THUNK_ENTRY - (thunk_rva(i) + 6)])
Entry(off, i) == Piece(Idata(off + i * PE_THUNK_ENTRY), [k |-> "entry", name |-> idata_va + name_off[i + 1]])
\* A hint of two bytes stands before the name.
NameAt(i) == Piece(Idata(name_off[i + 1] + 2), [k |-> "name", of |-> pe_import_name(i)])
DllName == Piece(Idata(dllname_off), [k |-> "name", of |-> PE_IMPORT_DLL])
Descriptor == Piece(idata_raw_ptr, [k |-> "descriptor",
  OriginalFirstThunk |-> idata_va + ilt_off, Name |-> idata_va + dllname_off, FirstThunk |-> idata_va + iat_off])

PeExecutable == [
  parts |-> parts, loaded |-> Len(parts), size |-> total_file, room |-> ImgSize,
  segments |-> segments, page |-> PE_SECTION_ALIGN,
  text |-> code_rva, start |-> text_va, loader |-> [directory |-> idata_va],
  pieces |-> TextPieces(Text(code_rva)) \cup {EntryStub, Descriptor, DllName}
             \cup UNION {{Thunk(i), Entry(ilt_off, i), Entry(iat_off, i), NameAt(i)} : i \in Entries}]

WritePe ==
  /\ phase = "names" /\ Pe /\ Len(name_off) = nimp
  /\ IF total_file > ImgSize THEN TooLarge
     ELSE Write(PeExecutable, Patched(code_rva, thunks_rva, pe_thunk_size))

Next == StartNames \/ ImportName \/ WritePe

-----------------------------------------------------------------------------
(* What the processor and the loader of Windows make of it.                  *)

\* The loader takes the names from the first table until an entry of 0, and
\* puts the functions into the second, which holds the same until then.
Imports ==
  LET table == At(file.loader.directory)
  IN IF table.k = "descriptor" /\ At(table.Name) = [k |-> "name", of |-> PE_IMPORT_DLL]
     THEN table ELSE [OriginalFirstThunk |-> 0, FirstThunk |-> 0]
NameEntry(i) == At(Imports.OriginalFirstThunk + i * PE_THUNK_ENTRY)
Binds(slot, f) ==
  \E i \in Entries :
    /\ \A j \in 0 .. i : NameEntry(j).k = "entry"
    /\ At(NameEntry(i).name + 2) = [k |-> "name", of |-> f]
    /\ slot = Imports.FirstThunk + i * PE_THUNK_ENTRY

\* A jump to pc ends up in f, which msvcrt.dll may know by another name.
Reaches(pc, f) ==
  LET thunk == At(pc)
  IN thunk.k = "thunk" /\ Binds(pc + 6 + thunk.jump, IF f = "_Exit" THEN "_exit" ELSE f)

Starts ==
  LET stub == At(file.start)
  IN /\ stub.k = "start"
     /\ Holds(file.start + 9 + stub.main, [k |-> "function", of |-> "main"])
     /\ Reaches(file.start + 16 + stub.exit, "exit")
=============================================================================
