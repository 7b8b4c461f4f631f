# Formal models of the allang compiler

allang (`src/alc`) is a one-pass compiler: it reads a source file token by token and emits
the code of a line before it reads the next one. There is no syntax tree. Everything that is
known about the program at a line sits in a few tables and counters that thousands of calls
push, pop, reset and overwrite, and most of what can go wrong is one of them out of step with
another after a long and perfectly legal sequence of lines. One part of the models is about
that state. The other is about what comes out: there is no optimiser and no second look at
the code, so the operands that the parser hands to a backend, in every combination of width,
sign and register class, decide alone whether the program computes what it says.

The compiler is a single thread, so the nondeterminism of the models is the program being
compiled: which line comes next, how deep it is indented, which names collide in a table,
which types and values an operation meets, what a function's frame has to hold.

## Inventory

| component | source | state it keeps | operations | what makes it correct | modelled in |
|---|---|---|---|---|---|
| block parser | `main.c` 83-216 (line ends of `tok`), 2154-2707 | `indent`, `cur_token.eob`, `context->ended`, the recursion of `parse_block` with each call's `block_indent`, `local_ids`, `nreg_count`, `max_nreg_count`, `nreg_mark`, `targets` | one per kind of line, `start_of_block`, `end_of_block`, the returns of `parse_block` to its three callers | a line is parsed inside the blocks that enclose it; scopes, register marks and targets describe the same blocks | `Blocks`, `LexicalBlocks` |
| named registers | `main.c` 661, 2459-2475, `typesys.h` 329-355, prologues of the backends | `nreg_count`, `max_nreg_count`, what was written, what is saved | declaration, parameter, block end, prologue | live declarations share no register; every written register is saved | `Blocks` |
| static flow checks | `main.c` 835-847, 2236-2245, 2687-2700 | `target_assigned`, `returns_on_exit` | `check_unassigned`, the airity check | a read of an unassigned register and a path without `ret` are diagnosed, as far as the order of the lines tells | `Flow` |
| name and symbol tables | `mini_hashset.h`, `hashmap.h` | keys and values of open-addressing tables | find, overwrite, add, clear | the table is a map; a lookup ends; abort only when full | `HashTable`, `Dictionary` |
| lexer | `main.c` 83-266 | `src->cur`, `indent`, `eof`, `lineno` | `tok`, `consume_*` | tokens do not run over the end of the source; the indentation is the one of the next line of code | line ends in `Blocks` |
| literals | `main.c` 319-394 | none | numbers, characters, escapes | value of the literal, range diagnosed | no; their values are constants of `Backends` |
| name lookup | `main.c` 698-833 | none (reads tables) | `read_regable`, members | innermost scope wins | `find_id` in `Blocks` |
| types and declarators | `typesys.h`, `main.c` 414-604 | types table, `dtype` declarator lists | wrap, unwrap, size, typecheck | sizes and offsets agree with the declarators | `Types` |
| check operator, loads, stores | `main.c` 606-655, 1097-1243, 1425-1853, 2247-2299 | stack offsets, scratch registers | `checkop`, bounds checks, `resolve_stack_store_target`, conditional returns | an access stays inside its object; control leaves exactly when the check fails, with the value it names | `Bounds`, `Aggregates` |
| aggregates | `main.c` 1002-1420 | offsets of members | struct declarations, literals in registers and on the stack | each member is written once at its offset, and nothing beside it | `Aggregates` |
| operators | `main.c` 1857-2152 | operand register | unary, binary, compare | no operand is overwritten before it is read | `Backends`, `Bounds`; an expression line is one step of `Blocks` |
| functions, symbols, imports | `main.c` 849-1000, 2622-2707, 2874-3060 | `fn_ids`, placeholders, `src`, `lineno` | labels, `#declare`, `#compile_all`, pre-import, skipping | one signature per symbol; a nested file leaves the outer function as it was | the function body in `Blocks`, the nesting of files and functions in `Units`, the table of symbols in `Symbols` |
| emission contexts | `emit_helper.h` 25-74 | stack of output contexts, two buffers each, the text | begin and end of a function | the code of a function is put out once, whole and in order | `TextOutput`, `Output` |
| assembly backends | `asm-x86_64.c`, `asm-aarch64.c` | output buffers | one `emit_*` per operation | frame, saved registers, operand order | `AsmX86`, `AsmArm`, `Backends`, `Frames`; registers written and saved in `Blocks` |
| binary backends | `bin-x86_64.c`, `bin-aarch64.c` | one body and one prologue buffer, code, labels, fixups, function symbols, entry | the same with machine code, `bin_emit` | as above, and a branch or call lands where its name says; the bytes are the listing's instructions | `BinX86`, `BinArm`, `Backends`, `Frames`, `BinOutput`, `Output` |
| executable writers | `bin_emit`, `exe-*-*.c`, `exe-macho.c`, `emit_helper-*-exe.h` | imports and the calls of them, offsets of names, the layout of the file | names, hash table, headers, stubs, tables for the loader, patched calls | no table lies over another; a reference leads to what the program names, by way of the loader | `Image`, `ElfFile`, `PeFile`, `MachOFile`, `Executables` |
| containers, arena | `arr.h`, `dyn.h`, `allocator.h`, `buffer.h` | length, capacity | push, pop, grow | no write past the capacity | `targets`, `local_ids` as sequences |
| diagnostics | `diagnostics.c` | error flags | `compile_err`, stack diagram | pure output | no |
| host interface | `asm-linux.c`, `asm-macos.c`, `asm-windows.c` | none | running assembler and linker | pure input and output | no |

**How they interact.** `compile` calls `function` until the source ends. `function` clears
`local_ids`, opens the signature, and calls `parse_block`, which takes lines from `tok` and
dispatches each to one handler. Two handlers, `decl_vars` (a multi-line declaration) and
`anonymous_bcond` (a branch block), call `parse_block` again; everything they keep meanwhile
lives in C stack frames and in `context`. `tok` looks exactly one line ahead: at a line end
it compares the indentation of the *next* line with that of the line just read and leaves
`SOB` or `EOB` in the token. `parse_block` turns that into pushes and pops of `local_ids` and
`nreg_mark`. The backends are called in between and write to the buffers of the current
output context; when the body is finished the prologue is put before it.

**What is hard here.** No two parts run at once and nothing survives a crash. The hard
behaviours are protocols over long call sequences: stacks pushed and popped by different
functions, a pointer into a table kept across a whole block, a value computed after the block
that it describes has gone, checks made in the order of the lines about paths that branch,
and tables at their limits; and, in the code that is written, registers with two uses at once,
values of two widths in one instruction, and immediates and offsets at the limits of their
fields. `PROJECT.json` lists them as hazards, each at its line.

## Modules

| module | role |
|---|---|
| `Blocks` | `parse_block` and everything it keeps in step, one action per kind of line |
| `LexicalBlocks` | what indentation promises by `specs/grammar.md`; `Blocks` implements it |
| `Flow` | `Blocks` together with the run-time paths through the code it emits |
| `HashTable` | the probing tables, one step per turn of the loop |
| `Dictionary` | a partial map with a capacity; `HashTable` implements it |
| `Units` | `compile`, `function`, `skip_function` and `#compile_all`: files within functions within files |
| `Output` | what an emitter promises: each function put out in one piece |
| `TextOutput` | the contexts of `emit_helper.h`; implements `Output` |
| `BinOutput` | buffers, labels and fixups of the binary backends; implements `Output` as long as `#compile_all` comes first |
| `Emitters` | `Units` with both emitters |
| `Symbols` | `fn_ids` over the import and the compilation of a program of two files |
| `Types` | base types, declarators, `reg_t` |
| `Machine` | registers, flags and memory of the processors, and their instructions (not part of the repository) |
| `AsmX86`, `AsmArm` | the functions of `emit.h` as the assembler backends write them |
| `BinX86`, `BinArm` | the same as the binary backends encode them |
| `DecodeX86`, `DecodeArm` | how the processors read those bytes and words (not part of the repository) |
| `Conventions` | the registers of each calling convention, the two listings given one, what a comparison is to say |
| `Backends` | every call of `emit.h` with the operands the parser can give it, on both backends of both processors |
| `Aggregates` | `Backends` with struct and array literals |
| `Bounds` | `Aggregates` with checked accesses, tags, comparisons that branch, conditional returns |
| `Frames` | prologue, body and epilogue of one function on the three targets |
| `Image` | calls and string literals as the binary backends note them, `bin_emit`, and what the writers have in common |
| `ElfFile`, `PeFile`, `MachOFile` | the writers, and what the processor and the loader make of their files |
| `Executables` | `Image` with the three writers |
| `ParserProofs` | theorems about `Blocks` (registers; indentation, targets and the refinement of `LexicalBlocks`) and about `Flow` |
| `ConventionsProofs` | lemmas about `Machine`, `AsmX86` and `AsmArm`: what the listing of each function of `emit.h` leaves |
| `BackendsProofs` | theorems about `Backends`: every call |
| `HashTableProofs`, `EmittersProofs`, `FramesProofs`, `SymbolsProofs`, `ExecutablesProofs` | theorems about these modules |
| `MCBlocks`, `MCFlow`, `MCHashTable`, `MCEmitters`, `MCSymbols`, `MCExecutables` | model values, symmetry, slot functions and small programs for TLC |

### Blocks

One behaviour is the compilation of one function: `main` (`base` = 0) or a function with a
signature (`base` = 1). The program text is not stored. At each line TLC chooses the kind of
line, the indentation of the line after it and whether the source ends there, which is all
the look-ahead that `tok` has; so the behaviours are all programs within the bounds.

| variable | code |
|---|---|
| `base` | `context->indent`, the indentation of the body |
| `cur_indent`, `indent`, `eob` | `cur_token.indent`, the global `indent`, `cur_token.eob` |
| `more`, `ended` | `src->cur < src->end`, `context->ended` |
| `phase` | where in `parse_block` control is: in the signature, at the head of the loop, at a line, behind the line, behind `end_of_block`, or stopped |
| `frames` | the calls of `parse_block` in progress and who made them; `block_indent` of each |
| `scopes` | `local_ids`, from the first table to `local_ids.cur`; an entry is a register offset and a width, width 0 a stack object |
| `nreg_count`, `max_nreg_count`, `nreg_mark` | the fields of `parser_context` |
| `targets` | `context->targets`: the table and name a target's `reg` points into, the register, `target_assigned` |
| `returns_on_exit` | the same field |
| `written`, `saved` | the named registers that emitted instructions write; those that the prologue pushes |

Lines are `Plain` (an expression), `Ret`, `RetIf` (`condition -> ret`), `Let` (`Name :: value`), `LetStack`
(`[Name] :: value =[]`), `OpenLet` and `OpenStack` (the same with a block), `OpenBranch`,
`Assign` (`value =`), `Store` (`value =[]`) and `AssignTo` (`value =Name`). A handler's
diagnostic is `LineError` or the error branch of the action. The first diagnostic ends a
behaviour: a compilation with a diagnostic exits with 1, so that the code emitted after it
is of no interest. `phase = "abort"` is the `abort()` of `arr_mini_hashset_push`.

The signature is kept as a phase of its own because parameters take registers too, in a
table that no mark separates from the body's own.

### LexicalBlocks

The promise: when a line at indentation *k* is parsed there are *k* + 1 tables of names, every
opened block whose opening line is at *k* or deeper has been ended (its label emitted, its
value taken), and a table is dropped only after the blocks within it. It knows nothing of
tokens, of recursion or of when the parser looks ahead. The refinement mapping reads `open`
off `frames` and `names` off `scopes`.

### Flow

`Flow` adds what the emitted code does when it runs: whether a path that has not returned
reaches the current line (`reached`), and which registers some such path has not assigned (`unset`). A
branch block remembers both at its condition and joins them at its label (`joins`); the block of a
declaration lies on the path itself. A declaration's register is unassigned from its opening line on,
until a `value =` gives it a value on the path the line is on. `ret` ends the path it is on; after
`condition -> ret` (`RetIf`) the path on which the condition fails goes on, while the code takes the line for a
`ret` (`returns_on_exit`). Declarations and branches may stand in each other in any way.

Both checks of the code go by the order of the lines, so each is stated with what it lets pass.
`UnsetReadsDiagnosed`: whatever blocks were opened, left and joined before a line, the read of a visible name whose
register some path has not assigned is diagnosed by `check_unassigned`, but for two kinds of names: the
declaration of an outer block that has no value yet (`UnassignedOutside`; `main.c` 836 looks at the innermost
only), and a name whose only values stand in branches of its declaration's block (`partly`;
2541 sets `target_assigned` on whichever path the line is). The code accepts both against README.md:16, where
an uninitialized value takes an `undefined`. That there is no third kind rests on
each declaration's block being left with a value (2471-2473), on every scope giving its registers back, and on the joins.
`TailReturns`: a function with a value is accepted with a path that returns nothing for two forms of
its last line only, a line of a deeper block and a `condition -> ret` (the form of `tests/ret_oneliner.al`,
which goes on with `ret 2`).

### HashTable and Dictionary

`HashTable` is the loop shared by `find_entry` (`mini_hashset.h`), `const_hashmap_find_index`
and the tables of `hashmap.h`. They differ in size, in the way a probe goes on (`%` or `&`)
and in their operations: the constants `Buckets`, `Succ` and `Operations`. `Hash` gives each
key its first slot, so that the collisions of a run are chosen. `Clear` is the reuse of a
table by a later scope, which invalidates keys and leaves values where they are. `Dictionary`
answers each call in one step from a map.

### Units, TextOutput, BinOutput and Emitters

`Units` is the driver above the block parser. `#compile_all` is a line of a function, usually
of main, and compiles another file on the spot: `skip_function` passes over the part of the
file before its first function and follows the directives there, then `compile` runs
`function` on each function of the rest, and the outer function goes on. `files` and `fns`
are the C stack of `compile`, `skip_function` and `function`: a file knows how many calls of
`function` it was opened within, so that the two sequences say which call is the innermost. A
function's record holds what its `parser_context` and its open branch blocks contribute to
the emitter: the next unnamed
label, the labels that are still to come, `has_branched_ret`. `locals` says whose names the
global `local_ids` holds. The files are not stored: TLC chooses each line as it is reached,
and every function name is begun at most once (two definitions of a name are diagnosed).

Both kinds of backend are driven in the same way. `TextOutput` has one action each for
`emit_fn_begin`, the emission of a line and the end of a function, and keeps `contexts` and
`context` apart from the buffers themselves, as the code does: which buffer a line goes to and
which buffers are put out are two different pieces of state. `BinOutput` has
one body for all functions; branches and calls note a fixup, and `labels` and `fixups` hold
offsets in the body until `emit_fn_end` adds where the body landed (`Place`). `Target` is the
resolution in `bin_emit`. An instruction is known by its function and its number there, so
that a property can say where a branch ought to land without trusting the offsets. String
literals, which are fixups as well, are in `Image`; both architectures have
the same structure, in bytes and in words.

`Emitters` feeds one program to both. They do not interact; together they are checked over
one state space and, above all, on the same programs.

### Symbols

The program is two files, `text["main"]` and `text["lib"]`, each a sequence of the lines that
concern `fn_ids`. `import_all_from` reads the main file once: signatures are entered
(`ImportSignature`), names that are called become placeholders (`ImportCall`), and the pass ends
at the end or at `#no_import_all_self` (`ImportEnd`). Then `compile` goes through it again, and at
a `#compile_all` through the other file, of which `skip_function` passes over the main part and
follows only `#declare` (`SkipDeclare`, `SkipLine`). `label_meta` is one operator used by all of
them: it completes a placeholder, accepts what agrees in kind and in the number of parameters,
and refuses the rest. `CallFunction` is `fn_call` with the check of its arguments.

A call without arguments does not become a placeholder in the code unless a blank follows the
name; the lines of the model are written with the blank. Files are included one deep (`Units` has the
nesting); functions return what the line of their definition says, so that the check at their
`ret` is against the signature in the table.

### Machine, the backends and Backends

`Machine` runs sequences of three-operand instructions on registers, flags and a small memory.
Both processors' instructions are records of the same form; `Bad` is a line that the assembler
refuses or bytes that are no instruction. `AsmX86` and `AsmArm` give for each function of
`emit.h` the instructions its listing has; `BinX86` and `BinArm` give the bytes or words of the
binary backends, which `DecodeX86` and `DecodeArm` turn into instructions again. So the four
backends meet on one machine.

A behaviour of `Backends` is one call: an action per function of `emit.h` chooses types,
registers and constants among those the parser hands over, and sets `meant` (what the call is
for, from the values before it), `listed` (the machine after the listing) and `coded` (after the
binary). Before the call, variables are in named registers as the convention leaves them
(`Loadable`): a register written at four bytes has a cleared upper half, and on aarch64 a narrow value
is extended to four bytes. `Cmp` and `CmpReg` are followed by `CondSet`.

`Aggregates` adds `StoreLiteral` and `MakeLiteral`: the parser's recursion over the members
(`store_struct`, `make_struct`) is translated with the backend as a parameter, and what
a literal is for is computed from the layout the grammar describes (`Leaves`), not from the
code's offsets. `Bounds` adds the code around an access that may fail. An access is for leaving,
with a value in the return register, when the index is outside the object as a number of its own
type, and for the element otherwise; `Leave` is a conditional branch out of the code at hand. A
slice is two variables, its address and its length: `InitSlice` gives the machines that hold one, with
an index and an end from `IndexValues` and `EndValues`, beside those that `Init` gives with two `Samples`.

### Frames

One behaviour is one function, from its entry to its return. `fn` is what the parser counted:
named registers, bytes of locals, whether it calls. Addresses are depths below the stack pointer
on entry, and every word and register holds the name of the register whose value on entry it
still has, or `Named`, `Local` or `Junk`. Each push, pop, `stp`, `ldp` is an action, with
the offset that the instruction's field can hold (`Field7`, `Field12`); the body in
between sets named registers, stores locals and makes calls, which leave junk in everything below the
stack pointer. The assembler and the binary backend of a target build the same frame.

### Image, the writers and Executables

`Image` begins where `BinOutput` ends: functions have their places in the code, and every call and
literal has its fixup with the site of its instruction. `bin_emit` is a step for each fixup. A defined
function or a literal is filled in (`ResolveCall`, `ResolveString`); another function gets a number in
`imports`, and its call is left to the writer (`ResolveImport`). `word` is what each fixup's instruction
holds.

A writer then puts down the names one by one (`StartNames`, `ImportName`), and for ELF the symbols into the
lists of the hash table (`HashSymbol`); the layout, the tables, the stubs and the patched calls follow in one step
(`Write`). The operators of the layout have the names of the code's variables. A file is
`parts` (what is written where), `segments` (where it is in memory) and `pieces`: what is at an offset
that something refers to, with the numbers the code computes for it: displacements, page differences,
offsets of names, indices of symbols. `Starts` and `Reaches` are the other side, not part of the
repository: what the processor does with a displacement and how ld.so, Windows and dyld
get from a slot to a name. For ELF a call must arrive when all is bound at the start as well as
when each function is bound at its first call, through the first entry of the PLT.

Addresses are relative to the base of the image, but for ELF's `LOAD_BASE`. The layouts that the model gives
for x86-64 ELF files agree with `readelf` on files the compiler wrote.

## Runs

| run | shows |
|---|---|
| `blocks` | all programs of two interchangeable names, three levels of indentation, values of one and two registers, a machine of two registers and three tables: types, `NestedRegisters`, `RegistersDisjoint`, `CalleeSaved`, `LinesInTheirBlock`, `TargetsLive`, `TargetsAreDeclarations`, and `Blocks` implements `LexicalBlocks` |
| `flow` | with blocks in each other in any way: the read of a register that some path has not assigned is diagnosed, but for the two kinds of names above (`UnsetReadsDiagnosed`), and a path without a value reaches the end only past one of the two forms of last line (`TailReturns`) |
| `hash_table` | four slots, five keys, three of which collide at the last slot: the invariants of the table, `AbortOnlyWhenFull`, and the refinement of `Dictionary`, its liveness included |
| `emitters` | files three deep, main and two functions begun at any point, a `goto` label, branch blocks, returns by branch, calls of functions defined before, after and nowhere: `TextInOnePiece`, `CodeInOnePiece`, `BranchesLand`, `CallsLand`, `EntryIsMain`; the limits of contexts, code, labels and fixups are all met |
| `backends` | for every operand and literal outside the families below, a call of `emit.h` does what it is for (`DoesWhatItIsFor`) and changes nothing else (`VariablesKept`), on x86-64 with the Linux and the Windows registers and on aarch64; every line is an instruction (`AllInstructions`); the binary does what the listing does (`SameEffect`); a checked access, tag or comparison leaves exactly when it should (`ChecksDecide`); arguments already evaluated stay (`ArgumentsKept`) |
| `frames` | frames of up to eight registers and of locals around the alignments, with and without calls, on the three targets: `FrameRestored`, `CallsAligned`, `LocalsKept` |
| `symbols` | programs of up to three lines besides the directives, over two files, two names and three signatures: calls put out agree with every signature (`CallsAgree`), legal programs are accepted in every order of their lines (`AcceptsLegal`), no function is lost (`EveryFunctionCompiled`) |
| `executables` | programs of up to four calls and string literals in any order around two functions, with up to four imports, as ELF for x86-64 and aarch64, PE and Mach-O: the tables keep their limits, and of names beyond theirs no file is made (`TypeOK`), no part of a file lies over another or outside its segment (`PartsApart`), every start, call and literal leads to what the program names (`ReferencesLand`) |
| `blocks_saved` | finding: registers the x86-64 prologue does not save |
| `hash_const_hang` | finding: the mask of `const_hashmap` |
| `binary_late` | finding: code lost by the binary backends at a `#compile_all` |
| `backends_chain` | finding: a narrower operand later in a chain, on x86-64 |

**Bounds.** `MaxLevel` is the deepest indentation, `MaxDedent` the units one line end closes
inside a function. `MaxDepth` is `MAX_DEPTH` (7 in the code) and `NregCap` the named registers
of the machine; both are real limits of the code set low, so that the abort at the table
limit and the diagnostic for a missing register occur. Three levels contain a block in a
block in a body, a block closed and another opened in its place, and every pairing of branch
and declaration blocks. Two names are enough for shadowing, redeclaration in an inner block
and a pending declaration beside a finished one. Two registers with widths 1 and 2 make
overlap and exhaustion possible.
`MAX_BLOCK_DEPTH` (10) cannot be reached, since the tables run out first, and neither can
`nreg_count` (a `u8`) wrap, since the machine's registers run out first. `flow` has the same three
levels and tables with values of one register: a declaration in the block of another, a branch in a declaration's
block and a declaration in a branch all occur, and so do both kinds of reads that the
code lets pass and both forms of last line.

In `hash_table` five keys over four slots fill the table and leave one key out, and three
keys with one first slot make chains that go round the end. `hash_const_hang` uses the
real 26 and the real mask.

In the emitter runs `MaxFiles` is how many files are open at once, `MaxLines` and
`MaxPrologue` the instructions of a body and of a prologue, `MaxContexts`, `CodeCap`,
`LabelCap` and `FixupCap` the limits of the same names in the code, set low enough to be met.
Three files and two contexts make a function begin inside a function and the limit occur
at the third; two fixups are enough for a branch or call of an outer function to be pending while
an inner one is resolved, or for two in one function. `SmallProgram` drops programs whose
code cannot fit in `CodeCap` any more: they could only end in a diagnostic.

In `backends` a byte has two bits (`ByteBits`), so that a register of eight bytes has 65536
values and the extremes of every width are among the eight `Samples` (the largest values of one,
two, four and eight bytes, the sign bits of two and eight, small numbers); opcodes and
the fields of instruction words keep their real sizes. `Memory` of 32 holds the frame, an
object of 16 bytes and what surrounds both. `LiteralSamples` are the values literals are built
from, `IndexValues`, `EndValues` and `SliceLengths` give indexes below, at and
beyond the length, one with a low byte inside it (257), and negative ones when read as
signed. `Temporaries` and destinations cover each register class, and a chain's accumulator.

In `frames` `MaxRegs` = 8 is aarch64's limit (x86-64 has seven), `LocalSizes` has zero, the sizes
around each multiple of eight and sixteen and one beyond, and `Deepest` bounds the
stack; `FrameSound` does without these bounds.

In `symbols` three lines over two files make a call before, between and after two
signatures of its function, in its own file or the other; `#compile_all`,
`#no_import_all_self` and the `ret` of a main part come on top, at every place. `MCInit` drops programs
that define a function twice, which the code takes for a redeclaration, and lines after a `ret` that belong to no function.

In `executables` four fixups and `ImportCap` = 3 make the fourth import one too many, and `NameCap` = `ImportCap`, as
in the code (64 and 64), so that three imports and exit are one name too many for `sym_name_off`: ELF writes it all the same and
then refuses, where PE and Mach-O take them. `NameMost` = 3 (62 in the code) is as large as it may be, `NameCap`. `_Exit` is the name that msvcrt has otherwise,
`exit` is imported besides the writers' own, and `puts` may be a function of the program. `Hash` lets names share
lists. The code put out before, none or 4000 offsets (`CodeSizes`), puts the end of the code on both sides of a page
of 4096 bytes and of Mach-O's of 16384. Sizes of stubs, tables and pages are the real ones.

**What the bounds exclude.** `blocks` sets `MaxDedent` = 1: one line end closes one unit, or
ends the function or the source. With two the parser is wrong (see below). It
sets `BlockWidths` = {1}: with two-register values in multi-line declarations registers
overlap. `emitters` sets
`Late` = FALSE: a `#compile_all` comes before the other lines of its function, without which
the binary backends lose code (`binary_late`); `TextInOnePiece` does not need it
(`TextSound`). An included file leaves the global
`indent` at 0, so the line after the directive is taken to be at indentation 0: a line that
goes on deeper is refused by the compiler. A line that is more than one unit deeper than the one before
it, and an indentation that is no multiple of four, are not modelled: `tok` diagnoses the
second with a delay of one line.

`Beyond` in `Backends`, `Frames` and `Symbols` names families of programs that the code gets wrong;
a family that is not in the set is left out by a guard in the action it concerns, and putting its name
into the set of a configuration makes TLC show a counterexample. The passing runs have `Beyond = {}`.

| family | what it has in it |
|---|---|
| `bytes` | addition, subtraction and small shifts of one byte on x86-64: `lea` has no such form, and the binary encodes another instruction |
| `wide` | immediates and displacements beyond the instruction's field |
| `chain` | a chain with a narrower later operand, x86-64 (`backends_chain`) |
| `shift` | shifts by 2 and 3 in `bin-x86_64.c` |
| `halfword` | a 16-bit comparison with an immediate of more than 8 bits, x86-64 |
| `equal` | `is` and `isnt` with a narrower left operand |
| `sign` | an unsigned left operand and a wider signed right one: the condition is the unsigned one |
| `zero` | a zero stored by `bin-aarch64.c` into fewer than eight bytes |
| `stride` | the address of a 12-byte element on aarch64, which only shifts |
| `padded` | literals on the stack of structs with padding |
| `pointed` | a struct with an `addr` member, laid out by the size of what it points to |
| `structs` | literals of arrays of structs: each element advances by the whole array |
| `shared` | a struct that shares eight bytes with another member |
| `negative` | narrow signed registers as members: the sign reaches the neighbours |
| `half` | registers in literals of four bytes or less, x86-64 |
| `upper` | registers in the upper half of eight bytes of an array, aarch64 |
| `twelve` | structs of 9 to 15 bytes in registers |
| `returned` | a conditional return around an index narrower than the length, x86-64 |
| `computed` | a computed value stored through a check that returns, x86-64 |
| `argument` | a checked access or a constant minuend as a later argument: its temporary is the register of an earlier one |
| `short` | an index type that does not reach the length of the array |
| `end` | `Slice * ..J`: the address is computed from the frame |
| `large` | aarch64 frames whose locals put the saved registers out of the seven bits of `stp` |
| `shadow` | Windows callees that store into their shadow space, which is where the locals are |
| `foreign` | callees compiled elsewhere, which may change r10 and r11 |
| `placeholder` | a call of a name that is nothing but called so far |
| `label` | a call of a label |
| `retyped` | a declaration and a definition with as many parameters of other types |
| `headless` | an included file whose main part has no `ret` after its first line |
| `forward` | a call before the definition in an included file |

**Fairness.** The parser and the code it writes have none: its properties are safety properties, and it may stop
anywhere because the source may. `HashTable` has weak fairness on the turns of the probing
loop, since a call is a loop of the only thread and nothing can keep it from its next turn.
No fairness is assumed of `Begin` and `Clear`: nobody has to ask for anything.

## Findings

Each is a run of TLC that must end with a violation, and quotes in `PROJECT.json` the
sentence of the repository that the code contradicts. All were confirmed with the compiler
where it could be run.

1. `blocks_saved` - the x86-64 prologues push `nreg_count` registers, the count at the end of
   the body. Registers used only in a block already left are clobbered for the caller. The
   AArch64 prologue uses `max_nreg_count`; `Blocks` with `SaveMax` = TRUE is that one.
2. `hash_const_hang` - `index &= 25` visits few slots: with constants in slots 0, 1 and 2 a
   lookup never ends. (Two constants are already enough for "hash table is full".)
3. `binary_late` - the binary backends have one body buffer, which `emit_fn_begin` empties:
   what a function emitted before a `#compile_all` is gone. The assembly backends keep it.
4. `backends_chain` - `A + B - C` with a narrower `C` computes `C - C` on x86-64: `C` is widened
   into the register that holds `A + B`.

### Disagreements without a run

The following were met too, most of them with the compiler, and have no run of their own. Those
in the table above come back with their family.

* One `EOB` stands for any number of closed units and `parse_block` pops one table: after a
  dedent of two units the next line is parsed inside the outer block (`Blocks` with
  `MaxDedent` = 2 breaks `LinesInTheirBlock`).
* `Name ::` with a block counts one register before the value is known (`BlockWidths` = {1, 2}
  breaks `RegistersDisjoint`).
* `check_unassigned` looks at the innermost declaration only, and an assignment in a branch counts for the
  path past it: with either, a register is read that has no value, without `undefined`
  (README.md:16). `UnsetReadsDiagnosed` fails without its exceptions `UnassignedOutside` and `partly`.
* With all 26 slots of a scope taken, looking up a name of an enclosing scope aborts.
* `function` clears `local_ids` on entry, nested or not: after a `#compile_all` the outer function
  has lost its names and sees those of the last included function (`locals` in `Units`).
* The airity check takes a function whose last line is `condition -> ret 1`, or a `ret` in a branch
  block, though the path past the condition returns nothing (2696; `TailReturns` fails without its two exceptions).
* `[Slice * I ! ret 99]`, which `specs/grammar.md` (332) calls "return 99 on failure", returns the index when
  it is narrower than the length, on x86-64: it is widened for the comparison in the register that already
  holds 99 (`returned`).
* `literal_string` (`main.c` 366) looks at the first character of the token at every position: with the
  binary backends, which take the string unescaped, `tests/hello.al` prints fourteen quotes.
* With 64 imports `write_dynamic_elf` has a 65th name, for `exit`, and writes past `sym_name_off` before
  it finds that there are more than 62. The model does the same (`Overrun` in `ElfFile`); what lies behind the array is
  not modelled. `TypeOK` shows that no hash table and no file is made of such names.
* A file that includes itself is reported as "max contexts reached" and compiled on until the C
  stack is used up.
* "incorrect redefinition of fn" leaves `context->symbol` NULL, and `function` then reads it.
* `#no_import_all_self` after a `#declare` is not diagnosed: only `stmt_label` sets `symbols_any`.
* `ret -1` in a function that returns an `i64` moves -1 into the lower half of the register.
* `X + 1 =[Buf * I ! ...]` is refused, while `X + Y =[Buf * I ! ret 99]` stores 99.

## Theorems

TLC checks the instances above; TLAPS proves the following for every value of the constants
that satisfies the modules' assumptions.

| theorem | statement | besides the modules' assumptions |
|---|---|---|
| `ParserProofs!TypeCorrect` | `Spec => []TypeOK` | none |
| `ParserProofs!SharesSound` | `Spec => []NestedRegisters` | `BlockWidths = {1}` |
| `ParserProofs!RegistersSound` | `Spec => [](NestedRegisters /\ RegistersDisjoint)` | `BlockWidths = {1}` |
| `ParserProofs!PrologueSound` | `Spec => []CalleeSaved` | `SaveMax` |
| `ParserProofs!LinesSound` | `Spec => []LinesInTheirBlock` | `MaxDedent <= 1` |
| `ParserProofs!TargetsSound` | `Spec => []TargetsLive` | `MaxDedent <= 1` |
| `ParserProofs!DeclarationsCounted` | `Spec => []TargetsAreDeclarations` | none |
| `ParserProofs!LexicalSound` | `Spec => ImplementsLexicalBlocks` | `MaxDedent <= 1` |
| `ParserProofs!FlowTypesSound` | `FlowSpec => []FlowTypeOK` | none |
| `ParserProofs!TailSound` | `FlowSpec => []TailReturns` | `MaxDedent <= 1` |
| `ParserProofs!ReadsSound` | `FlowSpec => []UnsetReadsDiagnosed` | `MaxDedent <= 1`, `BlockWidths = {1}` |
| `HashTableProofs!TypesSound`, `KeysSound`, `AbortSound` | `Spec => []TypeOK`, `[]StoredOnce`, `[]AbortOnlyWhenFull` | `Succ` goes round all slots (`Cyclic`) |
| `HashTableProofs!TableSound` | the three and `ChainsUnbroken` | `Cyclic` |
| `HashTableProofs!MapSound` | `Spec => Map!Init /\ [][Map!Next]_(Map!vars)`, the safety part of `ImplementsMap` | `Cyclic` |
| `EmittersProofs!TextSound` | `EmittersSpec => TextInOnePiece` | none |
| `EmittersProofs!CodeSound` | `EmittersSpec => CodeInOnePiece` | `~Late` |
| `EmittersProofs!BranchesSound`, `CallsSound`, `EntrySound` | `EmittersSpec => []BranchesLand`, `[]CallsLand`, `[]EntryIsMain` | `~Late` |
| `EmittersProofs!EmitterTypes` | `EmittersSpec => []TypeOK` | `~Late` |
| `FramesProofs!FrameTypesSound` | `Spec => []TypeOK` | no `large`, no `foreign` |
| `FramesProofs!FrameSound` | `Spec => []FrameRestored` | no `large`, no `foreign` |
| `FramesProofs!AlignmentSound` | `Spec => []CallsAligned` | no `large`, no `foreign` |
| `FramesProofs!LocalsSound` | `Spec => []LocalsKept` | `Beyond = {}` |
| `SymbolsProofs!TypeSound` | `Spec => []TypeOK` | none |
| `SymbolsProofs!CallsSound` | `Spec => []CallsAgree` | no `placeholder`, no `label`, no `retyped` |
| `SymbolsProofs!AcceptsSound` | `Spec /\ Regular => []AcceptsLegal` | no `forward`, no `headless` |
| `SymbolsProofs!CompiledSound` | `Spec /\ Regular => []EveryFunctionCompiled` | no `forward`, no `headless` |
| `BackendsProofs!CallsDo` | `Spec => []DoesWhatItIsFor` | `Beyond = {}` |
| `BackendsProofs!CallsKeep` | `Spec => []VariablesKept` | `Beyond = {}` |
| `ExecutablesProofs!TablesBounded` | `Spec => []TypeOK` | none |
| `ExecutablesProofs!ExecutablePartsApart` | `Spec => []PartsApart` | none |
| `ExecutablesProofs!ReferencesSound` | `Spec => []ReferencesLand` | none |

The assumptions are the boundary that the findings and hazards draw: without `BlockWidths = {1}`,
`SaveMax`, `Cyclic`, `~Late` or the absence of the families, TLC shows the conclusion false. `MaxDedent <= 1`, a bound of the model that the runs have as well, leaves out lines
that close several blocks at once, where `end_of_block` falls behind the indentation (see the findings).
`Regular` says where the directives of a program stand: one `#compile_all` at most, in the main file;
one `ret` that ends the main part of the other file. All programs of the run are regular.

*Types.* `TypeInv` adds to `TypeOK` what the tail operations need: `frames` and `scopes` are
never empty, the bottom frame is the function, and a declaration frame has a target to pop.

*Registers.* Disjointness is not inductive: that a fresh register is free depends on where all
live declarations lie, and freeing registers at a block's end depends on which table is
dropped with them. `RegInv` states that table *i* owns the registers between the mark it was
opened at and the mark the next was opened at (`NestedRegisters`), that the marks are ordered
and below `nreg_count`, that within one table no two names overlap, and that each pending
target's register is the one its table has. Disjointness across tables follows since the
shares are disjoint.

*Indentation.* That a line is parsed in its block is not inductive, because the number of tables follows the
look-ahead: after a line the lexer has read the next indentation already, before `end_of_block` and
`start_of_block` have acted on it. `StructInv` says for each phase how many tables there are and which call of
`parse_block` is innermost: calls are nested as their blocks are (`CallsNested`), all but the innermost have
read a line, and `eob` says whether the tables are one ahead, even or one behind. `TargetInv` adds that
the targets are those of the open calls of `decl_vars`, at the table around each block, so that popping a table never
takes the entry of a target with it. The refinement follows from `StructInv` action by action: a line that ends
a block is followed by the `Close` of `LexicalBlocks`, the turns of the loop are stutters.

*Flow.* Registers are freed and taken again, so that "unassigned" has to be said of those in use. `UnsetInv`:
of the registers below `nreg_count`, counted as it will be when the block that has ended is left (`InUse`),
only those of declarations that wait for a value, and those in `partly`, are unassigned (`UsedAreSet`); and of what a
block has remembered for its join, the registers that are in use when that block is left are assigned or
excused in the same way (`JoinsAreSet`). When a declaration's block is left its target goes, with the excuse: there the check
of 2471-2473 has seen an assignment, on the path itself or in a branch. The proof needs `RegInv`, `StructInv` and
`TargetInv`: a new declaration's register is in use by no target. `TailInv` says that a line that counts as a
`ret` at the indentation of the body leaves no path, unless it is a `condition -> ret`.

*Prologue.* `SaveInv` bounds every written register, and every register that a pending target
or a visible name may still write, by `max_nreg_count`, which never falls. It needs no
assumption on widths: even overlapping registers are saved.

*Tables.* `TableInv` adds to the chains that a running probe has passed only occupied slots
that hold another key: between its start and its position. When it arrives at an empty slot
the key is nowhere, and when it is back at its start every slot is taken. For the refinement `MapInv` adds that
every occupied slot has a value: then the step that finds, adds or gives up is the answer of `Dictionary`, and each
turn of the loop before it is a stutter.

*Emitters.* Every step is first shown to be of one of seven kinds (`StepKinds`), among them
"the function in progress emits one instruction" and "none"; the rest of the proof is about
kinds. `TextInv` gives the buffers outright: a context for each function in progress with
exactly what the function has emitted, and `contexts` = 0, 1, 2 and so on, so that the context
in use is always the innermost function's. No assumption is needed: the text is right
wherever `#compile_all` stands. For the binary backends `CodeInv` says that the one body is
the code of the innermost function, which is kept when a function begins or ends only if the
functions around it have emitted nothing (`SilentInv`). `NestInv` is the discipline of files
and functions behind that: a file stands within as many functions as the file that opened it,
or one more.

*Frames.* The numbers of registers, the sizes of locals and the stack are arbitrary. `FrameInv` says for each
phase where the stack pointer is, which registers still hold their value on entry (`Intact`) and
at which depth each of the others is kept (`Held`), and that the locals are apart from all of
those (`LocalsApart`). On aarch64 it has to follow the
count of registers over the pair that the frame opens with, which is stored first and loaded
last. `BodyInv` adds what the body has stored. The rest is arithmetic: rounding to sixteen, and
offsets that fit the seven bits of `stp` (`ArmPlaces`).

Memory and registers are typed by the values they may hold rather than by integers, which is what makes
a load from a place outside the frame visible to `FrameTypesSound`.

*Symbols.* Agreement of all calls with all signatures is not inductive, since a signature may come
after the call. `TableInv` puts the table between them: every accepted signature has the
parameters that the table has, and every call takes them. A name that only a placeholder stands
for has neither. That legal programs are accepted takes the places of the two readers (`PlaceInv`: the other file is read
from its first line to its last between the `#compile_all` and the line after it, and skipped up to the end of its main part) and
`SeenInv`: every signature read so far is in the table, and every entry is one of the program's signatures. Then
each diagnostic shows two lines of the program that contradict each other, or a call of what is not known where
it stands.

*Executables.* `CapsAssumption` and `NamesAssumption` bound the tables and the names as the code
does; of `sym_name_off` they say only that it has room for the names the writer admits, not for those it writes. `TypeInv`
adds that there is a hash table, or a file without an error, only of names that were admitted, where the names of PE begin and how far those of Mach-O can reach. The
layouts follow by arithmetic (`StaticApart`, `DynamicApart`, `PeApart`, `MachOApart`): for ELF and
PE the writer checks the size of the file before it writes; for Mach-O, where the buffer is
allocated before the layout is known and `__LINKEDIT` has one page, `MachONumbers` shows that the
room suffices for 8192 instructions, 4096 bytes of strings and 64 imports.

*References.* Four invariants say what the writers find: functions and strings lie in the code that has been
put out (`PlaceInv`); each fixup `bin_emit` has passed has its value, or is a call it has noted, of the import
of that name (`CallInv`); names follow each other without meeting (`OrderInv`); the lists of the hash table run
towards smaller symbols, from a bucket that leads past every symbol (`ListInv`). `DoneInv` says of a
written file which one it is and that its calls are linked to the addresses its stubs have (`Linked`). Then
the file is read as the loader does. A lookup is well defined only because each piece of a table is alone at its
place: one lemma for each format (`MachOFinds`, `PeFinds`, `DynamicFinds`) places every kind of piece in a range of its
own, shows that within its range a piece is known by its index, and that both segments map its offset to the same
address. Each jump to a stub is followed from there to the name (`MachOReaches`, `PeReaches`,
`DynamicReaches`), on ELF on both ways ld.so may take. On aarch64 this needs that code, stubs and slots are
aligned: a call counts words, and the load from a slot counts eights within a page (`PagedLeads`).

*Calls.* `ConventionsProofs` says of each function of `asm-x86_64.c` and `asm-aarch64.c` what running its
listing leaves, and `BackendsProofs` puts that together with the operands of each action. The width of a byte
(two bits or more), the memory (32 bytes or more) and the values of the variables are arbitrary. Instructions of
different widths meet in one value, so the lemmas are about `Agree(x, y, n)`: two numbers that are the same in
their low `n` bytes. Sums, differences, products and shifts respect it, and a value that is extended
agrees with the register it came from. A comparison is decided from the flags by cases on the signs (`Ordered`), and
a store byte by byte (`Written`). That a call does what it is for is not inductive: `emit_cond_set` reads the flags that
an earlier `emit_cmp` set, and the value it gives is that of `meant`. `CallInv` therefore adds `Decided`: as long
as `meant` holds the outcome of a comparison, the machine after it has valid flags and every
variable as it was before. `CallsKeep` rests on what each convention's registers have in common
(`ClassFacts`): those the listings take for themselves are none of the variables, the frame or the stack pointer.
The powers of two, `Run`, `Bytes` and `Joined` are recursive functions; what is shown of them for every argument
goes by the least argument it could fail for (`LeastElement`).

The proof of `Cmp` found a case that TLC had not: `emit_cmp` of aarch64 writes every constant as an immediate, so that a
constant of two or four bytes that the instruction does not hold is in the family `wide`, as one of eight is. With bytes of
two bits the types of two and four bytes have no such constants. `ComparesTo` says so now for all of aarch64.

**Only model-checked.** Of `Backends`, what the binary backends write (`SameEffect`, and `TypeOK` and
`AllInstructions`, which speak of both machines): the bytes are decoded through sequences cut at every length an instruction
may have. The literals of `Aggregates`
and the checks of `Bounds` (`ChecksDecide`, `ArgumentsKept`) with the steps these add to `backends`: their parser code is
recursive over the members of a type. The liveness half of `ImplementsMap` and `LookupsEnd` are out of the prover's reach,
as is everything that uses ENABLED.
A line end that closes several blocks at once is outside `MaxDedent <= 1` and so outside these theorems.

## Not modelled

* The text of tokens, literals, messages and the stack diagram; files and processes.
* Division, shifts by a register, and strings in the listing.
* The fields of headers and section tables that nothing in a running program refers to, and the
  hashes of the Mach-O signature (their number is in `MachOFile`). `exe-elf.c`, which no build script uses.
* Dead-function elimination, which is off by default.
* Slices of slices and multi-dimensional arrays; reading a member of a struct, which is a load at a
  constant offset.
* What the compiler does after its first diagnostic, but for `ImportOverflow`, after which the file is still written.
* `value =Name` outside the declaration of `Name`: `AssignTo` has the step as the code takes
  it, for any visible name. `specs/grammar.md` calls a register immutable outside its own
  declaration block; the code has no such check.

## Plan

1. Done: `Blocks`, `LexicalBlocks`, `Flow`, `HashTable`, `Dictionary` and their theorems.
2. Done: `Units`, `Output`, `TextOutput`, `BinOutput`, `Emitters` and two refinement theorems.
3. Done: `Symbols` and its theorems.
4. Done: `Frames` and its theorems.
5. Done: `Machine`, the four backends, `Backends`, `Aggregates`, `Bounds`.
6. Done: `Image`, the three writers, `Executables` and their theorems.
7. Member access and multi-dimensional arrays; division.
8. Done: the proofs of indentation, flow, links, the refinements of `LexicalBlocks` and `Dictionary`,
   the acceptance of legal programs, and where references lead in a file (`ReferencesLand`).
9. Done: the proofs of the calls of `Backends` on the listings of both processors. The binary backends' encodings are
   left to `SameEffect`.
