# PLaTypus in TLA+

PLaTypus restricts indirect calls between the modules of a process.  A compiler
pass rewrites indirect calls to `(target | or_mask) & and_mask`, with masks
that confine the call to the code of the calling object.  A call that may have to
leave the object goes through a *callback table* in the main program.  A modified
`lld` adds the stubs and relocations this needs, a modified `ld.so` places objects
so that masks are possible and fills them in, and Python scripts compute the tables.

This directory models that machinery in TLA+, checks it with TLC and proves the
central properties with TLAPS.

## Parts and modules

| Part | Source | State | Operations | Module |
|---|---|---|---|---|
| Choice of a call's form | `llvm-passes/BitMasks` | recursion, visited values | examine a call, search its origin, instrument | `CallOrigin` |
| Indirect calls | `BitMasks.cpp`, pads, masks | registers, destination | masked call, call that may ask, call that always asks | `IndirectCall`, refines `CallPolicy` |
| Callback pads | text emitted by `create_header.py` | registers, tables in memory | enter a pad, scan, test for exempt libraries, jump | `CallbackTable` |
| Masks | `dl-map-segments.h`, `dl-machine.h`, `BitMasks.cpp` | none | mask a target, compute the prefix | `Masks` |
| Log evaluation | `scripts/callback_parser.py` | `for_header_file` | add a callback, hand on, structures, globals | `CallbackParser` |
| Table generation | `scripts/create_header.py` | merged dictionary, declared symbols, tables | read an item, transfer, declare, write a cell | `HeaderMerge` |
| Tables through linker and loader | `Relocations.cpp`, `SyntheticSections.cpp`, `dl-machine.h` | symbol names, `iscustomreloc`, words in memory | scan a table, load | `TableLink`, continues `HeaderMerge` |
| Stubs and slots | `lld/ELF/Relocations.cpp`, `SyntheticSections.cpp`, `Symbols.cpp` | symbol classes and flags; `.got`, `.plt.sec`, `.fakeplt.sec`, `.got.plt`, `.rela.plt`; `SymbolAux` | scan a relocation (in parallel), visit a symbol | `PltLayout` |
| Placement | `elf/dl-map-segments.h`, `dl-sysdep.c` | mapped pages, `addr`, `to_load`, link maps | move the main program, load, unload | `Placement` |
| Placeholder PLTs | `dl-reloc.c`, `dl-machine.h` | `search_dlsymed`, the two arrays, slots | relocate | `Placeholders` |
| Lookups at run time | `dl-lookup.c`, `dl-sym.c`, `dl-libc.c`, `nss_module.c` | `fake_map`, the load lock, NSS modules | `dlsym`, `__libc_dlsym`, `module_load` | `SymbolLookup`, continues `Placeholders` |

How they interact: the passes log possible callbacks; `callback_parser.py` turns
logs into `header.txt`; `create_header.py` turns that into `mask.c`, whose cells are
symbols `TAG_offset_1337`; `lld` turns each such symbol into a relocation (and can
do so once per symbol), and gives address-taken functions fake stubs; `ld.so`
places objects, computes masks and applies the relocations; at run time masked
calls stay in their object and callbacks go through the pads.

What is hard: slot numbers are recomputed from counters rather than stored; the
scan runs in parallel; all pads share the end of one loop; the place of an object
depends on every load before it, failed ones included; masks fit only code that
ends at a block boundary; two arrays of the loader are filled in different orders
and read with one index; lookups answer through a static variable.
`PROJECT.json` lists these hazards at their lines.

Each definition's source lines are in `PROJECT.json`.  Definitions introduced by
"Mutant" are deliberately wrong variants of the definition that follows; putting
one in its place must break a property.

**CallOrigin.**  One action per step of the recursion of
`resolveChainForAllowedStruct`: `Descend` is a recursive call, `Return` the end of
one, `Cut` the two early returns.  A value is a node, and is marked when the tests
on the value itself succeed, so a load, a phi and an address computation differ only
in the number of operands.  `Decide` and `Instrument` are the conditions of `run()`.

**IndirectCall** and **CallPolicy.**  `CallPolicy` says what is promised: a call stays
in the window of its caller, or it is asked for and then granted or refused
according to a policy fixed at link time.  `IndirectCall` has the three forms of
call, with `CallbackTable` for the pads and `Masks` for the words.  The mapping gives
each table the window of its library's masks and grants it its own entries and the
targets exempt by the command line.  A table without entries is unrestricted: its
scan runs on behind the table (`pad_empty`).

**CallbackTable.**  The pads, one step per loop iteration.  A table is its cells and
the 0x0 that ends it.  What lies behind is not for the source to say (a table of
nothing but 0x0 goes to `.bss`, one with cells to `.data`, and compiler and linker
choose the neighbours), so a read beyond the 0x0 gives any word (`Beyond`, `Contents`).
`dladdr` is the function `DsoOf`.  `regs` records which argument registers still hold
the caller's values.

**Masks.**  A word is the set of its one bits, so that the operations of the masked
call are union and intersection, and everything can be proved for any width.

**CallbackParser.**  The dictionaries filled while reading the logs are operators on
the log lines; `check()` is a state machine, because what it does with a callback
depends on which lists exist, and that on the order of a Python set.  A list is a
set.  Strings `TAG_0xoffset` are the tag and the thing at the offset (code, a second
function of the same name, a stub in one of the two sections).

**HeaderMerge.**  `parse_all_dicts_from_file` item by item, then `generate_files` cell
by cell.  Python lists without duplicates are sets; the occurrence number stands for
the suffix `make_varname_suffix` builds (the suffix is an injective function of it).
A Python dictionary literal with a repeated key keeps the last value at the place of
the first (`Effective`, `IsSource`).

**TableLink.**  After `mask.c` is written, `lld` scans its tables.  A symbol is taken
apart at the first relocation that meets it and has lost its suffix afterwards, so
a second relocation would be of another type (`CellValue`).  `iscustomreloc` is the
class and 24 bits of offset.

**PltLayout.**  One action per relocation scanned (`ScanOne`, any order) and one per
way `postScanRelocations` can treat a symbol.  Sections are sequences of symbols and
indices are the code's.  The order in which symbols are visited is arbitrary, which
includes every order of the symbol table.

**Placement.**  Addresses are page numbers.  This loses nothing: code is page aligned
and `num_bits_required` rounds to a multiple of 4, which the 12 bits of a page are.
`Mmap` takes its hint if there is room and otherwise an address out of `Picks`.
Failed loads leave their mapping behind and `addr` lowered, as the code does
("avoid unmap").  A load fails in the model when it does not get its place; failures
for other reasons are left out: `mmap` that fails although the place is free, and
`mprotect` or the `mmap` of a later segment that fails after `to_load` was raised
(`dl-map-segments.h` 108, 225-229, 252).  Starting `ld.so` as a program leaves
`to_mitigate` 0.  The call `munmap(init_addr, l_map_end)` is modelled as written: its length is an address, the
range leaves the address space, and the kernel refuses it.

**Placeholders** and **SymbolLookup.**  `Relocate` is one of libc's ten relocations
against a placeholder, through `resolve_map` and `elf_machine_rela`.  Only when all are
done do threads run.  A lookup and the read of what it left in `fake_map` are two
steps; `dlsym` holds the load lock over both and `__libc_dlsym` nothing; opening and
closing a library waits for that lock (`LoadLockFree`).  `module_load` is a step for each
stretch between two locks: a thread without memory for the name gives up before it
opens anything, one whose library does not open marks the module as failed, one that
runs out of memory during the lookups closes the library, and one that finds the
module loaded closes it with `nss_module_list_lock` held (`list_lock`).  A name is a
model value, with its first characters in `Stem`, because `dsym_` aliases lack the
last character of the name.

## Runs

| Run | Result | Shows |
|---|---|---|
| `calls` | pass | masks, pads and tables implement `CallPolicy`; pads answer; arguments survive |
| `pad_empty` | violation | the scan of an empty table passes over its terminator and lets through what it finds behind the table |
| `pass_forms` | pass | the search for a call's origin is sound, and complete where no value is reached by a path that is cut and by a short one; a call keeps to its library only if nothing says it may be given a callback |
| `parser` | pass | in every order of Python's sets, the lists have no functions but those the logs show to reach a library, and all of them where the script drops no line; the script stops only for a cause |
| `parser_getter` | violation | a library's function that is passed to another library is put on the wrong list |
| `tables` | pass | tables hold what `header.txt` says and no more, in `mask.c` and in memory; cells have distinct, declared symbols; the build ends |
| `header_order` | violation | transfers in another order, or two with one receiver, lose entries |
| `plt_stubs` | pass | shared object and executable: slots exact, one per symbol, outcome independent of the scan order, calls and taken addresses reach their symbol, masking stubs read the right `.got` entries |
| `plt_canonical` | violation | a canonical PLT value uses an index that counts two sections |
| `place_apart` | pass | code of one object is never reached by masked calls of another, calls inside an object are unchanged, loaded code stays mapped |
| `lookups` | pass | the placeholder arrays agree, lookups lead to the function asked for, NSS pointers are installed once and references balance, lookups end |
| `nss_race` | violation | two threads loading NSS modules: one caches the other's stub |

The violations are disagreements between code and the comment or document quoted in
`PROJECT.json`.  The related positive statements are checked under the condition
that excludes them and says so: `TransfersClosed` (`WellOrdered`), `JumpsAllowed` and
`StaysInTable` (`Filled`), `CallbacksListed` and `NothingElseListed` (`Separate`),
`LookupsRight` (`Racing`).  Each condition leaves out cases in which the code may go wrong,
and a property says nothing of them.  There are more: `ChainComplete` leaves out graphs
with a value that is first met where the depth limit cuts and again on a shorter path
(`Settled`), `ArraysAgree` relocations out of order (`InOrder`) and the tenth placeholder,
`LookupsRight` names that share a stem (`Clashes`), `ArgumentsKept` the fourth and later
arguments of a callback that is let through by the exception for libc, and
`CallbacksListed` logs of which the script drops something (`NothingDropped`, below).

Other things the models show and no run is about:

- An object without code is given address 0 by `_dl_map_segments`, and one aligned to
  more than a page loads only if the computed place happens to be aligned.
- `R_X86_64_GOTPCREL` is not among the types that take an address in `scanOne`.
- `placeholder10` is taken for `placeholder1`, and the tenth name is not found, so
  `ArraysAgree` is about nine.
- `dlsym` of a function that differs from an aliased one in its last character
  returns the alias of the other (`Clashes`).
- A getter of the binary may hand its callback on to several libraries: by several
  calls, in several structures, or in a structure passed to several.
  `callback_parser.py` serves the library of the first call (line 279), the first
  structure with a library (287) and of its libraries the last (`func_list[-1]`, 285);
  the lists of the others miss the callback.  Nor does it hand on functions the
  binary does not define.  `Reaches` counts every receiver the logs name, so
  `CallbacksListed` needs `NothingDropped`, that there is one for each way; without it
  TLC finds the missing entry in a log of one call and two `Function` lines.
- A function of a library found through a structure is listed under the tag of the
  library that receives it, with the offset it has in its own (lines 306-311);
  `Separate` leaves this case out.

Bounds.  `plt_stubs`: two functions, a placeholder, `__libc_start_main` and two masks,
every subset of the relocations of a shared object and of an executable, so that
functions with one stub, with the other and with both stand in any order, and the
counters of stubs, of both stubs and of slots differ from each other.  `tables`: three tags, two entries, two transfers, so chains,
repeated keys, tags without a table and an entry in all tables occur; one offset is the
largest the linker accepts.  `calls`: three tables, LIBC with up to three entries,
the second with up to two and the last with up to one, and targets inside and outside
each window.  `place_apart`: three loads
(`MaxLoads`) of six kinds of object, with a gap of 32 pages and code of up to 33, so
that windows would overlap without the gap; `Picks` contains pages in the way of a
first and of a later load.  The program starts in the upper half of 8192 pages, as a
position-independent one does, with room for three loads between it and `Picks`.  `lookups`: two threads in each combination of `dlsym` and
NSS loading, two modules, all ten placeholders in four orders of relocation and six sets of main's symbols, with gaps, a repeated
and an unknown name.  `parser`: two libraries, all logs of one or two out of
fourteen lines, those of three that begin with a call and end with another kind of
line, and a few longer ones (`MCLogs`), with up to two user-supplied lines, so that two
ways can meet in one list.  `pass_forms`: four values,
with `MaxDepth` 2 for the code's 8, so that cut paths, loops and shortcuts occur.

Deadlock is not checked: the linker and the scripts end, a pad may end in `hlt`, and a
program need not load or call anything more.

Fairness.  `FairLinkSpec` assumes weak fairness of the whole step: scripts, linker and
loader run by themselves.  `FairCallSpec` assumes it of `PadStep` only: a thread that
entered a pad goes on, and nothing obliges a program to call.  `SymbolLookup` assumes
it of `Continue` for each thread: begun lookups go on.  Taking the load lock is the
beginning of a `dlsym`, so a `dlsym` that waits has not begun.  Opening and closing the
library of a module do wait for that lock, and weak fairness is all that a lock
without queue gives: a thread can wait for ever while another calls `dlsym` again and
again.  `LookupsEnd` therefore has an alternative, that the lock is both free and taken
by others infinitely often, and TLC refutes it without.  What it rules out is a lock
that is never given back, and two threads that wait for each other: the load lock is
taken with `nss_module_list_lock` held, never the other way round.  `CallOrigin`,
`CallbackParser`, `PltLayout` and `Placement` have no liveness property.

## Proofs

Proved with TLAPS, for all values of the constants allowed by the named assumptions:
every invariant the runs check, one action property and the refinement of
`CallPolicy`.  A module `XProofs` has the proofs about `X`; `IndirectCallProofs` also has
those about `CallbackTable`, `TableLinkProofs` those about `HeaderMerge`, and
`SymbolLookupProofs` those about `Placeholders`, which these modules continue.  Few of
the properties are inductive as they stand; each entry names what had to be added.

- `IndirectCallProofs`, for the pads: type correctness, `JumpsAllowed`, `HaltsRightly`,
  `StaysInTable`, `ArgumentsKept`.  The invariant says that a scan has passed no cell
  holding its target (`Scanning`) and what an unsuccessful scan implies (`Passing`).
  For calls: `CallSpec` implements `CallPolicy` (`CallsImplementPolicy`).  Initial states
  map to initial states and each step to a step or a stutter; the pads' invariant gives
  that a pad grants or refuses rightly, and `MasksProofs` that a masked call ends in
  the window and leaves the targets in the window alone.
- `CallOriginProofs`: type correctness, `ChainSound`, `ChainComplete`, `AsksWhenItMust`, for
  any graph of values and any depth limit.  The stack is a path of distinct values from
  the root (`StackInv`), which gives soundness.  Completeness needs that an operand that
  has been looked at was visited or is far from the root (`ExploredInv`): the first
  unvisited value on a shortest path to a marked one would be neither, if all values
  are `Settled`.
- `CallbackParserProofs`: type correctness, `CallbacksListed`, `NothingElseListed`,
  `StopsForCause`, for all logs, libraries and iteration orders.  The invariant `LInv` says
  for each phase which functions are on the lists already: the callbacks of the getters
  visited (`CallsInv`), then those of structures, of globals and the possible ones
  (`PhasesInv`), where lists only grow (`Grows`); and that a cell was put there for a
  function that reaches the library (`SoundInv`).  The invariant speaks of the library the
  script hands on to, the property of all the logs name; `ReceiverFacts` connects the
  two.
- `TableLinkProofs`, for the script: type correctness, `CellsDistinct`, `NothingLost`,
  `TransfersClosed`, `NothingInvented`, `DeclaredAreUsed`.  The invariant says for each phase
  what has been done so far (`ReadSoFar`, `TransferredSoFar`, `WrittenSoFar`, `FedSoFar`);
  distinct cells need that every number in use was handed out (`Numbered`), declared
  names that the counter of an entry is the number of tables that have it and that no
  number was left out (`CountedSoFar`), so that the two passes count the same.
  For linker and loader: `MemoryHoldsCallbacks` (`TablesInMemory`).  `InTurn` says
  that linker and loader come one after the other and after the script, `Recognised`
  that exactly the symbols of the tables scanned so far have been taken apart, with
  the right offset.  That a table's symbols are still whole when it is scanned follows
  from `CellsDistinct`.
- `PltLayoutProofs`: type correctness, `SlotsExact`, `OneSlotPerSymbol`,
  `CallsReachTheirSymbol`, `AddressesReachTheirSymbol`, `OrderFree`, `MaskOffsetsRight`.
  `SlotsExact` is not inductive: the next slot has to be the combined index of the next
  stub (`CountInv`), saved positions have to find their stub (`PositionInv`), relocation
  *i* has to be that of slot *i* (`RelocInv`), and sections hold only visited symbols,
  once (`OwnerInv`).  `OrderFree` needs that class and flags are at every moment those of
  the set of relocations scanned so far (`ScanInv`), and stubs those of the symbols
  visited so far (`AllocInv`); `MaskOffsetsRight` that 0 still means "not recorded" for a
  mask not yet visited (`MaskInv`).
- `PlacementProofs`: type correctness, `OwnCodeFixed`, `CodeSeparated`, `CodeIsMapped`, for
  any objects, any number of loads and any width of addresses.  `find_addr` puts code
  at the end of a block of a power of two that is no shorter than the code
  (`FindAddrFacts`); then the masks leave every page of the code alone (`BlockKept`), and
  the window begins less than the size of the code below it (`BlockWindow`).  The
  invariant `PInv` says that every object with code is fitted in this way (`Fitted`), that
  each lies a gap below the one before it and `addr` is not above any of them, whatever
  loads failed (`CodeInv`), that the main program is where it was to go (`MainInv`), that
  loads stay above it (`ApartInv`: each uses up at most one `drop`), and that link maps
  without code describe pages from 0 up, below everything (`EmptyInv`).
- `SymbolLookupProofs`: `ReferencesBalance` and the action property `LoadedIsFinal`, for
  any finite number of threads and any modules; the balance is inductive together
  with the fact that a thread that is loading has a module (`ThreadInv`).  `ArraysAgree`:
  while relocations come in order, the search is at the same number as the relocation,
  or has stopped at a gap or after nine names (`ArrayInv`).  `LookupsRight` and type
  correctness: what a thread is about to read and has read is right (`RightInv`), because
  nobody else writes `fake_map` in between unless `Racing`; a module that is loaded has a
  thread that is not loading it (`LoaderGone`).
- `MasksProofs`: a masked call ends in the window of its masks and exactly the
  targets of the window are unchanged; masking is idempotent; masks that force one
  bit differently have disjoint windows; the masks computed from the first and last
  address of code leave every address between them unchanged if the last address
  ends in ones (`OwnCodeKept`); without mitigation masks change nothing (`Unmitigated`).

Where an argument is by induction on a number (bits, path lengths, positions), the
proof takes the least counterexample (`LeastNumber`, `Least`); powers of two are counted as
subsets (`PowerIsCount`).

Only model-checked: the liveness properties `LoadsOrFails`, `AnswersCalls` and `LookupsEnd`
(liveness is outside the prover's reach), and the five violations.

Assumptions worth knowing:

- `ObjectAssumption`, `MainAssumption`: no object has more code than the gap plus its
  offset (256 MB in the code), or than an address can count.
- `MainRoom`, a hypothesis of the theorems about placement: the place the main program
  is moved to is free when the process starts.  The code does not check it: the
  result of that `mmap` is not compared with the address the masks were made for
  (`dl-sysdep.c:172`), so this is assumed where the code should have looked.
- `Apart`, a hypothesis of `CodeIsSeparated` and `CodeStaysMapped`: the kernel maps objects
  so far above the main program that `MaxLoads` loads do not come near it, and an object
  without code does not reach up to the main program from page 0.  The code does not
  check it either; on a 47-bit address space a program at 0x55..., libraries at 0x7f... and
  256 MB a load leave room for more than 100 000 loads of usual size.  TLC evaluates
  both for the instance of `place_apart` (`RoomEnough`).
- `SymbolClasses`, `OneMaskEach`: a symbol has one class of name, and there is one `or_mask`
  and one `and_mask`, as the headers declare.
- `LinkAssumption`: offsets of callbacks pass the assertion `dso_offset < 0xffffff` of the
  linker (`Relocations.cpp:1659`).  A Release build, which `llvm-platypus/compiler.sh` makes,
  has no assertions: a larger offset loses its upper bits without a message there, and
  nothing is shown about it.
- `MaskAssumption`: `or_mask` has no bit that `and_mask` lacks, which holds of the masks the
  loader computes.
- `ParserAssumption`: every tag of a library, LIBC among them, has its set of reachable
  structures, possibly empty, and FINI and THREADKEY are not tags of libraries.
- `PlaceholderAssumption`, `LookupAssumption`: libc relocates each placeholder once; a module
  has at least one function to look up; "no name" and "no thread" are neither.

## Not modelled

- `FindDynSym`, `LogStructs`: heuristics that print a line for an instruction they
  recognise and keep no state.  What they print is the input of `CallbackParser`.
- The build scripts: they run the tools in a fixed order.  That the offsets taken
  from one link are still right after the next depends on where the linker puts the
  sections of `mask.o`, not on any state the repository keeps.
- The machine code of the stubs and the backend's rewriting of jumps: fixed text and
  local rewriting.  Nothing ties `r11` to the call that follows it; the models take the
  target to arrive.
- `parse_output.py`, `parse_structs.py`, `annotation.py`: text extraction.
- Some lookups: `dlsym` with `RTLD_DEFAULT` and `RTLD_NEXT`, `dlvsym`, `nscd`, the NSS
  modules built into libc, and those made while relocating a library that is being
  opened.  The looked-up name goes through the same `_dl_lookup_symbol_x`, so another
  thread's unlocked read in `__libc_dlsym` can meet them as it can meet a `dlsym`.
- The rest of glibc and LLVM, which Platypus leaves as it is upstream.
