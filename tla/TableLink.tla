------------------------------ MODULE TableLink ------------------------------
(***************************************************************************)
(* What becomes of the tables of mask.c.  A cell refers to a symbol such   *)
(* as CRYPTO_0x444d20_1337.  scanOne in lld recognises the name, keeps the *)
(* offset in the symbol's iscustomreloc, above the class 4, and renames    *)
(* the symbol to CRYPTO, which the library exports; the cell gets a        *)
(* relocation R_X86_64_CALLBACK_MAYBE.  computeRaw makes the offset its    *)
(* addend, and the loader adds the load address of the object that has the *)
(* symbol.  A symbol that has been renamed is not recognised again: its    *)
(* further references would keep their type, R_X86_64_64.                  *)
(*                                                                         *)
(* This module continues HeaderMerge; the cell &main is left out.          *)
(***************************************************************************)
EXTENDS HeaderMerge

CONSTANTS
    TagOf,      \* the tag in an entry's name
    OffsetOf,   \* the offset in an entry's name
    LoadAddr,   \* load address of the library with a tag
    TagValue    \* offset in that library of the variable its tag names

\* The offsets that fit the 24 bits iscustomreloc has for them.
OffsetSpace == 256 * 256 * 256

\* assert (dso_offset < 0xffffff)
MaxOffset == OffsetSpace - 2

ASSUME LinkAssumption ==
    /\ TagOf \in [Entries -> Tags]
    /\ OffsetOf \in [Entries -> 0 .. MaxOffset]
    /\ LoadAddr \in [Tags -> Nat]
    /\ TagValue \in [Tags -> Nat \ {0}]

VARIABLES
    scanned,    \* tables whose relocations lld has scanned
    custom,     \* iscustomreloc of the symbols whose name is now their tag,
                \* as low byte and the rest
    maybe,      \* cells with a relocation R_X86_64_CALLBACK_MAYBE
    memory      \* cells after loading

linkVars == <<scanned, custom, maybe, memory>>
allVars  == <<vars, linkVars>>

LinkInit ==
    /\ Init
    /\ scanned = 0
    /\ custom = <<>>
    /\ maybe = {}
    /\ memory = <<>>

\* Symbols the cells of table k refer to.
CellSymbols(k) == {s \in table[k] : s[1] # MainFn}

\* Mutant: iscustomreloc has 24 bits.
EncodedNarrow(o) == [class |-> 4, offset |-> o % (256 * 256)]

\* dso_offset * 256 + 4 in a uint32_t: the class in the low byte, 24 bits of
\* the offset above it.
Encoded(o) == [class |-> 4, offset |-> o % OffsetSpace]

\* scanOne for the relocations of one table.
ScanTable ==
    /\ pc = "done"
    /\ scanned < Len(table)
    /\ LET k   == scanned + 1
           new == CellSymbols(k) \ DOMAIN custom
       IN /\ scanned' = k
          /\ custom' = [s \in DOMAIN custom \cup new |->
                          IF s \in new THEN Encoded(OffsetOf[s[1]]) ELSE custom[s]]
          /\ maybe' = maybe \cup ({k} \X new)
    /\ UNCHANGED <<vars, memory>>

\* computeRaw makes the offset the addend; elf_machine_rela adds the load
\* address for CALLBACK_MAYBE, the value of the symbol otherwise.
CellValue(k, s) ==
    LET tag == TagOf[s[1]]
    IN LoadAddr[tag] + custom[s].offset
         + (IF <<k, s>> \in maybe THEN 0 ELSE TagValue[tag])

\* The sections are written, and the program is started.
Load ==
    /\ pc = "done"
    /\ scanned = Len(table)
    /\ memory = <<>>
    /\ memory' = [k \in 1 .. Len(table) |-> {CellValue(k, s) : s \in CellSymbols(k)}]
    /\ UNCHANGED <<vars, scanned, custom, maybe>>

LinkNext ==
    \/ Next /\ UNCHANGED linkVars
    \/ ScanTable
    \/ Load

LinkSpec == LinkInit /\ [][LinkNext]_allVars

\* The build and the start of the program run by themselves.
FairLinkSpec == LinkSpec /\ WF_allVars(LinkNext)

-----------------------------------------------------------------------------

\* Where the callback an entry names is in the running program.
AddressOf(e) == LoadAddr[TagOf[e]] + OffsetOf[e]

\* In the running program, the table of every tag holds the addresses of the
\* callbacks create_header.py put there and nothing else: each name survives
\* being split, encoded in 32 bits, renamed and relocated, whatever other
\* tables have the same callback.
MemoryHoldsCallbacks ==
    \A k \in DOMAIN memory :
        memory[k] = {AddressOf(e) : e \in Written(k) \ {MainFn}}

\* Every run ends with the program loaded, or with create_header.py's error.
LoadsOrFails == <>(pc = "failed" \/ (pc = "done" /\ DOMAIN memory = 1 .. Len(table)))

=============================================================================
