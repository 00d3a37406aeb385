------------------------------ MODULE PltLayout ------------------------------
(***************************************************************************)
(* Stub and slot allocation in the Platypus linker (lld/ELF).              *)
(*                                                                         *)
(* scanOne classifies every symbol from the relocations that name it, in   *)
(* whatever order the parallel scan meets them.  postScanRelocations then  *)
(* visits the symbols one by one and gives each the entries its class      *)
(* calls for: a .got entry, a fake PLT stub (.fakeplt.sec, for a function  *)
(* whose address is taken), a normal PLT stub (.plt.sec), and one          *)
(* .got.plt slot, shared by the two stubs of a symbol that has both.  The  *)
(* slot number is never stored: it is recomputed from four indices saved   *)
(* in SymbolAux when the entries were added.                               *)
(*                                                                         *)
(* Indices are the code's: zero-based entry numbers.  Sections are         *)
(* sequences, so entry k of section q is q[k + 1].                         *)
(***************************************************************************)
EXTENDS Integers, Sequences

CONSTANTS
    Funcs,         \* preemptible STT_FUNC symbols
    StartMain,     \* those named __libc_start_main*
    Placeholders,  \* undefined symbols named placeholder<n>
    OrMasks,       \* symbols named or_mask*
    AndMasks,      \* symbols named and_mask*
    Links          \* kinds of link: [shared, relocs], the relocations an
                   \* input may contain and whether the output is shared

Symbols == Funcs \cup Placeholders \cup OrMasks \cup AndMasks

(***************************************************************************)
(* Relocation kinds, named after the ELF types: R_X86_64_PLT32,            *)
(* R_X86_64_64 in writable data, R_X86_64_(REX_)GOTPCRELX,                 *)
(* R_X86_64_GOTPCREL and R_X86_64_PC32 in code.                            *)
(***************************************************************************)
Kinds == {"plt32", "abs64", "gotpcrelx", "gotpcrel", "pc32"}

ASSUME SymbolClasses ==
    /\ StartMain \subseteq Funcs
    /\ Funcs \cap Placeholders = {}
    /\ (Funcs \cup Placeholders) \cap (OrMasks \cup AndMasks) = {}
    /\ OrMasks \cap AndMasks = {}

\* The linker compares prefixes; the code it links declares one or_mask and one
\* and_mask (BitMasks.cpp, masks.h).
ASSUME OneMaskEach ==
    /\ \A s, t \in OrMasks : s = t
    /\ \A s, t \in AndMasks : s = t

Relocs == [sym : Symbols, kind : Kinds]

ASSUME LinkAssumption == Links \subseteq [shared : BOOLEAN, relocs : SUBSET Relocs]

\* gotPltHeaderEntriesNum on x86-64.
GotPltHeader == 3

\* SymbolAux fields start as uint32_t(-1).
Unset == -1

VARIABLES
    shared,         \* config->shared
    input,          \* the relocations of this link
    pending,        \* those not scanned yet
    ctype,          \* Symbol::customreloc_type()
    needs,          \* Symbol::flags
    dataRel,        \* symbols with a symbolic relocation in .rela.dyn
    err,            \* an error was reported
    todo,           \* symbols postScanRelocations has not visited
    got,            \* .got entries
    gotIdx,         \* SymbolAux::gotIdx
    gotRel,         \* type of the .rela.dyn relocation on the .got entry
    ormask_offset,  \* Ctx::ormask_offset, in entries
    andmask_offset, \* Ctx::andmask_offset, in entries
    fakeplt,        \* .fakeplt.sec entries
    plt,            \* .plt.sec entries
    gotPlt,         \* .got.plt entries after the header
    bothplts,       \* PltSection::bothplts
    aux,            \* the PLT fields of SymbolAux
    relaPlt,        \* .rela.plt: symbol and slot of every relocation
    canonical       \* entry of .plt.sec that became a symbol's value

scanVars == <<shared, input, pending, ctype, needs, dataRel, err>>
gotVars  == <<got, gotIdx, gotRel, ormask_offset, andmask_offset>>
stubVars == <<fakeplt, plt, gotPlt, bothplts, aux, relaPlt, canonical>>
vars     == <<scanVars, todo, gotVars, stubVars>>

NoAux == [pltIdx |-> Unset, fakepltIdx |-> Unset,
          non_fake_plt |-> 0, both_plts |-> 0]

Init ==
    /\ \E l \in Links : shared = l.shared /\ input \in SUBSET l.relocs
    /\ pending = input
    /\ ctype = [s \in Symbols |-> 0]
    /\ needs = [s \in Symbols |-> {}]
    /\ dataRel = {}
    /\ err = FALSE
    /\ todo = Symbols
    /\ got = <<>>
    /\ gotIdx = [s \in Symbols |-> Unset]
    /\ gotRel = [s \in Symbols |-> "NONE"]
    /\ ormask_offset = 0
    /\ andmask_offset = 0
    /\ fakeplt = <<>>
    /\ plt = <<>>
    /\ gotPlt = <<>>
    /\ bothplts = 0
    /\ aux = [s \in Symbols |-> NoAux]
    /\ relaPlt = <<>>
    /\ canonical = [s \in Symbols |-> Unset]

-----------------------------------------------------------------------------
(* Scanning.                                                               *)

\* Relocation types that make a preemptible function's class 1.
AddressTaking == {"abs64", "gotpcrelx", "pc32"}

\* Mutant: an address-taken function gets the class of the callback tables.
CustomTypeTable(s, k, old) ==
    IF s \in Funcs /\ k \in AddressTaking THEN 3 ELSE old

\* Mutant: the last relocation scanned decides the class.
CustomTypeLastWins(s, k, old) ==
    IF s \in Funcs /\ k \in AddressTaking THEN 1 ELSE 0

\* iscustomreloc after scanOne meets kind k for symbol s.
CustomType(s, k, old) ==
    IF s \in OrMasks THEN 2
    ELSE IF s \in AndMasks THEN 10
    ELSE IF \/ s \in StartMain \cup Placeholders
            \/ s \in Funcs /\ k \in AddressTaking
         THEN 1
    ELSE old

\* A PC-relative reference from code can only be served by a canonical PLT
\* entry, and only in an executable, for a function of a shared object.
CanBeCanonical(s) == ~shared /\ s \in Funcs

\* What processAux adds to Symbol::flags.
Flags(s, k, t) ==
    CASE t > 1 \/ k \in {"gotpcrelx", "gotpcrel"} -> {"GOT"}
      [] t <= 1 /\ k = "plt32"                    -> {"PLT"}
      [] t <= 1 /\ k = "pc32" /\ CanBeCanonical(s) -> {"COPY", "PLT"}
      [] OTHER                                    -> {}

ScanOne(r) ==
    LET s == r.sym
        t == CustomType(s, r.kind, ctype[s])
    IN /\ r \in pending
       /\ pending' = pending \ {r}
       /\ ctype' = [ctype EXCEPT ![s] = t]
       /\ needs' = [needs EXCEPT ![s] = @ \cup Flags(s, r.kind, t)]
       /\ dataRel' = IF t <= 1 /\ r.kind = "abs64" THEN dataRel \cup {s}
                                                   ELSE dataRel
       /\ err' = (err \/ (t <= 1 /\ r.kind = "pc32" /\ ~CanBeCanonical(s)))
       /\ UNCHANGED <<shared, input, todo, gotVars, stubVars>>

-----------------------------------------------------------------------------
(* Allocation.                                                             *)

\* Symbol::getGotPltOffset, in entries, for class t and saved indices a.
GotPltOffset(t, a) ==
    (IF t = 1 THEN a.fakepltIdx ELSE a.pltIdx) - a.both_plts + GotPltHeader

\* Mutant: symbols with two stubs are not subtracted from the slot number.
FakePltAuxCountsTwice ==
    [NoAux EXCEPT !.non_fake_plt = Len(fakeplt),
                  !.fakepltIdx = Len(fakeplt) + Len(plt)]

\* Mutant: the stub is located by the index shared by both sections.
FakePltAuxSharedIndex ==
    [NoAux EXCEPT !.non_fake_plt = Len(fakeplt) + Len(plt),
                  !.both_plts = bothplts,
                  !.fakepltIdx = Len(fakeplt) + Len(plt)]

\* FakePltSection::addEntry on the symbol's fresh aux record.
FakePltAux ==
    [pltIdx |-> Unset, fakepltIdx |-> Len(fakeplt) + Len(plt),
     non_fake_plt |-> Len(fakeplt), both_plts |-> bothplts]

\* Mutant: the position in .plt.sec is not saved.
PltAuxNoPosition ==
    [NoAux EXCEPT !.both_plts = bothplts,
                  !.pltIdx = Len(plt) + Len(fakeplt)]

\* PltSection::addEntry for a symbol whose class is even.
PltAux ==
    [pltIdx |-> Len(plt) + Len(fakeplt), fakepltIdx |-> Unset,
     non_fake_plt |-> Len(plt), both_plts |-> bothplts]

\* Mutant: PltSection::addEntry saves its position for every class.
BothAuxOverwrites ==
    [FakePltAux EXCEPT !.pltIdx = Len(plt) + Len(fakeplt) + 1,
                       !.non_fake_plt = Len(plt),
                       !.both_plts = bothplts]

\* PltSection::addEntry for a symbol that FakePltSection::addEntry has just
\* served: only pltIdx changes, and the fake section has grown by one.
BothAux == [FakePltAux EXCEPT !.pltIdx = Len(plt) + Len(fakeplt) + 1]

PltReloc(s, a) == [sym |-> s, slot |-> GotPltOffset(ctype[s], a)]

\* postScanRelocations turns on NEEDS_PLT for a class 1 symbol that nobody
\* calls, and remembers (tmp) that it must not get a normal stub.
FakeOnly(s) == "PLT" \notin needs[s] \/ s \in Placeholders

GotRelType(s) ==
    CASE ctype[s] = 2  -> "ORMASK"
      [] ctype[s] = 10 -> "ANDMASK"
      [] ctype[s] = 1  -> "RELATIVE"
      [] OTHER         -> "GLOB_DAT"

\* Mutant: the and_mask branch tests ormask_offset.
AddGotEntryWrongTest(s) ==
    IF "GOT" \notin needs[s] THEN UNCHANGED gotVars
    ELSE /\ got' = Append(got, s)
         /\ gotIdx' = [gotIdx EXCEPT ![s] = Len(got)]
         /\ gotRel' = [gotRel EXCEPT ![s] = GotRelType(s)]
         /\ ormask_offset' = IF s \in OrMasks /\ ormask_offset = 0
                               THEN Len(got) ELSE ormask_offset
         /\ andmask_offset' = IF s \in AndMasks /\ ormask_offset = 0
                                THEN Len(got) ELSE andmask_offset

\* elf::addGotEntry, when NEEDS_GOT is set.
AddGotEntry(s) ==
    IF "GOT" \notin needs[s] THEN UNCHANGED gotVars
    ELSE /\ got' = Append(got, s)
         /\ gotIdx' = [gotIdx EXCEPT ![s] = Len(got)]
         /\ gotRel' = [gotRel EXCEPT ![s] = GotRelType(s)]
         /\ ormask_offset' = IF s \in OrMasks /\ ormask_offset = 0
                               THEN Len(got) ELSE ormask_offset
         /\ andmask_offset' = IF s \in AndMasks /\ andmask_offset = 0
                                THEN Len(got) ELSE andmask_offset

NoStub(s) ==
    /\ ctype[s] # 1
    /\ "PLT" \notin needs[s]
    /\ UNCHANGED stubVars

\* addFakePltEntry alone.
FakeStub(s) ==
    /\ ctype[s] = 1
    /\ FakeOnly(s)
    /\ fakeplt' = Append(fakeplt, s)
    /\ gotPlt' = Append(gotPlt, s)
    /\ aux' = [aux EXCEPT ![s] = FakePltAux]
    /\ relaPlt' = Append(relaPlt, PltReloc(s, FakePltAux))
    /\ UNCHANGED <<plt, bothplts, canonical>>

\* Mutant: addPltEntry gives the second stub a slot of its own.
FakeAndNormalStubTwoSlots(s) ==
    /\ ctype[s] = 1
    /\ ~FakeOnly(s)
    /\ fakeplt' = Append(fakeplt, s)
    /\ plt' = Append(plt, s)
    /\ gotPlt' = gotPlt \o <<s, s>>
    /\ bothplts' = bothplts + 1
    /\ aux' = [aux EXCEPT ![s] = BothAux]
    /\ relaPlt' = relaPlt \o <<PltReloc(s, FakePltAux), PltReloc(s, BothAux)>>
    /\ UNCHANGED canonical

\* addFakePltEntry followed by addPltEntry, which adds no slot of its own.
FakeAndNormalStub(s) ==
    /\ ctype[s] = 1
    /\ ~FakeOnly(s)
    /\ fakeplt' = Append(fakeplt, s)
    /\ plt' = Append(plt, s)
    /\ gotPlt' = Append(gotPlt, s)
    /\ bothplts' = bothplts + 1
    /\ aux' = [aux EXCEPT ![s] = BothAux]
    /\ relaPlt' = Append(relaPlt, PltReloc(s, FakePltAux))
    /\ canonical' = IF "COPY" \in needs[s]
                      THEN [canonical EXCEPT ![s] = BothAux.pltIdx]
                      ELSE canonical

\* addPltEntry alone.
NormalStub(s) ==
    /\ ctype[s] = 0
    /\ "PLT" \in needs[s]
    /\ plt' = Append(plt, s)
    /\ gotPlt' = Append(gotPlt, s)
    /\ aux' = [aux EXCEPT ![s] = PltAux]
    /\ relaPlt' = Append(relaPlt, PltReloc(s, PltAux))
    /\ UNCHANGED <<fakeplt, bothplts, canonical>>

PostScan(s) ==
    /\ pending = {}
    /\ s \in todo
    /\ todo' = todo \ {s}
    /\ AddGotEntry(s)
    /\ \/ NoStub(s)
       \/ FakeStub(s)
       \/ FakeAndNormalStub(s)
       \/ NormalStub(s)
    /\ UNCHANGED scanVars

Next ==
    \/ \E r \in pending : ScanOne(r)
    \/ \E s \in todo : PostScan(s)

Spec == Init /\ [][Next]_vars

-----------------------------------------------------------------------------
(* The output, as the written sections and the loader use it.              *)

Visited == Symbols \ todo

Stubbed(s) == s \in Visited /\ (ctype[s] = 1 \/ "PLT" \in needs[s])

\* The slot every stub of s jumps through (Symbol::getGotPltVA).
Slot(s) == GotPltOffset(ctype[s], aux[s])

\* The symbol whose stub a call R_PLT_PC to s lands on: getFakePltVA for an
\* odd class, getPltVA otherwise, both indexed by getCorrectedPltIdx.
CalledStub(s) ==
    IF ctype[s] = 1 THEN fakeplt[aux[s].non_fake_plt + 1]
                    ELSE plt[aux[s].non_fake_plt + 1]

\* The entry of .fakeplt.sec computeRaw searches for by name.
TakenStubs(s) == {k \in 1 .. Len(fakeplt) : fakeplt[k] = s}

\* The symbols the loader may write into a slot.
LoadedInto(slot) ==
    {relaPlt[i].sym : i \in {j \in 1 .. Len(relaPlt) : relaPlt[j].slot = slot}}

-----------------------------------------------------------------------------
(* Correctness.                                                            *)

TypeOK ==
    /\ shared \in BOOLEAN
    /\ input \subseteq Relocs
    /\ pending \subseteq input
    /\ ctype \in [Symbols -> {0, 1, 2, 10}]
    /\ needs \in [Symbols -> SUBSET {"GOT", "PLT", "COPY"}]
    /\ dataRel \subseteq Symbols
    /\ err \in BOOLEAN
    /\ todo \subseteq Symbols
    /\ got \in Seq(Symbols)
    /\ gotIdx \in [Symbols -> Int]
    /\ gotRel \in [Symbols -> {"NONE", "ORMASK", "ANDMASK", "RELATIVE",
                               "GLOB_DAT"}]
    /\ ormask_offset \in Nat
    /\ andmask_offset \in Nat
    /\ fakeplt \in Seq(Symbols)
    /\ plt \in Seq(Symbols)
    /\ gotPlt \in Seq(Symbols)
    /\ bothplts \in Nat
    /\ aux \in [Symbols -> [pltIdx : Int, fakepltIdx : Int,
                            non_fake_plt : Nat, both_plts : Nat]]
    /\ relaPlt \in Seq([sym : Symbols, slot : Int])
    /\ canonical \in [Symbols -> Int]

\* Every stub jumps through the .got.plt slot that was added for its symbol,
\* although getGotPltOffset only subtracts indices saved while other symbols
\* were still to come and the two stub sections share one slot table.
SlotsExact ==
    \A s \in Symbols : Stubbed(s) =>
        /\ Slot(s) - GotPltHeader \in 0 .. Len(gotPlt) - 1
        /\ gotPlt[Slot(s) - GotPltHeader + 1] = s

\* A call to a symbol (R_PLT_PC) lands on a stub of that symbol, and the one
\* relocation of the slot that stub reads is against that symbol.
CallsReachTheirSymbol ==
    \A s \in Visited : "PLT" \in needs[s] =>
        /\ aux[s].non_fake_plt < Len(IF ctype[s] = 1 THEN fakeplt ELSE plt)
        /\ CalledStub(s) = s
        /\ LoadedInto(Slot(s)) = {s}

\* A function address that computeRaw puts into .got or into data is the
\* address of the one fake stub of that function (so exit(1337) is never
\* reached and pointers to it compare equal), it is the stub direct calls
\* use too, and it leads to that function.
AddressesReachTheirSymbol ==
    \A s \in Visited :
        ctype[s] = 1 /\ (s \in dataRel \/ gotRel[s] = "RELATIVE") =>
            /\ TakenStubs(s) = {aux[s].non_fake_plt + 1}
            /\ LoadedInto(Slot(s)) = {s}

\* The class each symbol has after the parallel scan, and which stubs exist
\* after allocation, depend on the set of relocations and not on the order
\* in which they and the symbols were visited.
AddressTaken(s) ==
    \E r \in input : r.sym = s /\ (r.kind \in AddressTaking
                                   \/ s \in StartMain \cup Placeholders)

Called(s) ==
    \E r \in input : r.sym = s /\ ("PLT" \in Flags(s, r.kind, 0))

OrderFree ==
    /\ pending = {} => \A s \in Funcs \cup Placeholders :
                          (ctype[s] = 1) <=> AddressTaken(s)
    /\ todo = {} =>
         /\ \A s \in Funcs \cup Placeholders :
              (\E i \in 1 .. Len(fakeplt) : fakeplt[i] = s) <=> AddressTaken(s)
         /\ \A s \in Funcs :
              (\E i \in 1 .. Len(plt) : plt[i] = s) <=> Called(s)

\* The offsets the masking stubs read (Ctx::ormask_offset, andmask_offset)
\* are those of or_mask and and_mask once these have a .got entry, even when
\* that entry is number 0, the value that also means "not recorded yet".
MaskOffsetsRight ==
    \A s \in OrMasks \cup AndMasks :
        gotIdx[s] # Unset =>
            gotIdx[s] = (IF s \in OrMasks THEN ormask_offset
                                          ELSE andmask_offset)

\* The slot count never exceeds what the two sections need: a symbol with
\* two stubs has one slot and one relocation (comment before writePlt).
OneSlotPerSymbol ==
    /\ Len(gotPlt) = Len(fakeplt) + Len(plt) - bothplts
    /\ \A i, j \in 1 .. Len(gotPlt) : gotPlt[i] = gotPlt[j] => i = j

\* Relocations.cpp says of a PC-relative reference from an executable that a
\* PLT entry is created and used as the function value.
CanonicalIsOwnStub ==
    \A s \in Visited : canonical[s] # Unset =>
        /\ canonical[s] < Len(plt)
        /\ plt[canonical[s] + 1] = s

=============================================================================
