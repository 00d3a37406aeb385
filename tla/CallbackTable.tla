---------------------------- MODULE CallbackTable ----------------------------
(***************************************************************************)
(* The code create_header.py writes into mask.c to serve an indirect call  *)
(* that leaves a library: the caller puts the target in r11 and calls the  *)
(* entry point of its own table, which loads the table's address into rax  *)
(* and joins a scan loop shared by all tables.  The loop jumps to the      *)
(* target when it finds it, and executes hlt when it reaches a zero cell.  *)
(* Two optional tests let targets in uninstrumented libraries pass: one in *)
(* the entry point of FINI, one after an unsuccessful scan.                *)
(*                                                                         *)
(* An address is a pair: table number and cell number, counted from the    *)
(* start of the table.  Where the compiler and the linker put a table, and *)
(* so what lies after its 0x0, is not for mask.c to say: tables with       *)
(* entries and tables without go to different sections.                    *)
(***************************************************************************)
EXTENDS Naturals, Sequences

CONSTANTS
    Layouts,        \* what mask.c may define: [tables, fini, libc]
    Tags,           \* the keys of header.txt
    Fini,           \* the tag FINI, whose entry point may differ
    Targets,        \* function addresses
    DsoOf,          \* the library dladdr finds for a target
    Dsos

Zero == "0x0"

ArgRegs == {"rdi", "rsi", "rdx", "rcx", "r8", "r9"}

ASSUME TargetAssumption == Zero \notin Targets /\ DsoOf \in [Targets -> Dsos]

Table == [tag : Tags, cells : Seq(Targets)]

ASSUME LayoutAssumption ==
    \A l \in Layouts : /\ l.tables \in Seq(Table)
                       /\ l.fini \subseteq Dsos /\ l.libc \subseteq Dsos

VARIABLES
    tables,     \* the tables of this program: sequence of [tag, cells]
    libs,       \* the libraries named on the command line of create_header.py
    pc,         \* next instruction of the pad
    own,        \* number of the table the caller belongs to
    r11,        \* target of the call
    rax,        \* address of the cell being looked at
    regs        \* argument registers that still hold the caller's values

vars == <<tables, libs, pc, own, r11, rax, regs>>

\* The arguments after "fallthrough" and after "libc_fallthrough".
FiniLibs == libs.fini
LibcLibs == libs.libc

Cells(t) == tables[t].cells

\* The address of the 0x0 that ends a table is the last that mask.c defines.
Beyond(a) == a[2] > Len(Cells(a[1])) + 1

\* What memory holds at an address: the cells of a table, then its 0x0, then
\* data of some other object, or padding.
Contents(a) ==
    IF Beyond(a) THEN Targets \cup {Zero}
    ELSE IF a[2] = Len(Cells(a[1])) + 1 THEN {Zero}
    ELSE {Cells(a[1])[a[2]]}

\* addq $8.  All cells beyond the 0x0 are alike, and are one address here.
Following(a) == IF Beyond(a) THEN a ELSE <<a[1], a[2] + 1>>

Init ==
    /\ \E l \in Layouts : /\ tables = l.tables
                         /\ libs = [fini |-> l.fini, libc |-> l.libc]
    /\ pc = "idle"
    /\ own = 0
    /\ r11 = Zero
    /\ rax = <<0, 0>>
    /\ regs = ArgRegs

-----------------------------------------------------------------------------

\* Mutant: any target dladdr knows passes.
ShouldPassthroughAny(t, names) == TRUE

\* Mutant: the list of names is taken to be empty.
ShouldPassthroughNone(t, names) == FALSE

\* libc_should_passthrough and fini_should_passthrough: does dladdr find the
\* target in one of the named libraries.
ShouldPassthrough(t, names) == DsoOf[t] \in names

\* Mutant: the pad loads the address of the following table.
CallNextTable(t, target) ==
    /\ pc = "idle"
    /\ own' = t + 1
    /\ r11' = target
    /\ regs' = ArgRegs
    /\ pc' = "loop"
    /\ rax' = <<t + 1, 1>>
    /\ UNCHANGED <<tables, libs>>

\* An instrumented call enters the pad of table t.
Call(t, target) ==
    /\ pc = "idle"
    /\ own' = t
    /\ r11' = target
    /\ regs' = ArgRegs
    /\ IF tables[t].tag = Fini /\ FiniLibs # {}
         THEN pc' = "fini" /\ UNCHANGED rax
         ELSE pc' = "loop" /\ rax' = <<t, 1>>
    /\ UNCHANGED <<tables, libs>>

\* The special entry point of FINI.  Calling a C function leaves no argument
\* register as it was; the target survives in xmm15.
FiniPad ==
    /\ pc = "fini"
    /\ regs' = {}
    /\ IF ShouldPassthrough(r11, FiniLibs)
         THEN pc' = "jump" /\ UNCHANGED rax
         ELSE pc' = "loop" /\ rax' = <<own, 1>>
    /\ UNCHANGED <<tables, libs, own, r11>>

\* Mutant: the loop tests for the end of the table with a cell to go.
LoopStopsEarly ==
    /\ pc = "loop"
    /\ \E here \in Contents(rax), next \in Contents(Following(rax)) :
          IF here = r11
            THEN pc' = "jump" /\ UNCHANGED rax
            ELSE /\ rax' = Following(rax)
                 /\ pc' = IF next # Zero /\ Zero \notin Contents(Following(Following(rax)))
                            THEN "loop"
                            ELSE IF LibcLibs # {} THEN "pass" ELSE "hlt"
    /\ UNCHANGED <<tables, libs, own, r11, regs>>

\* Mutant: the end of the table is not looked for.
LoopNoEnd ==
    /\ pc = "loop"
    /\ \E here \in Contents(rax) :
          IF here = r11
            THEN pc' = "jump" /\ UNCHANGED rax
            ELSE rax' = Following(rax) /\ pc' = "loop"
    /\ UNCHANGED <<tables, libs, own, r11, regs>>

\* Mutant: rax is not advanced.
LoopStays ==
    /\ pc = "loop"
    /\ \E here \in Contents(rax), next \in Contents(Following(rax)) :
          IF here = r11
            THEN pc' = "jump" /\ UNCHANGED rax
            ELSE /\ UNCHANGED rax
                 /\ pc' = IF here # Zero THEN "loop" ELSE "hlt"
    /\ UNCHANGED <<tables, libs, own, r11, regs>>

\* .loop_cetfake: compare the cell with r11, step, compare with zero.
Loop ==
    /\ pc = "loop"
    /\ \E here \in Contents(rax), next \in Contents(Following(rax)) :
          IF here = r11
            THEN pc' = "jump" /\ UNCHANGED rax
            ELSE /\ rax' = Following(rax)
                 /\ pc' = IF next # Zero THEN "loop"
                          ELSE IF LibcLibs # {} THEN "pass" ELSE "hlt"
    /\ UNCHANGED <<tables, libs, own, r11, regs>>

\* Mutant: rdx is not saved around the call.
KeptTwo == {"rdi", "rsi"}

\* What the pushes around the call of libc_should_passthrough preserve.
Kept == {"rdi", "rsi", "rdx"}

PassPad ==
    /\ pc = "pass"
    /\ regs' = regs \cap Kept
    /\ pc' = IF ShouldPassthrough(r11, LibcLibs) THEN "jump" ELSE "hlt"
    /\ UNCHANGED <<tables, libs, own, r11, rax>>

\* jmp *%r11; the callee returns to the instrumented caller.
Jump ==
    /\ pc = "jump"
    /\ pc' = "idle"
    /\ UNCHANGED <<tables, libs, own, r11, rax, regs>>

Step == FiniPad \/ Loop \/ PassPad \/ Jump

Next == Step \/ \E t \in 1 .. Len(tables), target \in Targets : Call(t, target)

Spec == Init /\ [][Next]_vars

-----------------------------------------------------------------------------
(* Correctness.                                                            *)

TypeOK ==
    /\ tables \in Seq(Table)
    /\ libs \in [fini : SUBSET Dsos, libc : SUBSET Dsos]
    /\ pc \in {"idle", "fini", "loop", "pass", "jump", "hlt"}
    /\ own \in 0 .. Len(tables)
    /\ r11 \in Targets \cup {Zero}
    /\ rax \in Nat \X Nat
    /\ regs \subseteq ArgRegs

InOwnTable == \E i \in 1 .. Len(Cells(own)) : Cells(own)[i] = r11

\* Passing without a table entry, as the command line of the script allows.
Passes ==
    \/ DsoOf[r11] \in LibcLibs
    \/ tables[own].tag = Fini /\ DsoOf[r11] \in FiniLibs

Filled == Len(Cells(own)) > 0

\* A pad whose table has entries jumps only to an entry of that table or to a
\* target of a library named on the command line; it never takes an entry of
\* another table or of what lies after its own (.loop_cetfake serves all).
JumpsAllowed == pc = "jump" /\ Filled => InOwnTable \/ Passes

\* hlt is reached only by a call that neither the table nor the command line
\* allows: no entry is skipped by the scan.
HaltsRightly == pc = "hlt" => ~InOwnTable /\ ~Passes

\* A pad whose table has entries reads no cell beyond the 0x0 that ends it.
StaysInTable == pc \in {"loop", "pass"} /\ Filled =>
                    rax[1] = own /\ rax[2] <= Len(Cells(own)) + 1

\* A callback outside FINI finds its first three arguments as the caller left
\* them, and all six when its table lists it.
ArgumentsKept ==
    pc = "jump" /\ tables[own].tag # Fini =>
        /\ {"rdi", "rsi", "rdx"} \subseteq regs
        /\ InOwnTable => regs = ArgRegs

\* Every table, those without entries included, only lets its own entries
\* through.  The first cell is not compared with zero, so the scan of an empty
\* table goes on beyond its 0x0.
JumpsToOwnEntries == pc = "jump" => InOwnTable \/ Passes

=============================================================================
