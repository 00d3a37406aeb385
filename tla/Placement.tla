------------------------------ MODULE Placement ------------------------------
(***************************************************************************)
(* How the dynamic loader places code so that masking works: the main      *)
(* program is copied to a new place by _dl_sysdep_parse_arguments, every   *)
(* shared object is mapped by _dl_map_segments below the one before it, so *)
(* that its code ends just before a multiple of a power of two.            *)
(*                                                                         *)
(* Addresses and sizes count pages.  num_bits_required rounds to multiples *)
(* of 4 and a page has 12 address bits, so nothing is lost.                *)
(***************************************************************************)
EXTENDS Integers, Sequences, FiniteSets, Masks

CONSTANTS
    Gap,        \* 0x10000000
    Top,        \* end of the user address space
    Objects,    \* shared objects that may be loaded
    Mains,      \* main programs, with the address the kernel gave them
    Busy,       \* sets of pages in use when the process starts
    Picks,      \* addresses the kernel chooses when it has the choice
    MaxLoads    \* bound on the number of loads

\* exec pages of code start mapstart pages into an extent of len pages; exec
\* is 0 for an object without code.
Object == [exec : Nat, mapstart : Nat, len : Nat \ {0}, align : Nat \ {0}]

Fits(o) == o.exec > 0 => o.mapstart + o.exec <= o.len

\* No object has more code than the gap between objects makes room for, or
\* than a number of Width bits can count.
ASSUME ObjectAssumption ==
    /\ Objects \subseteq Object
    /\ \A o \in Objects : Fits(o) /\ o.exec <= Gap + o.mapstart /\ o.exec < 2 ^ Width

\* aligned: the code fills its last page completely.
ASSUME MainAssumption ==
    /\ Mains \subseteq [exec : Nat \ {0}, mapstart : Nat, len : Nat \ {0},
                        aligned : BOOLEAN, init : 0 .. Top - 1]
    /\ \A m \in Mains : Fits(m) /\ m.init + m.len <= Top /\ m.exec + 1 < 2 ^ Width

ASSUME SpaceAssumption ==
    /\ Gap \in Nat /\ Top \in 1 .. 2 ^ Width /\ MaxLoads \in Nat
    /\ Picks \subseteq 0 .. Top - 1
    /\ Busy \subseteq SUBSET (0 .. Top - 1)

VARIABLES
    started,        \* the main program has been moved, if it has to be
    program,        \* the main program
    mapped,         \* pages in use
    to_mitigate,
    addr,           \* where the last object was placed
    to_load,        \* 1 + number of objects placed
    maps,           \* the link maps, in the order of loading; the main
                    \* program, if the kernel loaded it, comes first
    loads           \* loads tried so far

vars == <<started, program, mapped, to_mitigate, addr, to_load, maps, loads>>

Nowhere == Top      \* MAP_FAILED, an address no mapping has

Extent(start, len) == start .. start + len - 1

Bits(n) == {i \in Bit : (n \div 2 ^ i) % 2 = 1}

-----------------------------------------------------------------------------
(* The kernel.                                                             *)

IsFree(used, start, len) ==
    /\ start > 0 /\ start + len <= Top
    /\ Extent(start, len) \cap used = {}

\* mmap without MAP_FIXED takes the address it is given if there is room.
Mmap(used, hint, len) ==
    IF IsFree(used, hint, len) THEN {hint}
    ELSE LET others == {a \in Picks : IsFree(used, a, len)}
         IN IF others = {} THEN {Nowhere} ELSE others

\* munmap refuses a range that leaves the address space.
Munmap(pages, start, len) ==
    IF start + len > Top THEN pages ELSE pages \ Extent(start, len)

-----------------------------------------------------------------------------
(* dl-map-segments.h                                                       *)

\* num_bits_required: the number of bits of n, rounded up to a multiple of 4.
IsNumBits(k, n) ==
    /\ k % 4 = 0
    /\ n < 2 ^ k
    /\ k = 0 \/ n >= 2 ^ (k - 4)

\* Mutant: the number of bits is taken of the last page's number.
FindAddrOffByOne(t, size) ==
    LET k == CHOOSE n \in 0 .. Width + 3 : IsNumBits(n, size)
    IN ((t - 2 ^ k) \div 2 ^ k) * 2 ^ k + 2 ^ k - size + 1

\* find_addr: where code of this size starts if it ends with the last whole
\* block of 2^k pages below t.
FindAddr(t, size) ==
    LET k == CHOOSE n \in 0 .. Width + 3 : IsNumBits(n, size)
        last == ((t - 2 ^ k) \div 2 ^ k) * 2 ^ k + 2 ^ k - 1
    IN last - size + 1

AlignUp(a, n) == ((a + n - 1) \div n) * n

Reserved(o) ==
    IF o.align = 1 THEN o.len
    ELSE IF o.len >= o.align THEN o.len + o.align
    ELSE 2 * o.align

\* Mutant: the trailing part is unmapped from one page too early.
MapSegmentTrims(used, o, pref) ==
    {[start |-> AlignUp(r, o.align),
      pages |-> used \cup Extent(AlignUp(r, o.align), o.len - 1)]
       : r \in Mmap(used, pref, Reserved(o)) \ {Nowhere}}

\* _dl_map_segment: the address the object gets and the pages in use after
\* the parts it does not need are unmapped.
MapSegment(used, o, pref) ==
    {IF r = Nowhere
       THEN [start |-> Nowhere, pages |-> used]
       ELSE [start |-> AlignUp(r, o.align),
             pages |-> used \cup Extent(AlignUp(r, o.align), o.len)]
       : r \in Mmap(used, pref, Reserved(o))}

\* The link map of an object whose code is to start at page start.
LinkMap(o, base, start, size) ==
    [obj |-> o, l_map_start |-> base, live |-> TRUE,
     l_exec_start |-> CommonPrefix(Bits(start), Bits(start + size - 1)),
     l_exec_end |-> Bits(start + size - 1)]

-----------------------------------------------------------------------------
(* Start of the process, _dl_sysdep_parse_arguments.                       *)

\* The code is rounded up to whole pages, and by a page more if it fills its
\* last page.
MainSize(m) == IF m.aligned THEN m.exec + 1 ELSE m.exec

MainStart(m) == FindAddr(m.init + m.mapstart - Gap, MainSize(m))

\* The kernel has mapped the program; or ld.so is the program itself, and will
\* load the main program like a shared object.
Init ==
    /\ \E busy \in Busy :
          \/ \E m \in Mains : /\ started = FALSE /\ program = m
                              /\ mapped = busy \cup Extent(m.init, m.len)
          \/ started = TRUE /\ program \in Mains /\ mapped = busy
    /\ to_mitigate = FALSE
    /\ maps = <<>>
    /\ addr = 0
    /\ to_load = 1
    /\ loads = 0

\* The loader copies the program and runs the copy.  The address mmap returns
\* is not compared with the address asked for, and the length given to munmap
\* is the end address of the old image.
MoveMain ==
    /\ ~started
    /\ started' = TRUE
    /\ to_mitigate' = TRUE
    /\ LET m == program
       IN \E new \in Mmap(mapped, MainStart(m) - m.mapstart, m.len) \ {Nowhere} :
             /\ mapped' = Munmap(mapped \cup Extent(new, m.len), m.init, m.init + m.len)
             /\ maps' = <<LinkMap(m, new, MainStart(m), MainSize(m))>>
    /\ UNCHANGED <<program, addr, to_load, loads>>

-----------------------------------------------------------------------------
(* Loading and unloading.                                                  *)

\* Mutant: a load counts before it is known to have succeeded.
PlaceCountsFailures(used, o, start) ==
    \E got \in MapSegment(used, o, start - o.mapstart) :
        /\ addr' = start - o.mapstart
        /\ mapped' = got.pages
        /\ \/ /\ got.start = addr'
              /\ maps' = Append(maps, LinkMap(o, got.start, start, o.exec))
           \/ got.start # addr' /\ UNCHANGED maps
        /\ to_load' = to_load + 1

\* An object whose code is to start at start must get exactly that place.  The
\* error path leaves what was mapped as it is ("avoid unmap").
Place(used, o, start) ==
    \E got \in MapSegment(used, o, start - o.mapstart) :
        /\ addr' = start - o.mapstart
        /\ mapped' = got.pages
        /\ \/ /\ got.start = addr'
              /\ maps' = Append(maps, LinkMap(o, got.start, start, o.exec))
              /\ to_load' = to_load + 1
           \/ got.start # addr' /\ UNCHANGED <<maps, to_load>>

\* The first object is mapped twice: at a place the kernel chooses, to learn
\* where shared objects go, and then below that place.
LoadFirst(o) ==
    /\ started /\ to_load = 1 /\ o.exec > 0 /\ loads < MaxLoads
    /\ \E tmp \in MapSegment(mapped, o, 0) :
          Place(tmp.pages, o, FindAddr(tmp.start - Gap, o.exec))
    /\ loads' = loads + 1
    /\ UNCHANGED <<started, program, to_mitigate>>

\* Mutant: the next object is placed without a gap.
NextTargetNoGap == addr

NextTarget == addr - Gap

LoadNext(o) ==
    /\ started /\ to_load > 1 /\ o.exec > 0 /\ loads < MaxLoads
    /\ Place(mapped, o, FindAddr(NextTarget, o.exec))
    /\ loads' = loads + 1
    /\ UNCHANGED <<started, program, to_mitigate>>

\* An object without code: l_map_start keeps its initial value 0.  Only the
\* first object is mapped at all, at a place that is then forgotten.  Mapping
\* further segments relative to 0 may be refused.
LoadWithoutCode(o) ==
    /\ started /\ o.exec = 0 /\ loads < MaxLoads
    /\ \/ to_load > 1 /\ UNCHANGED mapped
       \/ to_load = 1 /\ \E got \in MapSegment(mapped, o, 0) : mapped' = got.pages
    /\ \/ maps' = Append(maps, [obj |-> o, l_map_start |-> 0, live |-> TRUE,
                                l_exec_start |-> {}, l_exec_end |-> {}])
       \/ UNCHANGED maps
    /\ loads' = loads + 1
    /\ UNCHANGED <<started, program, to_mitigate, addr, to_load>>

\* dlclose, with _dl_unmap_segments.  addr does not go back up.
Unload(i) ==
    /\ maps[i].live
    /\ i > 1
    /\ maps' = [maps EXCEPT ![i].live = FALSE]
    /\ mapped' = Munmap(mapped, maps[i].l_map_start, maps[i].obj.len)
    /\ UNCHANGED <<started, program, to_mitigate, addr, to_load, loads>>

\* The program maps a page of its own.
MmapOther(p) ==
    /\ started
    /\ p \in Picks \ mapped
    /\ mapped' = mapped \cup {p}
    /\ UNCHANGED <<started, program, to_mitigate, addr, to_load, maps, loads>>

Next ==
    \/ MoveMain
    \/ \E o \in Objects : LoadFirst(o) \/ LoadNext(o) \/ LoadWithoutCode(o)
    \/ \E i \in 1 .. Len(maps) : Unload(i)
    \/ \E p \in Picks : MmapOther(p)

Spec == Init /\ [][Next]_vars

-----------------------------------------------------------------------------
(* What the code takes for granted of the address space.                   *)

\* The place a main program is moved to is free when the process starts.
MainRoom ==
    \A m \in Mains, busy \in Busy :
        IsFree(busy \cup Extent(m.init, m.len), MainStart(m) - m.mapstart, m.len)

\* The kernel maps objects so far above the main program that MaxLoads loads,
\* each going down by the gap, the code and at most a block of 16 times the
\* code, do not come near it.  An object without code, whose link map begins at
\* page 0, does not reach up to the main program.
Apart ==
    /\ \E drop \in 0 .. Top :
          /\ \A o \in Objects : Gap + 17 * o.exec + o.mapstart <= drop
          /\ \A m \in Mains, p \in Picks \cup {Nowhere} :
                p >= MaxLoads * drop + Gap + m.init + m.len
    /\ \A m \in Mains, o \in Objects : o.exec = 0 => o.len <= MainStart(m) - m.mapstart

-----------------------------------------------------------------------------
(* Correctness.                                                            *)

TypeOK ==
    /\ started \in BOOLEAN /\ program \in Mains
    /\ mapped \subseteq 0 .. Top - 1
    /\ to_mitigate \in BOOLEAN
    /\ addr \in Int
    /\ to_load = 1 + Cardinality({i \in 1 .. Len(maps) : maps[i].obj \in Objects /\ maps[i].obj.exec > 0})
    /\ loads \in 0 .. MaxLoads
    /\ \A i \in 1 .. Len(maps) :
          /\ maps[i].obj \in Objects \cup Mains
          /\ maps[i].l_map_start \in 0 .. Top
          /\ maps[i].l_exec_start \in Word /\ maps[i].l_exec_end \in Word

Live == {i \in 1 .. Len(maps) : maps[i].live}

\* Pages of code of a loaded object.
Code(i) ==
    LET l == maps[i] IN Extent(l.l_map_start + l.obj.mapstart, l.obj.exec)

\* Where an indirect call of page p ends when object i makes it.
CallFrom(i, p) ==
    Masked(Bits(p), OrMask(to_mitigate, maps[i].l_exec_start),
                    AndMask(to_mitigate, maps[i].l_exec_end))

\* A call inside an object, the main program included, is not changed by the
\* masks the loader gave it: the program still works (_dl_map_segments,
\* _dl_sysdep_parse_arguments, R_X86_64_ORMASK and R_X86_64_ANDMASK).
OwnCodeFixed ==
    \A i \in Live : \A p \in Code(i) : CallFrom(i, p) = Bits(p)

\* A masked call never ends in the code of another object, whatever its
\* target, whichever objects were loaded and unloaded before and wherever
\* failed loads have left their mappings.  Masked calls of object i end in its
\* window (theorem MaskedInWindow).
CodeSeparated ==
    to_mitigate =>
        \A i, j \in Live :
            i # j => \A q \in Code(j) :
                Bits(q) \notin Window(maps[i].l_exec_start, maps[i].l_exec_end)

Pages(i) == Extent(maps[i].l_map_start, maps[i].obj.len)

\* The whole extent of a loaded object that has code stays mapped until it is
\* unloaded, and no two such objects share a page: aligning, failed loads and
\* unloading others do not touch it (_dl_map_segment, _dl_unmap_segments).
CodeIsMapped ==
    \A i \in {k \in Live : maps[k].obj.exec > 0} :
        /\ Pages(i) \subseteq mapped
        /\ \A j \in Live : i # j => Pages(i) \cap Pages(j) = {}

=============================================================================
