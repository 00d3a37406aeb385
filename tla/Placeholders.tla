----------------------------- MODULE Placeholders -----------------------------
(***************************************************************************)
(* Placeholder stubs.  libc.so calls placeholder1 ... placeholder10, which *)
(* nothing defines, so that the linker gives it ten spare masking stubs.   *)
(* The main program names the functions that need one by defining symbols  *)
(* placeholder<n>_<function>.  While it relocates libc, the loader fills   *)
(* two arrays: placeholder_symbols, indexed by the number n, and           *)
(* placeholder_plts, indexed by the order of the relocations.  A lookup of *)
(* placeholder_symbols[i] answers placeholder_plts[i].                     *)
(*                                                                         *)
(* Arrays are indexed from 1 here.                                         *)
(***************************************************************************)
EXTENDS Naturals, Sequences, FiniteSetsExt, Functions

CONSTANTS
    Names,      \* function names
    Found,      \* those some loaded object defines
    Long,       \* those that do not fit in placeholder_symbols
    Orders,     \* orders in which libc's relocations may come
    MainSyms    \* placeholder symbols main may define, in .dynsym order

Slots == 10     \* elements of both arrays, and highest placeholder number

NoName == ""

ASSUME PlaceholderAssumption ==
    /\ NoName \notin Names
    /\ Found \subseteq Names /\ Long \subseteq Names
    /\ \A o \in Orders : o \in [1 .. Slots -> 1 .. Slots] /\ IsInjective(o)
    /\ MainSyms \subseteq Seq([num : 1 .. Slots, name : Names])

VARIABLES
    order,      \* numbers of the placeholders, in the order of .rela.plt
    mainSyms,   \* the placeholder symbols of main
    pos,        \* relocations done
    failed,     \* symbol lookup error: the program does not start
    search,     \* search_dlsymed
    symbols,    \* placeholder_symbols
    placeholded,
    plts,       \* placeholder_plts, as far as filled
    slot        \* .got.plt slot of every placeholder

relocVars == <<order, mainSyms, pos, failed, search, symbols, placeholded, plts, slot>>

\* Addresses: a function, a placeholder stub, libc's load address, NULL.
Fn(x)   == <<"function", x>>
Stub(n) == <<"stub", n>>
Base    == <<"base", 0>>
Null    == <<"null", 0>>
Address == {Fn(x) : x \in Names} \cup {Stub(n) : n \in 1 .. Slots} \cup {Base, Null}

RelocInit ==
    /\ order \in Orders
    /\ mainSyms \in MainSyms
    /\ pos = 0
    /\ failed = FALSE
    /\ search = 1
    /\ symbols = [i \in 1 .. Slots |-> NoName]
    /\ placeholded = 0
    /\ plts = <<>>
    /\ slot = [n \in 1 .. Slots |-> Stub(n)]

\* The index at which _dl_lookup_symbol_x finds a name, if it does.
Registered(x) == {i \in 1 .. placeholded : symbols[i] = x}

RegisteredStub(x) == plts[Min(Registered(x))]

\* The address a relocation against x gets.
Resolved(x) ==
    IF Registered(x) # {} THEN RegisteredStub(x)
    ELSE IF x \in Found THEN Fn(x) ELSE Null

\* strncpy of at most 47 characters.
Stored(x) == IF x \in Long THEN NoName ELSE x

\* The prefix compared with a relocation's symbol is "placeholder" and one
\* character, so placeholder10 is taken for placeholder1.
FirstDigit(n) == IF n = 10 THEN 1 ELSE n

\* The symbols placeholder<search>_* of main.
Wanted == {i \in 1 .. Len(mainSyms) : mainSyms[i].num = search}

\* elf_machine_rela for a slot that holds the address of stub n.
Write(n, value) ==
    /\ plts' = IF Len(plts) < Slots THEN Append(plts, slot[n]) ELSE plts
    /\ slot' = [slot EXCEPT ![n] = value]
    /\ pos' = pos + 1

\* Mutant: the name is stored after search_dlsymed was incremented.
RegisterLate(n, x) ==
    /\ symbols' = [symbols EXCEPT ![search + 1] = Stored(x)]
    /\ search' = search + 1
    /\ placeholded' = placeholded + 1
    /\ Write(n, Resolved(x))
    /\ UNCHANGED failed

\* resolve_map when the name is found.
Register(n, x) ==
    /\ symbols' = [symbols EXCEPT ![search] = Stored(x)]
    /\ search' = search + 1
    /\ placeholded' = placeholded + 1
    /\ Write(n, Resolved(x))
    /\ UNCHANGED failed

\* One relocation of libc against a placeholder: resolve_map, then the write.
Relocate ==
    /\ ~failed
    /\ pos < Len(order)
    /\ LET n == order[pos + 1]
           x == mainSyms[Min(Wanted)].name
       IN \/ /\ FirstDigit(n) = search /\ Wanted # {}
             /\ IF Resolved(x) # Null
                  THEN Register(n, x)
                  ELSE /\ failed' = TRUE
                       /\ UNCHANGED <<pos, search, symbols, placeholded, plts, slot>>
          \/ /\ FirstDigit(n) # search \/ Wanted = {}
             /\ search' = IF FirstDigit(n) = search THEN 0 ELSE search
             /\ Write(n, Base)
             /\ UNCHANGED <<failed, symbols, placeholded>>
    /\ UNCHANGED <<order, mainSyms>>

Running == ~failed /\ pos = Len(order)

-----------------------------------------------------------------------------

\* Where a call to an address ends up: stubs jump through their slots, and a
\* slot may hold another stub.
Through(a) == IF a[1] = "stub" THEN slot[a[2]] ELSE a

LeadsTo(a) == Through(Through(a))

\* The order in which force_lemao mentions the placeholders.
InOrder == \A i \in 1 .. Len(order) : order[i] = i

\* '0' + search_dlsymed is a digit up to here.
Nameable == 9

\* The highest n such that main defines symbols for placeholders 1 to n.
Consecutive ==
    Max({0} \cup {n \in 1 .. Nameable :
                    \A k \in 1 .. n : \E i \in 1 .. Len(mainSyms) : mainSyms[i].num = k})

\* The two arrays agree although one is indexed by number and the other by
\* order of relocation: with relocations in order, every placeholder main
\* numbers consecutively from 1, up to 9, is registered, and the stub in its place
\* leads to the function of that name.
ArraysAgree ==
    Running /\ InOrder =>
        /\ placeholded = Consecutive
        /\ \A i \in 1 .. placeholded :
             \E k \in 1 .. Len(mainSyms) :
                /\ mainSyms[k].num = i
                /\ symbols[i] = Stored(mainSyms[k].name)
                /\ LeadsTo(plts[i]) = Fn(mainSyms[k].name)

=============================================================================
