----------------------------- MODULE HeaderMerge -----------------------------
(***************************************************************************)
(* scripts/create_header.py: how header.txt becomes the callback tables of *)
(* mask.c.                                                                 *)
(*                                                                         *)
(* header.txt starts with a dictionary of transfers {'LIBC': 'CRYPTO'},    *)
(* read "the table of LIBC also takes the entries of CRYPTO", followed by  *)
(* one dictionary per linked object giving, for every tag, the callbacks   *)
(* the object may hand to the library with that tag.  The script merges    *)
(* them by tag, applies the transfers, and writes one table per tag.  A    *)
(* callback that sits in several tables is written under a different name  *)
(* in each (x_1337, x_11337, ...), because the linker takes the offset of  *)
(* such a symbol out of its name and then renames it, which it can do only *)
(* once per symbol.                                                        *)
(*                                                                         *)
(* The order of the entries inside a table is abstracted: a list without   *)
(* duplicates is a set, written to mask.c in any order.                    *)
(***************************************************************************)
EXTENDS Naturals, Sequences, FiniteSets

CONSTANTS
    Tags,       \* keys of the dictionaries: LIBC, CRYPTO, FINI, ...
    Libc,       \* the tag "LIBC"
    Entries,    \* TAG_offset constructs
    MainFn,     \* the cell &main
    Files       \* the header.txt files the script may be run on

ASSUME TagAssumption == Libc \in Tags

ASSUME MainAssumption == MainFn \notin Entries

ASSUME FileAssumption ==
    Files \subseteq [first : Seq(Tags \X Tags),
                     items : Seq(Tags \X SUBSET Entries)]

VARIABLES
    file,       \* the header.txt being processed
    pc,         \* where the script is
    pos,        \* position in the list pc is about
    order,      \* keys of the merged dictionary, in insertion order
    result,     \* the merged dictionary
    declared,   \* <<entry, occurrence>> pairs declared in mask.h
    counter,    \* symbol_emission_counter
    table       \* table[k]: cells of table number k of mask.c

vars == <<file, pc, pos, order, result, declared, counter, table>>

Keys == {order[i] : i \in 1 .. Len(order)}

Init ==
    /\ file \in Files
    /\ pc = "read"
    /\ pos = 1
    /\ order = <<>>
    /\ result = [k \in Tags |-> {}]
    /\ declared = {}
    /\ counter = [e \in Entries |-> 0]
    /\ table = <<>>

-----------------------------------------------------------------------------
(* parse_all_dicts_from_file                                               *)

\* Mutant: a later dictionary replaces the list of an earlier one.
MergedOverwrites(k, v) == v

\* Mutant: &main is put into libc's list already when merging.
MergedAddsMain(k, v) == result[k] \cup v \cup (IF k = Libc THEN {MainFn} ELSE {})

\* result[k].extend(v), duplicates dropped.
Merged(k, v) == result[k] \cup v

\* One key of one dictionary.
ReadItem ==
    /\ pc = "read"
    /\ pos <= Len(file.items)
    /\ LET k == file.items[pos][1]
           v == file.items[pos][2]
       IN /\ order' = IF k \in Keys THEN order ELSE Append(order, k)
          /\ result' = [result EXCEPT ![k] = Merged(k, v)]
    /\ pos' = pos + 1
    /\ UNCHANGED <<file, pc, declared, counter, table>>

ReadDone ==
    /\ pc = "read"
    /\ pos > Len(file.items)
    /\ pc' = "transfer"
    /\ pos' = 1
    /\ UNCHANGED <<file, order, result, declared, counter, table>>

\* ast.literal_eval keeps, of several items with one key, the last value, at
\* the place of the first: pair p of the first line takes effect only if no
\* earlier pair has its key, and with the source of the last such pair.
Effective(p) == \A q \in 1 .. p - 1 : file.first[q][1] # file.first[p][1]

IsSource(p, src) ==
    \E q \in 1 .. Len(file.first) :
        /\ file.first[q] = <<file.first[p][1], src>>
        /\ \A r \in q + 1 .. Len(file.first) : file.first[r][1] # file.first[p][1]

\* Mutant: the transfer goes the other way.
ReceiveBackwards(item, src) == [result EXCEPT ![src] = @ \cup result[item]]

\* result[item] += result[first_line_data[item]]
Receive(item, src) == [result EXCEPT ![item] = @ \cup result[src]]

Transfer ==
    /\ pc = "transfer"
    /\ pos <= Len(file.first)
    /\ \E src \in Tags :
          /\ IsSource(pos, src)
          /\ \/ /\ Effective(pos)
                /\ {file.first[pos][1], src} \subseteq Keys
                /\ result' = Receive(file.first[pos][1], src)
             \/ ~Effective(pos) /\ UNCHANGED result
    /\ pos' = pos + 1
    /\ UNCHANGED <<file, pc, order, declared, counter, table>>

\* Mutant: the error is reported but the script does not exit.
TransferFailsSilently ==
    /\ pc = "transfer"
    /\ pos <= Len(file.first)
    /\ Effective(pos)
    /\ \E src \in Tags : /\ IsSource(pos, src)
                         /\ ~({file.first[pos][1], src} \subseteq Keys)
    /\ UNCHANGED vars

\* A tag of the first line that no dictionary has is a KeyError: the script
\* reports it and exits before it writes anything.
TransferFails ==
    /\ pc = "transfer"
    /\ pos <= Len(file.first)
    /\ Effective(pos)
    /\ \E src \in Tags : /\ IsSource(pos, src)
                         /\ ~({file.first[pos][1], src} \subseteq Keys)
    /\ pc' = "failed"
    /\ UNCHANGED <<file, pos, order, result, declared, counter, table>>

-----------------------------------------------------------------------------
(* generate_files                                                          *)

\* Mutant: a name is counted once, however many tables have it.
OccurrencesOnce(e) == IF \E k \in Keys : e \in result[k] THEN 1 ELSE 0

\* max_occurrence_per_symbol
Occurrences(e) == Cardinality({k \in Keys : e \in result[k]})

\* mask.h is written before mask.c.
Declare ==
    /\ pc = "transfer"
    /\ pos > Len(file.first)
    /\ pc' = "emit"
    /\ pos' = 1
    /\ declared' = UNION {{e} \X (1 .. Occurrences(e)) : e \in Entries}
    /\ table' = [k \in 1 .. Len(order) |-> {}]
    /\ UNCHANGED <<file, order, result, counter>>

\* What the table being written holds already, without the suffixes.
Written(k) == {c[1] : c \in table[k]}

\* Mutant: the first suffix is used in every table.
SuffixFirst(e) == 1

\* make_varname_suffix's occurrence argument for the next cell of e.
Suffix(e) == counter[e] + 1

EmitCell(e) ==
    /\ pc = "emit"
    /\ pos <= Len(order)
    /\ e \in result[order[pos]] \ Written(pos)
    /\ counter' = [counter EXCEPT ![e] = @ + 1]
    /\ table' = [table EXCEPT ![pos] = @ \cup {<<e, Suffix(e)>>}]
    /\ UNCHANGED <<file, pc, pos, order, result, declared>>

\* &main closes the table of libc; every table ends with 0x0.
EmitEnd ==
    /\ pc = "emit"
    /\ pos <= Len(order)
    /\ result[order[pos]] \subseteq Written(pos)
    /\ table' = IF order[pos] = Libc
                  THEN [table EXCEPT ![pos] = @ \cup {<<MainFn, 1>>}]
                  ELSE table
    /\ pos' = pos + 1
    /\ UNCHANGED <<file, pc, order, result, declared, counter>>

Finish ==
    /\ pc = "emit"
    /\ pos > Len(order)
    /\ pc' = "done"
    /\ UNCHANGED <<file, pos, order, result, declared, counter, table>>

Next ==
    \/ ReadItem
    \/ ReadDone
    \/ Transfer
    \/ TransferFails
    \/ Declare
    \/ \E e \in Entries : EmitCell(e)
    \/ EmitEnd
    \/ Finish

Spec == Init /\ [][Next]_vars

-----------------------------------------------------------------------------
(* Correctness.                                                            *)

TypeOK ==
    /\ file \in Files
    /\ pc \in {"read", "transfer", "emit", "done", "failed"}
    /\ pos \in Nat \ {0}
    /\ order \in Seq(Tags)
    /\ result \in [Tags -> SUBSET Entries]
    /\ declared \subseteq Entries \X (Nat \ {0})
    /\ counter \in [Entries -> Nat]
    /\ table \in Seq(SUBSET ((Entries \cup {MainFn}) \X Nat))

\* The callbacks the library with tag t may call when mask.c is complete.
Allowed(t) == UNION {Written(k) : k \in {j \in 1 .. Len(order) : order[j] = t}}

Listed(t) ==
    UNION {file.items[i][2] :
             i \in {j \in 1 .. Len(file.items) : file.items[j][1] = t}}

\* Transfers written in an order in which a table has received everything
\* before it is copied on, and no tag receives from two others.
WellOrdered(f) ==
    \A p, q \in 1 .. Len(f.first) :
        p < q => /\ f.first[q][1] # f.first[p][2]
                 /\ f.first[q][1] # f.first[p][1]

\* Every callback some object's dictionary lists for a tag is in the table of
\* that tag: merging dictionaries, dropping duplicates and renaming cells
\* loses none (parse_all_dicts_from_file, generate_files).
NothingLost ==
    pc = "done" => \A t \in Tags : Listed(t) \subseteq Allowed(t)

\* A transfer {'A': 'B'} makes the finished table of A contain every callback
\* of the finished table of B, those B itself received included, when the
\* transfers are well ordered (the loop over first_line_data).
TransfersClosed ==
    pc = "done" /\ WellOrdered(file) =>
        \A p \in 1 .. Len(file.first) :
            Allowed(file.first[p][2]) \ {MainFn} \subseteq Allowed(file.first[p][1])

\* The same for every first line a user may write, in whatever order.
TransfersAlwaysClosed ==
    pc = "done" =>
        \A p \in 1 .. Len(file.first) :
            Allowed(file.first[p][2]) \ {MainFn} \subseteq Allowed(file.first[p][1])

\* A set of tags with every tag that one of them receives from.
ClosedUnder(S) ==
    \A p \in 1 .. Len(file.first) : file.first[p][1] \in S => file.first[p][2] \in S

\* Tags from which t receives along the transfers, in any number of steps.
Feeds(t) == {u \in Tags : \A S \in SUBSET Tags : t \in S /\ ClosedUnder(S) => u \in S}

\* A library is only allowed callbacks that some dictionary lists for it or
\* for a tag it receives from, and main only for libc: no transfer or cell
\* widens a table beyond what header.txt says.
NothingInvented ==
    pc = "done" =>
        \A t \in Tags :
            Allowed(t) \subseteq (IF t = Libc THEN {MainFn} ELSE {})
                                   \cup UNION {Listed(u) : u \in Feeds(t)}

\* No symbol is referenced from two cells of mask.c.  The linker recognises a
\* callback symbol by its name and renames it at the first relocation, so a
\* second reference to the same symbol would not be recognised.
CellsDistinct ==
    \A j, k \in 1 .. Len(table) :
        \A c \in table[j] \cap table[k] : j = k

\* mask.c uses exactly the names mask.h declares: the occurrences counted
\* before writing (max_occurrence_per_symbol) are those the writer numbers
\* (symbol_emission_counter).
DeclaredAreUsed ==
    pc = "done" =>
        declared = (UNION {table[k] : k \in 1 .. Len(table)}) \ {<<MainFn, 1>>}

=============================================================================
