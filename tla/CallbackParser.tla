--------------------------- MODULE CallbackParser ---------------------------
(***************************************************************************)
(* scripts/callback_parser.py: from the logs of the passes FindDynSym and  *)
(* LogStructs, the symbols of the libraries and the stubs of the binary,   *)
(* the dictionary of header.txt: for the tag of each library, the          *)
(* functions that library may call back.                                   *)
(*                                                                         *)
(* The dictionaries the script builds while it reads the logs are          *)
(* operators on the logs.  check() then goes through the callback getters  *)
(* in the order of the log, and through the callbacks of each in the order *)
(* of a Python set, which differs from one run to the next.  A list is     *)
(* modelled by the set of its elements, and an element TAG_0xoffset by the *)
(* tag and the thing at that offset.                                       *)
(***************************************************************************)
EXTENDS Naturals, Sequences, FiniteSetsExt, Functions

CONSTANTS
    Libs,       \* the libraries of libraries.json, in order
    NoLib,
    TagOf,      \* their tags
    Exports,    \* the functions they export
    Own,        \* the functions of the binary
    Copies,     \* those with a namesake, or with a variant named <name>.<num>
    FakePlt,    \* the functions with a stub in .fakeplt.sec
    PltSec,     \*                      and in .plt.sec
    Reachable,  \* reachable_structs: the structures a library shares, for
                \* the tag of every library
    Inputs,     \* logs of FindDynSym and LogStructs; is it a main binary?
    Init_, Fini \* what create_tables.py returns

\* libc is one of the libraries; no library's tag is a key main adds.
ASSUME ParserAssumption ==
    /\ DOMAIN Libs \subseteq Nat /\ NoLib \notin Range(Libs)
    /\ DOMAIN Exports = Range(Libs)
    /\ \A k \in Range(Libs) : TagOf[k] \in DOMAIN Reachable
    /\ "LIBC" \in DOMAIN Reachable
    /\ {"FINI", "THREADKEY"} \cap DOMAIN Reachable = {}
    /\ \A x \in Inputs : \A log \in {x.lines, x.sym} :
          Len(log) \in Nat /\ DOMAIN log = 1 .. Len(log)

VARIABLES
    in,         \* the input
    pc,
    todo,       \* lines with the callback getters check() has yet to see
    left,       \* callbacks of the current one it has yet to see
    header      \* for_header_file

vars == <<in, pc, todo, left, header>>

Self == "MB"

-----------------------------------------------------------------------------
(* The inputs: nm, plt_addr.py and the logs.                               *)

\* The first library that exports a function.
Provider(f) ==
    LET at == {i \in DOMAIN Libs : f \in Exports[Libs[i]]}
    IN IF at = {} THEN NoLib ELSE Libs[Min(at)]

OwnCell(f) == <<Self, "code", f>>

\* Mutant: the stubs of .plt.sec are forgotten.
HasStubFakeOnly(f) == f \in FakePlt

\* plt_addr.main: the stub of .fakeplt.sec, or else the one of .plt.sec.
HasStub(f) == f \in FakePlt \cup PltSec

PltAddr(f) == <<Self, IF f \in FakePlt THEN "fake" ELSE "plt", f>>

\* The key BothPLTs_<f>.
BothPLTs(f) == IF f \in FakePlt \cap PltSec THEN {<<Self, "plt", f>>} ELSE {}

Lines(kind) == {l \in Range(in.lines) : l.kind = kind}

\* parse_dynsym counts the callbacks of atexit as those of __cxa_atexit.
Getter(l) == IF l.fn = "atexit" THEN "__cxa_atexit" ELSE l.fn

CallDict   == {Getter(l) : l \in Lines("call")}
Callees(g) == {l.callee : l \in {x \in Lines("call") : Getter(x) = g}}
Indices(g) == {l.index : l \in {x \in Lines("call") : Getter(x) = g}}

\* The first lines of the getters, in which order the dictionary has them.
FirstLines ==
    {p \in DOMAIN in.lines :
        /\ in.lines[p].kind = "call"
        /\ \A q \in 1 .. p - 1 :
              in.lines[q].kind = "call" => Getter(in.lines[q]) # Getter(in.lines[p])}

\* parse_sym: a getter hands what it is given to a function of a library.
RedirectOf(g) ==
    LET at == {i \in DOMAIN in.sym : /\ in.sym[i].kind = "function"
                                     /\ in.sym[i].fn = g
                                     /\ Provider(in.sym[i].name) # NoLib}
    IN IF at = {} THEN NoLib ELSE Provider(in.sym[Min(at)].name)

\* func_list[-1]: the library the structure is last seen to be passed to.
SinkOf(struct) ==
    LET at == {p \in DOMAIN in.lines : /\ in.lines[p].kind = "argument"
                                       /\ in.lines[p].struct = struct
                                       /\ Provider(in.lines[p].fn) # NoLib}
    IN IF at = {} THEN NoLib ELSE Provider(in.lines[Max(at)].fn)

\* The first structure of STRUCTS_USED_BY_CBGs that a getter fills.
StructSinkOf(g) ==
    LET uses(s) == \E i \in DOMAIN in.sym : /\ in.sym[i].kind = "struct"
                                            /\ in.sym[i].fn = g
                                            /\ in.sym[i].name = s
        at == {i \in DOMAIN in.sym : /\ in.sym[i].kind = "struct"
                                     /\ uses(in.sym[i].name)
                                     /\ SinkOf(in.sym[i].name) # NoLib}
    IN IF at = {} THEN NoLib ELSE SinkOf(in.sym[Min(at)].name)

\* struct_metadata, struct_callbacks and global_syms.
Stored(s)    == {l.fn : l \in {x \in Lines("stored") : x.struct = s}}
SharedFns(t) == UNION {Stored(s) : s \in Reachable[t]}
GlobalFns(t) ==
    {f \in {l.fn : l \in Lines("global")} :
        Provider(f) # NoLib /\ TagOf[Provider(f)] = t}

-----------------------------------------------------------------------------
(* check() and main.                                                       *)

Get(t) == IF t \in DOMAIN header THEN header[t] ELSE {}

\* h[t] = cells
Put(h, t, cells) == [u \in DOMAIN h \cup {t} |-> IF u = t THEN cells ELSE h[u]]

\* The header with more cells; a list is made when it gets its first one.
With(h, t, cells) ==
    IF cells = {} THEN h
    ELSE Put(h, t, cells \cup IF t \in DOMAIN h THEN h[t] ELSE {})

\* The header with the cells new[t] for every tag t.
WithAll(new) ==
    [t \in DOMAIN header \cup {x \in DOMAIN new : new[x] # {}} |->
        Get(t) \cup IF t \in DOMAIN new THEN new[t] ELSE {}]

Init ==
    /\ in \in Inputs
    /\ pc = "calls"
    /\ todo = FirstLines
    /\ left = IF todo = {} THEN {} ELSE Callees(Getter(in.lines[Min(todo)]))
    /\ header = <<>>

Current == Getter(in.lines[Min(todo)])

\* One callback of a getter some library exports.  A callback that is itself
\* exported by a library is called through the binary's stub; without a stub
\* the script stops.  When the list of the getter's library is yet to be made,
\* the code makes that of the library the callback comes from.
AddCallee(c) ==
    /\ pc = "calls" /\ todo # {} /\ c \in left
    /\ Provider(Current) # NoLib
    /\ LET t == TagOf[Provider(Current)]
           from == Provider(c)
       IN \/ /\ from # NoLib /\ HasStub(c) /\ t \in DOMAIN header
             /\ header' = With(header, t, {PltAddr(c)})
             /\ UNCHANGED pc
          \/ /\ from # NoLib /\ HasStub(c) /\ t \notin DOMAIN header
             /\ header' = Put(header, TagOf[from], {PltAddr(c)})
             /\ UNCHANGED pc
          \/ /\ from # NoLib /\ ~HasStub(c)
             /\ pc' = "failed"
             /\ UNCHANGED header
          \/ /\ from = NoLib
             /\ header' = With(header, t, IF c \in Own THEN {OwnCell(c)} \cup
                                 (IF c \in Copies THEN {<<Self, "copy", c>>} ELSE {})
                               ELSE {})
             /\ UNCHANGED pc
    /\ left' = left \ {c}
    /\ UNCHANGED <<in, todo>>

\* Mutant: only the getters of the libraries hand callbacks on.
HandedOnByLibs(g) ==
    LET own   == {OwnCell(f) : f \in Callees(g) \cap Own}
        to(l) == IF l = NoLib \/ Provider(g) = NoLib THEN {} ELSE own
    IN With(With(header, TagOf[RedirectOf(g)], to(RedirectOf(g))),
            TagOf[StructSinkOf(g)], to(StructSinkOf(g)))

\* The header with what the getter is known to hand on to a library, itself
\* or in a structure.
HandedOn(g) ==
    LET own   == {OwnCell(f) : f \in Callees(g) \cap Own}
        to(l) == IF l = NoLib THEN {} ELSE own
    IN With(With(header, TagOf[RedirectOf(g)], to(RedirectOf(g))),
            TagOf[StructSinkOf(g)], to(StructSinkOf(g)))

\* Mutant: the callbacks of the last getter stay.
CalleesAtStale(lines) == left

CalleesAt(lines) ==
    IF lines = {} THEN {} ELSE Callees(Getter(in.lines[Min(lines)]))

\* The rest of the loop's body, also for a getter no library exports.
EndItem ==
    /\ pc = "calls" /\ todo # {}
    /\ left = {} \/ Provider(Current) = NoLib
    /\ header' = HandedOn(Current)
    /\ todo' = todo \ {Min(todo)}
    /\ left' = CalleesAt(todo')
    /\ UNCHANGED <<in, pc>>

\* What a function stored in a structure library t shares adds to its list.
\* A function with no stub is looked for in the libraries, and found at its
\* offset there, which the code puts under t.
StructCells(t, f) ==
    IF HasStub(f)
    THEN IF PltAddr(f) \in Get(t) THEN {} ELSE {PltAddr(f)} \cup BothPLTs(f)
    ELSE (IF Provider(f) # NoLib THEN {<<t, "code", f>>} ELSE {})
           \cup (IF f \in Own THEN {OwnCell(f)} ELSE {})

StructCallbacks ==
    /\ pc = "calls" /\ todo = {}
    /\ header' = WithAll([t \in DOMAIN Reachable |->
                            UNION {StructCells(t, f) : f \in SharedFns(t)}])
    /\ pc' = "globals"
    /\ UNCHANGED <<in, todo, left>>

\* A library function in a global structure; its library's list is made even
\* when the function has no stub.
GlobalSyms ==
    /\ pc = "globals"
    /\ header' = [t \in DOMAIN header \cup {x \in DOMAIN Reachable : GlobalFns(x) # {}} |->
                    Get(t) \cup IF t \in DOMAIN Reachable
                                THEN {PltAddr(f) : f \in {g \in GlobalFns(t) : HasStub(g)}}
                                ELSE {}]
    /\ pc' = "may"
    /\ UNCHANGED <<in, todo, left>>

\* Mutant: the position of the argument is not compared.
MayMatchesAnyIndex ==
    {m \in Lines("may") \X Range(Libs) \X {l.fn : l \in Lines("stored")} :
        /\ m[3] \in Stored(m[1].struct)
        /\ m[1].fn \in CallDict /\ m[1].fn \in Exports[m[2]]}

\* An argument of a getter may come from a structure: whatever is stored in
\* such a structure, with every library that exports the getter.
MayMatches ==
    {m \in Lines("may") \X Range(Libs) \X {l.fn : l \in Lines("stored")} :
        /\ m[3] \in Stored(m[1].struct)
        /\ m[1].fn \in CallDict /\ m[1].fn \in Exports[m[2]]
        /\ \E l \in Lines("may") : /\ l.fn = m[1].fn /\ l.struct = m[1].struct
                                   /\ l.index \in Indices(l.fn)}

\* The list that must exist does not, or the script calls exit(): a getter
\* among the functions is "not yet supported", unless it is a new callback.
MayStops ==
    \E m \in MayMatches :
        LET t == TagOf[m[2]]
        IN \/ m[3] \in Own /\ t \notin DOMAIN header
           \/ /\ m[3] \in CallDict
              /\ \/ m[3] \notin Own
                 \/ OwnCell(m[3]) \in Get(t)
                 \/ \E n \in MayMatches : /\ n[3] = m[3] /\ TagOf[n[2]] = t
                                          /\ <<n[1].struct, n[1].fn, n[2]>>
                                               # <<m[1].struct, m[1].fn, m[2]>>

MayStructs ==
    /\ pc = "may"
    /\ IF MayStops
       THEN pc' = "failed" /\ UNCHANGED header
       ELSE /\ pc' = "main"
            /\ header' = WithAll([t \in DOMAIN Reachable |->
                  {OwnCell(m[3]) : m \in {x \in MayMatches : x[3] \in Own
                                                             /\ TagOf[x[2]] = t}}])
    /\ UNCHANGED <<in, todo, left>>

\* The constructors of a main binary are called by libc, the destructors of
\* any object through the table FINI.
Main ==
    /\ pc = "main"
    /\ LET h == IF in.main THEN Put(header, "LIBC", Init_ \cup Get("LIBC")) ELSE header
       IN header' = Put(Put(h, "FINI", Fini), "THREADKEY", {})
    /\ pc' = "done"
    /\ UNCHANGED <<in, todo, left>>

Next ==
    \/ \E c \in left : AddCallee(c)
    \/ EndItem
    \/ StructCallbacks
    \/ GlobalSyms
    \/ MayStructs
    \/ Main

Spec == Init /\ [][Next]_vars

-----------------------------------------------------------------------------

TypeOK ==
    /\ in \in Inputs
    /\ pc \in {"calls", "globals", "may", "main", "done", "failed"}
    /\ todo \subseteq FirstLines
    /\ left \subseteq IF todo = {} THEN {} ELSE Callees(Current)
    /\ DOMAIN header \subseteq DOMAIN Reachable \cup {"FINI", "THREADKEY"}

\* Does the library with tag t get to call f?
PassedTo(f, t) ==
    \E l \in Lines("call") : /\ l.callee = f /\ Provider(Getter(l)) # NoLib
                             /\ TagOf[Provider(Getter(l))] = t

\* The libraries to which the binary's getter g is logged to hand on what it
\* is given: by calling a function of theirs, on any line of the log of
\* LogStructs, and in any structure it fills that is any argument of theirs.
ForwardedTo(g) ==
    {Provider(x.name) : x \in {y \in Range(in.sym) : y.kind = "function" /\ y.fn = g}}
      \ {NoLib}

FilledBy(g) == {x.name : x \in {y \in Range(in.sym) : y.kind = "struct" /\ y.fn = g}}

PassedIn(s) == {Provider(l.fn) : l \in {x \in Lines("argument") : x.struct = s}} \ {NoLib}

PassedByStruct(g) == UNION {PassedIn(s) : s \in FilledBy(g)}

HandedOnTo(f, t) ==
    \E g \in CallDict : /\ f \in Callees(g)
                        /\ \E l \in ForwardedTo(g) \cup PassedByStruct(g) : TagOf[l] = t

MayReach(f, t) ==
    \E k \in Range(Libs), l \in Lines("may") :
        /\ TagOf[k] = t /\ l.fn \in Exports[k]
        /\ f \in Stored(l.struct)
        /\ \E x \in Lines("call") : Getter(x) = l.fn /\ x.index = l.index

Reaches(f, t) ==
    \/ PassedTo(f, t)
    \/ HandedOnTo(f, t)
    \/ MayReach(f, t)
    \/ f \in SharedFns(t)
    \/ f \in GlobalFns(t) /\ HasStub(f)

\* The cell is an address of f: the binary's stub for it, or its code in the
\* object the tag names.
Denotes(cell, f) ==
    /\ cell[3] = f
    /\ \/ cell[1] = Self /\ cell[2] \in {"fake", "plt"}
       \/ cell[1] = Self /\ cell[2] \in {"code", "copy"} /\ f \in Own
       \/ \E k \in Range(Libs) : cell[1] = TagOf[k] /\ f \in Exports[k]

\* Functions of libraries are passed to functions of the same library, and
\* those in structures a library shares are its own, or have a stub.
Separate ==
    /\ \A l \in Lines("call") :
          Provider(Getter(l)) # NoLib /\ Provider(l.callee) # NoLib =>
              TagOf[Provider(Getter(l))] = TagOf[Provider(l.callee)]
    /\ \A t \in DOMAIN Reachable : \A f \in SharedFns(t) :
          Provider(f) # NoLib /\ ~HasStub(f) => TagOf[Provider(f)] = t

\* The logs say no more than the script keeps of them: a getter hands on to
\* one library by each way, since check() takes the first line, the first
\* structure and the structure's last library; and the functions that are
\* handed on, or may come from a structure, are the binary's own.
NothingDropped ==
    /\ \A g \in CallDict :
          /\ \A k, l \in ForwardedTo(g) : k = l
          /\ \A k, l \in PassedByStruct(g) : k = l
          /\ ForwardedTo(g) \cup PassedByStruct(g) # {} =>
                Callees(g) \cap UNION Range(Exports) \subseteq Own
    /\ \A l \in Lines("may") : Stored(l.struct) \cap UNION Range(Exports) \subseteq Own

\* Every known function the logs show to reach a library is on its list,
\* whatever the order Python's sets have and whichever of the five ways the
\* function takes, provided the libraries' own functions stay apart and the
\* logs say nothing that the script drops.
CallbacksListed ==
    pc = "done" /\ Separate /\ NothingDropped =>
        \A t \in DOMAIN Reachable : \A f \in Own \cup UNION Range(Exports) :
            Reaches(f, t) => \E cell \in Get(t) : Denotes(cell, f)

\* A list has nothing but addresses of functions that reach its library.
NothingElseListed ==
    pc = "done" /\ Separate =>
        \A t \in DOMAIN Reachable : \A cell \in Get(t) :
            \/ cell \in Init_ /\ t = "LIBC" /\ in.main
            \/ Reaches(cell[3], t) /\ Denotes(cell, cell[3])

\* The script stops only when a library's function is passed to a library and
\* the binary has no stub for it, or in the case it says it does not support:
\* a stored function that is a getter, or one with no list to go to.
StopsForCause ==
    pc = "failed" =>
        \/ \E l \in Lines("call") : /\ Provider(l.callee) # NoLib
                                    /\ l.callee \notin FakePlt \cup PltSec
        \/ \E f \in Own \cup CallDict : \E t \in DOMAIN Reachable :
              /\ \E l \in Lines("stored") : l.fn = f
              /\ f \in CallDict \/ (MayReach(f, t) /\ t \notin DOMAIN header)

\* The table of a library has every function the binary passes to it.  This is
\* what an element of header.txt is said to mean, and not what the script does:
\* it may make the list of the library the callback comes from.
GettersServed ==
    pc = "done" =>
        \A l \in Lines("call") :
            Provider(Getter(l)) # NoLib /\ Provider(l.callee) # NoLib =>
                PltAddr(l.callee) \in Get(TagOf[Provider(Getter(l))])

=============================================================================
