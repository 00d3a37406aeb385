------------------------- MODULE CallbackParserProofs -------------------------
(***************************************************************************)
(* callback_parser.py for any libraries, logs and symbols, and any order   *)
(* of Python's sets.                                                       *)
(***************************************************************************)
EXTENDS CallbackParser, Integers, WellFoundedInduction, TLAPS

Phases == {"calls", "globals", "may", "main", "done", "failed"}

Known == Own \cup UNION Range(Exports)

\* The library with tag t is told of f.
Listed(f, t) == \E cell \in Get(t) : Denotes(cell, f)

\* A function of the binary may come to t from a structure.
OwnMay(f, t) == f \in Own /\ MayReach(f, t)

\* A cell of t's list is an address of a function that reaches t.
Good(cell, t) == Reaches(cell[3], t) /\ Denotes(cell, cell[3])

\* Where the script is in the log.
PlaceInv ==
    /\ in \in Inputs
    /\ pc \in Phases
    /\ todo \subseteq FirstLines
    /\ left \subseteq CalleesAt(todo)
    /\ pc \notin {"calls", "failed"} => todo = {}

DomainInv ==
    /\ DOMAIN header \subseteq DOMAIN Reachable \cup {"FINI", "THREADKEY"}
    /\ pc # "done" => DOMAIN header \subseteq DOMAIN Reachable

SoundInv ==
    Separate =>
        \A t \in DOMAIN Reachable : \A cell \in Get(t) :
            \/ pc = "done" /\ cell \in Init_ /\ t = "LIBC" /\ in.main
            \/ Good(cell, t)

\* The callbacks of getter g, first seen in line p: those the script has seen,
\* and when it is done with g those g hands on.
Served(p, g) ==
    Provider(g) # NoLib =>
        \A c \in Callees(g) \cap Known :
            \/ Listed(c, TagOf[Provider(g)])
            \/ p \in todo /\ (p = Min(todo) => c \in left)

Handed(p, g) ==
    p \notin todo =>
        \A c \in Callees(g) \cap Own, l \in {RedirectOf(g), StructSinkOf(g)} \ {NoLib} :
            Listed(c, TagOf[l])

CallsInv ==
    Separate /\ pc # "failed" =>
        \A p \in FirstLines, g \in CallDict :
            g = Getter(in.lines[p]) => Served(p, g) /\ Handed(p, g)

\* What the later phases have added.
PhasesInv ==
    Separate =>
        \A t \in DOMAIN Reachable : \A f \in Known :
            /\ pc \in {"globals", "may", "main", "done"} /\ f \in SharedFns(t) => Listed(f, t)
            /\ pc \in {"may", "main", "done"} /\ f \in GlobalFns(t) /\ HasStub(f) => Listed(f, t)
            /\ pc \in {"main", "done"} /\ OwnMay(f, t) => Listed(f, t)

LInv == PlaceInv /\ DomainInv /\ SoundInv /\ CallsInv /\ PhasesInv /\ StopsForCause

-----------------------------------------------------------------------------
(* Facts about the operators.                                              *)

\* Min of a set of numbers is its least element.
LEMMA MinIsLeast ==
    ASSUME NEW S \in SUBSET Nat, S # {}
    PROVE  Min(S) \in S /\ \A m \in S : Min(S) <= m
<1>1. IsWellFoundedOn(OpToRel(<, Nat), Nat)
  BY NatLessThanWellFounded
<1>2. PICK n \in S : \A m \in S : ~(<<m, n>> \in OpToRel(<, Nat))
  BY <1>1, WFMin
<1>3. ASSUME NEW m \in S PROVE n <= m
  <2>1. <<m, n>> \in Nat \X Nat
    OBVIOUS
  <2>2. ~(m < n)
    BY <1>2, <2>1 DEF OpToRel
  <2> QED BY <2>2
<1>4. \E k \in S : \A m \in S : k <= m
  BY <1>3
<1> QED BY <1>4 DEF Min

\* The list a dictionary has under a key.
At(h, t) == IF t \in DOMAIN h THEN h[t] ELSE {}

\* What With adds, and where.
LEMMA WithDomain ==
    ASSUME NEW h, NEW t, NEW cells
    PROVE  DOMAIN With(h, t, cells) \subseteq DOMAIN h \cup {t}
BY DEF With, Put

\* Adding cells to a tag gives the tag those cells and the ones it had.
LEMMA WithHere ==
    ASSUME NEW h, NEW t, NEW cells
    PROVE  At(With(h, t, cells), t) = cells \cup At(h, t)
BY DEF With, Put, At

\* And leaves the other tags alone.
LEMMA WithElsewhere ==
    ASSUME NEW h, NEW t, NEW cells, NEW u, u # t
    PROVE  At(With(h, t, cells), u) = At(h, u)
BY DEF With, Put, At

\* The same, of the header.
LEMMA WithStep ==
    ASSUME NEW t, NEW cells, header' = With(header, t, cells)
    PROVE  /\ DOMAIN header' \subseteq DOMAIN header \cup {t}
           /\ Get(t)' = Get(t) \cup cells
           /\ \A u : u # t => Get(u)' = Get(u)
<1>1. \A u : Get(u) = At(header, u) /\ Get(u)' = At(header', u)
  BY DEF Get, At
<1>2. DOMAIN header' \subseteq DOMAIN header \cup {t}
  BY WithDomain
<1>3. At(header', t) = cells \cup At(header, t)
  BY WithHere
<1>4. ASSUME NEW u, u # t PROVE Get(u)' = Get(u)
  BY <1>1, <1>4, WithElsewhere
<1>5. Get(t)' = Get(t) \cup cells
  BY <1>1, <1>3
<1> QED BY <1>2, <1>4, <1>5

\* Provider gives a library that exports the function, if there is one.
LEMMA ProviderFacts ==
    ASSUME NEW f
    PROVE  /\ Provider(f) \in Range(Libs) \cup {NoLib}
           /\ Provider(f) # NoLib =>
                 /\ Provider(f) \in Range(Libs) /\ f \in Exports[Provider(f)]
                 /\ TagOf[Provider(f)] \in DOMAIN Reachable
           /\ f \in UNION Range(Exports) => Provider(f) # NoLib
<1> DEFINE S == {i \in DOMAIN Libs : f \in Exports[Libs[i]]}
<1>1. S \in SUBSET Nat
  BY ParserAssumption
<1>2. CASE S = {}
  <2>1. Provider(f) = NoLib
    BY <1>2 DEF Provider
  <2>2. f \notin UNION Range(Exports)
    BY <1>2, ParserAssumption DEF Range
  <2> QED BY <2>1, <2>2
<1>3. CASE S # {}
  <2>1. Min(S) \in S
    BY <1>1, <1>3, MinIsLeast
  <2>2. Provider(f) = Libs[Min(S)]
    BY <1>3 DEF Provider
  <2>3. Provider(f) \in Range(Libs) /\ f \in Exports[Provider(f)]
    BY <2>1, <2>2 DEF Range
  <2> QED BY <2>3, ParserAssumption
<1> QED BY <1>2, <1>3

\* The libraries a getter hands its callbacks on to are libraries.
LEMMA SinkFacts ==
    ASSUME NEW g
    PROVE  /\ RedirectOf(g) # NoLib => TagOf[RedirectOf(g)] \in DOMAIN Reachable
           /\ StructSinkOf(g) # NoLib => TagOf[StructSinkOf(g)] \in DOMAIN Reachable
<1>1. \A l \in Range(Libs) \cup {NoLib} : l # NoLib => TagOf[l] \in DOMAIN Reachable
  BY ParserAssumption
<1>2. RedirectOf(g) \in Range(Libs) \cup {NoLib}
  BY ProviderFacts DEF RedirectOf
<1>3. \A s : SinkOf(s) \in Range(Libs) \cup {NoLib}
  BY ProviderFacts DEF SinkOf
<1>4. StructSinkOf(g) \in Range(Libs) \cup {NoLib}
  BY <1>3 DEF StructSinkOf
<1> QED BY <1>1, <1>2, <1>4

\* A set of numbers up to n has a greatest element, which Max gives.
LEMMA MaxIsGreatest ==
    ASSUME NEW n \in Nat, NEW S \in SUBSET (1 .. n), S # {}
    PROVE  Max(S) \in S
<1> DEFINE T == {n - i : i \in S}
<1>1. T \in SUBSET Nat /\ T # {}
  <2>1. \A i \in S : n - i \in Nat
    OBVIOUS
  <2>2. T \subseteq Nat
    BY <2>1
  <2>3. PICK i \in S : TRUE
    OBVIOUS
  <2> QED BY <2>2, <2>3
<1>2. PICK m \in T : \A k \in T : m <= k
  BY <1>1, MinIsLeast
<1>3. PICK i \in S : m = n - i
  BY <1>2
<1>4. \A j \in S : i >= j
  BY <1>2, <1>3
<1> QED BY <1>3, <1>4 DEF Max

\* The library the script takes a getter to hand on to is one the logs name,
\* and it takes one if they name any.
LEMMA ReceiverFacts ==
    ASSUME in \in Inputs, NEW g
    PROVE  /\ RedirectOf(g) # NoLib => RedirectOf(g) \in ForwardedTo(g)
           /\ ForwardedTo(g) # {} => RedirectOf(g) # NoLib
           /\ StructSinkOf(g) # NoLib => StructSinkOf(g) \in PassedByStruct(g)
           /\ PassedByStruct(g) # {} => StructSinkOf(g) # NoLib
<1>1. /\ Len(in.lines) \in Nat /\ DOMAIN in.lines = 1 .. Len(in.lines)
      /\ Len(in.sym) \in Nat /\ DOMAIN in.sym = 1 .. Len(in.sym)
  BY ParserAssumption
<1>2. /\ RedirectOf(g) # NoLib => RedirectOf(g) \in ForwardedTo(g)
      /\ ForwardedTo(g) # {} => RedirectOf(g) # NoLib
  <2> DEFINE at == {i \in DOMAIN in.sym : /\ in.sym[i].kind = "function"
                                         /\ in.sym[i].fn = g
                                         /\ Provider(in.sym[i].name) # NoLib}
  <2>1. at \in SUBSET Nat
    BY <1>1
  <2>2. RedirectOf(g) = IF at = {} THEN NoLib ELSE Provider(in.sym[Min(at)].name)
    BY DEF RedirectOf
  <2>3. at # {} => Min(at) \in at
    BY <2>1, MinIsLeast
  <2>4. \A i \in at : Provider(in.sym[i].name) \in ForwardedTo(g)
    BY DEF ForwardedTo, Range
  <2>5. ForwardedTo(g) # {} => at # {}
    BY DEF ForwardedTo, Range
  <2> HIDE DEF at
  <2>6. \A i \in at : Provider(in.sym[i].name) # NoLib
    BY DEF at
  <2> QED BY <2>2, <2>3, <2>4, <2>5, <2>6
<1>3. ASSUME NEW s
      PROVE  /\ SinkOf(s) # NoLib => SinkOf(s) \in PassedIn(s)
             /\ PassedIn(s) # {} => SinkOf(s) # NoLib
  <2> DEFINE at == {p \in DOMAIN in.lines : /\ in.lines[p].kind = "argument"
                                           /\ in.lines[p].struct = s
                                           /\ Provider(in.lines[p].fn) # NoLib}
  <2>1. at \in SUBSET (1 .. Len(in.lines))
    BY <1>1
  <2>2. SinkOf(s) = IF at = {} THEN NoLib ELSE Provider(in.lines[Max(at)].fn)
    BY DEF SinkOf
  <2>3. at # {} => Max(at) \in at
    BY <1>1, <2>1, MaxIsGreatest
  <2>4. \A i \in at : Provider(in.lines[i].fn) \in PassedIn(s)
    BY DEF PassedIn, Lines, Range
  <2>5. PassedIn(s) # {} => at # {}
    BY DEF PassedIn, Lines, Range
  <2>6. \A i \in at : Provider(in.lines[i].fn) # NoLib
    OBVIOUS
  <2> HIDE DEF at
  <2> QED BY <2>2, <2>3, <2>4, <2>5, <2>6
<1>4. /\ StructSinkOf(g) # NoLib => StructSinkOf(g) \in PassedByStruct(g)
      /\ PassedByStruct(g) # {} => StructSinkOf(g) # NoLib
  <2> DEFINE uses(s) == \E i \in DOMAIN in.sym : /\ in.sym[i].kind = "struct"
                                                /\ in.sym[i].fn = g
                                                /\ in.sym[i].name = s
             at == {i \in DOMAIN in.sym : /\ in.sym[i].kind = "struct"
                                         /\ uses(in.sym[i].name)
                                         /\ SinkOf(in.sym[i].name) # NoLib}
  <2>1. at \in SUBSET Nat
    BY <1>1
  <2>2. StructSinkOf(g) = IF at = {} THEN NoLib ELSE SinkOf(in.sym[Min(at)].name)
    BY DEF StructSinkOf
  <2>3. at # {} => Min(at) \in at
    BY <2>1, MinIsLeast
  <2>4. \A s : uses(s) <=> s \in FilledBy(g)
    BY DEF FilledBy, Range
  <2>5. \A i \in at : SinkOf(in.sym[i].name) # NoLib /\ in.sym[i].name \in FilledBy(g)
    BY <2>4
  <2>6. ASSUME NEW s \in FilledBy(g), SinkOf(s) # NoLib PROVE at # {}
    <3>1. PICK i \in DOMAIN in.sym : /\ in.sym[i].kind = "struct" /\ in.sym[i].fn = g
                                     /\ in.sym[i].name = s
      BY DEF FilledBy, Range
    <3> QED BY <2>6, <3>1
  <2> HIDE DEF at, uses
  <2>7. \A i \in at : SinkOf(in.sym[i].name) \in PassedByStruct(g)
    BY <1>3, <2>5 DEF PassedByStruct
  <2>8. PassedByStruct(g) # {} => at # {}
    BY <1>3, <2>6 DEF PassedByStruct
  <2> QED BY <2>2, <2>3, <2>5, <2>7, <2>8
<1> QED BY <1>2, <1>4

\* Which cells denote a function.
LEMMA Cells ==
    ASSUME NEW f
    PROVE  /\ PltAddr(f)[3] = f /\ Denotes(PltAddr(f), f)
           /\ \A cell \in BothPLTs(f) : cell[3] = f /\ Denotes(cell, f)
           /\ OwnCell(f)[3] = f /\ (f \in Own => Denotes(OwnCell(f), f))
           /\ f \in Own => Denotes(<<Self, "copy", f>>, f)
           /\ Provider(f) # NoLib => Denotes(<<TagOf[Provider(f)], "code", f>>, f)
<1>1. PltAddr(f)[3] = f /\ Denotes(PltAddr(f), f)
  BY DEF PltAddr, Denotes
<1>2. \A cell \in BothPLTs(f) : cell[3] = f /\ Denotes(cell, f)
  BY DEF BothPLTs, Denotes
<1>3. OwnCell(f)[3] = f /\ (f \in Own => Denotes(OwnCell(f), f) /\ Denotes(<<Self, "copy", f>>, f))
  BY DEF OwnCell, Denotes
<1>4. Provider(f) # NoLib => Denotes(<<TagOf[Provider(f)], "code", f>>, f)
  BY ProviderFacts DEF Denotes
<1> QED BY <1>1, <1>2, <1>3, <1>4

\* Every getter has a first line.
LEMMA FirstLine ==
    ASSUME in \in Inputs, NEW g \in CallDict
    PROVE  \E p \in FirstLines : Getter(in.lines[p]) = g
<1> DEFINE S == {p \in DOMAIN in.lines : in.lines[p].kind = "call" /\ Getter(in.lines[p]) = g}
<1>1. Len(in.lines) \in Nat /\ DOMAIN in.lines = 1 .. Len(in.lines)
  BY ParserAssumption
<1>2. S \in SUBSET Nat /\ S # {}
  BY <1>1 DEF CallDict, Lines, Range
<1>3. PICK p \in S : \A m \in S : p <= m
  BY <1>2, MinIsLeast
<1>4. ASSUME NEW q \in 1 .. p - 1, in.lines[q].kind = "call"
      PROVE  Getter(in.lines[q]) # Getter(in.lines[p])
  <2>1. q \in DOMAIN in.lines /\ ~(p <= q)
    BY <1>1, <1>3
  <2> QED BY <1>3, <1>4, <2>1
<1> QED BY <1>3, <1>4 DEF FirstLines

\* All of this depends on the input only, which does not change.
LEMMA SameInput ==
    ASSUME in' = in
    PROVE  /\ Separate' <=> Separate
           /\ FirstLines' = FirstLines /\ CallDict' = CallDict
           /\ \A g : /\ Callees(g)' = Callees(g) /\ RedirectOf(g)' = RedirectOf(g)
                     /\ StructSinkOf(g)' = StructSinkOf(g)
           /\ \A t : SharedFns(t)' = SharedFns(t) /\ GlobalFns(t)' = GlobalFns(t)
           /\ \A f, t : /\ MayReach(f, t)' <=> MayReach(f, t)
                        /\ OwnMay(f, t)' <=> OwnMay(f, t)
                        /\ Reaches(f, t)' <=> Reaches(f, t)
<1>1. \A kind : Lines(kind)' = Lines(kind)
  BY DEF Lines
<1>2. FirstLines' = FirstLines /\ CallDict' = CallDict
  BY <1>1 DEF FirstLines, CallDict
<1>3. \A g : Callees(g)' = Callees(g) /\ RedirectOf(g)' = RedirectOf(g)
  BY <1>1 DEF Callees, RedirectOf
<1>4. \A g : StructSinkOf(g)' = StructSinkOf(g)
  BY DEF StructSinkOf, SinkOf
<1>5. \A s : Stored(s)' = Stored(s)
  BY <1>1 DEF Stored
<1>6. \A t : SharedFns(t)' = SharedFns(t) /\ GlobalFns(t)' = GlobalFns(t)
  BY <1>1, <1>5 DEF SharedFns, GlobalFns
<1>7. Separate' <=> Separate
  BY <1>1, <1>6 DEF Separate
<1>8. \A f, t : MayReach(f, t)' <=> MayReach(f, t)
  BY <1>1, <1>5 DEF MayReach
<1>9. \A f, t : PassedTo(f, t)' <=> PassedTo(f, t)
  BY <1>1 DEF PassedTo
<1>10. \A f, t : HandedOnTo(f, t)' <=> HandedOnTo(f, t)
  <2>1. \A g : ForwardedTo(g)' = ForwardedTo(g) /\ FilledBy(g)' = FilledBy(g)
    BY DEF ForwardedTo, FilledBy
  <2>2. \A s : PassedIn(s)' = PassedIn(s)
    BY <1>1 DEF PassedIn
  <2>3. \A g : PassedByStruct(g)' = PassedByStruct(g)
    BY <2>1, <2>2 DEF PassedByStruct
  <2> QED BY <1>2, <1>3, <2>1, <2>3 DEF HandedOnTo
<1>11. \A f, t : Reaches(f, t)' <=> Reaches(f, t)
  BY <1>6, <1>8, <1>9, <1>10 DEF Reaches
<1>12. \A f, t : OwnMay(f, t)' <=> OwnMay(f, t)
  BY <1>8 DEF OwnMay
<1> QED BY <1>2, <1>3, <1>4, <1>6, <1>7, <1>8, <1>11, <1>12

\* No list of a library loses a cell.
Grows == \A t \in DOMAIN Reachable : Get(t) \subseteq Get(t)'

\* What is listed stays so.
LEMMA ListedStays ==
    ASSUME Grows, NEW t \in DOMAIN Reachable, NEW f, Listed(f, t)
    PROVE  Listed(f, t)'
BY DEF Grows, Listed, Denotes

\* The current getter is that of a call line.
LEMMA CurrentFacts ==
    ASSUME PlaceInv, todo # {}
    PROVE  /\ Min(todo) \in todo /\ Min(todo) \in FirstLines
           /\ in.lines[Min(todo)] \in Lines("call") /\ Current \in CallDict
           /\ left \subseteq Callees(Current)
<1>1. FirstLines \subseteq DOMAIN in.lines /\ DOMAIN in.lines \subseteq Nat
  BY ParserAssumption DEF FirstLines, PlaceInv
<1>2. Min(todo) \in todo
  BY <1>1, MinIsLeast DEF PlaceInv
<1>3. Min(todo) \in FirstLines
  BY <1>2 DEF PlaceInv
<1>4. in.lines[Min(todo)] \in Lines("call")
  BY <1>1, <1>3 DEF FirstLines, Lines, Range
<1>5. Current \in CallDict
  BY <1>4 DEF Current, CallDict
<1>6. left \subseteq Callees(Current)
  BY DEF PlaceInv, CalleesAt, Current
<1> QED BY <1>2, <1>3, <1>4, <1>5, <1>6

-----------------------------------------------------------------------------
(* The callback getters.                                                   *)

\* What AddCallee puts on which list.
LEMMA AddCalleeFacts ==
    ASSUME PlaceInv, NEW c \in left, AddCallee(c), pc' # "failed"
    PROVE  \E t \in DOMAIN Reachable : \E cells :
             /\ t = TagOf[Provider(Current)] /\ Provider(Current) # NoLib
             /\ PassedTo(c, t) /\ c \in Callees(Current)
             /\ pc = "calls" /\ pc' = "calls"
             /\ \A cell \in cells : cell[3] = c /\ Denotes(cell, c)
             /\ c \in Known => cells # {}
             /\ DOMAIN header' \subseteq DOMAIN header \cup DOMAIN Reachable
             /\ Separate => /\ Get(t)' = Get(t) \cup cells
                            /\ \A u : u # t => Get(u)' = Get(u)
<1>1. /\ pc = "calls" /\ todo # {} /\ Provider(Current) # NoLib /\ left' = left \ {c}
  BY DEF AddCallee
<1>2. PICK t \in DOMAIN Reachable : t = TagOf[Provider(Current)]
  BY <1>1, ProviderFacts
<1>3. c \in Callees(Current)
  BY <1>1, CurrentFacts
<1>4. PICK l \in Lines("call") : Getter(l) = Current /\ l.callee = c
  BY <1>3 DEF Callees
<1>5. PassedTo(c, t)
  BY <1>1, <1>2, <1>4 DEF PassedTo
<1>6. Separate /\ Provider(c) # NoLib => TagOf[Provider(c)] = t
  BY <1>1, <1>2, <1>4 DEF Separate
<1>7. ASSUME Provider(c) # NoLib, HasStub(c), t \in DOMAIN header,
             header' = With(header, t, {PltAddr(c)})
      PROVE  /\ DOMAIN header' \subseteq DOMAIN header \cup DOMAIN Reachable
             /\ Get(t)' = Get(t) \cup {PltAddr(c)}
             /\ \A u : u # t => Get(u)' = Get(u)
  BY <1>2, <1>7, WithStep
<1>8. ASSUME Provider(c) # NoLib, t \notin DOMAIN header,
             header' = Put(header, TagOf[Provider(c)], {PltAddr(c)})
      PROVE  /\ DOMAIN header' \subseteq DOMAIN header \cup DOMAIN Reachable
             /\ Separate => /\ Get(t)' = Get(t) \cup {PltAddr(c)}
                            /\ \A u : u # t => Get(u)' = Get(u)
  <2>1. TagOf[Provider(c)] \in DOMAIN Reachable
    BY <1>8, ProviderFacts
  <2>2. DOMAIN header' = DOMAIN header \cup {TagOf[Provider(c)]}
    BY <1>8 DEF Put
  <2>3. ASSUME Separate
        PROVE  Get(t)' = Get(t) \cup {PltAddr(c)} /\ \A u : u # t => Get(u)' = Get(u)
    <3>1. header' = Put(header, t, {PltAddr(c)})
      BY <1>6, <1>8, <2>3
    <3>2. DOMAIN header' = DOMAIN header \cup {t}
          /\ \A u \in DOMAIN header' : header'[u] = IF u = t THEN {PltAddr(c)} ELSE header[u]
      BY <3>1 DEF Put
    <3> QED BY <1>8, <3>2 DEF Get
  <2> QED BY <2>1, <2>2, <2>3
<1>9. CASE Provider(c) # NoLib
  <2>1. /\ pc' = pc
        /\ DOMAIN header' \subseteq DOMAIN header \cup DOMAIN Reachable
        /\ Separate => /\ Get(t)' = Get(t) \cup {PltAddr(c)}
                       /\ \A u : u # t => Get(u)' = Get(u)
    <3>1. /\ pc' = pc
          /\ \/ HasStub(c) /\ t \in DOMAIN header /\ header' = With(header, t, {PltAddr(c)})
             \/ t \notin DOMAIN header /\ header' = Put(header, TagOf[Provider(c)], {PltAddr(c)})
      BY <1>2, <1>9 DEF AddCallee
    <3> QED BY <1>7, <1>8, <1>9, <3>1
  <2>2. \A cell \in {PltAddr(c)} : cell[3] = c /\ Denotes(cell, c)
    BY Cells
  <2>3. {PltAddr(c)} # {}
    OBVIOUS
  <2> QED BY <1>1, <1>2, <1>3, <1>5, <2>1, <2>2, <2>3
<1>10. CASE Provider(c) = NoLib
  <2> DEFINE cells == IF c \in Own THEN {OwnCell(c)} \cup
                           (IF c \in Copies THEN {<<Self, "copy", c>>} ELSE {}) ELSE {}
  <2>1. pc' = pc /\ header' = With(header, t, cells)
    BY <1>2, <1>10 DEF AddCallee
  <2>2. \A cell \in cells : cell[3] = c /\ Denotes(cell, c)
    <3>1. <<Self, "copy", c>>[3] = c
      OBVIOUS
    <3> QED BY <3>1, Cells
  <2>3. c \in Known => cells # {}
    BY <1>10, ProviderFacts DEF Known
  <2> HIDE DEF cells
  <2>4. /\ DOMAIN header' \subseteq DOMAIN header \cup DOMAIN Reachable
        /\ Get(t)' = Get(t) \cup cells /\ \A u : u # t => Get(u)' = Get(u)
    BY <1>2, <2>1, WithStep
  <2> QED BY <1>1, <1>2, <1>3, <1>5, <2>1, <2>2, <2>3, <2>4
<1> QED BY <1>9, <1>10

\* Cells that are good when they are added stay so.
LEMMA SoundStep ==
    ASSUME SoundInv, in' = in, pc # "done",
           Separate => \A t \in DOMAIN Reachable : \A cell \in Get(t)' :
                          cell \in Get(t) \/ Good(cell, t)
    PROVE  SoundInv'
<1> SUFFICES ASSUME Separate', NEW t \in DOMAIN Reachable, NEW cell \in Get(t)'
             PROVE  Good(cell, t)'
  BY DEF SoundInv
<1>1. Separate
  BY SameInput
<1>2. Good(cell, t)
  BY <1>1 DEF SoundInv
<1> QED BY <1>2, SameInput DEF Good, Denotes

\* The phases that are over stay complete while the lists grow.
LEMMA PhasesStep ==
    ASSUME PhasesInv, in' = in, Separate => Grows,
           \A t \in DOMAIN Reachable : \A f \in Known : Separate =>
              /\ pc = "calls" /\ pc' = "globals" /\ f \in SharedFns(t) => Listed(f, t)'
              /\ pc = "globals" /\ pc' = "may" /\ f \in GlobalFns(t) /\ HasStub(f) => Listed(f, t)'
              /\ pc = "may" /\ pc' = "main" /\ OwnMay(f, t) => Listed(f, t)',
           <<pc, pc'>> \in {<<"calls", "calls">>, <<"calls", "failed">>, <<"calls", "globals">>,
                            <<"globals", "may">>, <<"may", "main">>, <<"may", "failed">>,
                            <<"main", "done">>}
    PROVE  PhasesInv'
<1> SUFFICES ASSUME Separate', NEW t \in DOMAIN Reachable, NEW f \in Known
             PROVE  /\ pc' \in {"globals", "may", "main", "done"} /\ f \in SharedFns(t)' =>
                          Listed(f, t)'
                    /\ pc' \in {"may", "main", "done"} /\ f \in GlobalFns(t)' /\ HasStub(f) =>
                          Listed(f, t)'
                    /\ pc' \in {"main", "done"} /\ OwnMay(f, t)' => Listed(f, t)'
  BY DEF PhasesInv, Known, HasStub
<1>1. Separate /\ Grows
  BY SameInput
<1>2. /\ f \in SharedFns(t)' <=> f \in SharedFns(t)
      /\ f \in GlobalFns(t)' <=> f \in GlobalFns(t)
      /\ OwnMay(f, t)' <=> OwnMay(f, t)
  BY SameInput
<1>3. Listed(f, t) => Listed(f, t)'
  BY <1>1, ListedStays
<1>4. /\ pc \in {"globals", "may", "main", "done"} /\ f \in SharedFns(t) => Listed(f, t)
      /\ pc \in {"may", "main", "done"} /\ f \in GlobalFns(t) /\ HasStub(f) => Listed(f, t)
      /\ pc \in {"main", "done"} /\ OwnMay(f, t) => Listed(f, t)
  BY <1>1 DEF PhasesInv
<1> QED BY <1>1, <1>2, <1>3, <1>4

\* The callbacks of the getters stay listed while the lists grow.
LEMMA CallsStep ==
    ASSUME CallsInv, in' = in, Separate => Grows, todo' = todo, left' = left, pc # "failed"
    PROVE  CallsInv'
<1> SUFFICES ASSUME Separate', NEW p \in FirstLines', NEW g \in CallDict',
                    g = Getter(in.lines[p])
             PROVE  Served(p, g)' /\ Handed(p, g)'
  BY DEF CallsInv
<1>1. Separate /\ Grows /\ p \in FirstLines /\ g \in CallDict
  BY SameInput
<1>2. /\ Callees(g)' = Callees(g) /\ RedirectOf(g)' = RedirectOf(g)
      /\ StructSinkOf(g)' = StructSinkOf(g)
  BY SameInput
<1>3. Served(p, g) /\ Handed(p, g)
  BY <1>1 DEF CallsInv
<1>4. Served(p, g)'
  <2> SUFFICES ASSUME Provider(g) # NoLib, NEW c \in Callees(g)' \cap Known
               PROVE  \/ Listed(c, TagOf[Provider(g)])'
                      \/ p \in todo' /\ (p = Min(todo') => c \in left')
    BY DEF Served
  <2>1. TagOf[Provider(g)] \in DOMAIN Reachable
    BY ProviderFacts
  <2>2. Listed(c, TagOf[Provider(g)]) => Listed(c, TagOf[Provider(g)])'
    BY <1>1, <2>1, ListedStays
  <2> QED BY <1>2, <1>3, <2>2 DEF Served
<1>5. Handed(p, g)'
  <2> SUFFICES ASSUME p \notin todo, NEW c \in Callees(g) \cap Own,
                      NEW l \in {RedirectOf(g), StructSinkOf(g)} \ {NoLib}
               PROVE  Listed(c, TagOf[l])'
    BY <1>2 DEF Handed
  <2>1. TagOf[l] \in DOMAIN Reachable /\ Listed(c, TagOf[l])
    BY <1>3, SinkFacts DEF Handed
  <2> QED BY <1>1, <2>1, ListedStays
<1> QED BY <1>4, <1>5

\* Seeing a callback keeps the invariant, whichever one comes next.
LEMMA AddCalleeKeeps ==
    ASSUME LInv, NEW c \in left, AddCallee(c)
    PROVE  LInv'
<1>0. PlaceInv /\ DomainInv /\ SoundInv /\ CallsInv /\ PhasesInv
  BY DEF LInv
<1>1. /\ pc = "calls" /\ todo # {} /\ in' = in /\ todo' = todo /\ left' = left \ {c}
      /\ pc' \in {"calls", "failed"}
  BY DEF AddCallee
<1>2. PlaceInv'
  <2>1. FirstLines' = FirstLines
    BY <1>1, SameInput
  <2>2. CalleesAt(todo)' = CalleesAt(todo)
    BY <1>1, SameInput DEF CalleesAt
  <2> QED BY <1>0, <1>1, <2>1, <2>2 DEF PlaceInv, Phases
<1>3. CASE pc' = "failed"
  <2>1. header' = header /\ Provider(c) # NoLib /\ ~HasStub(c)
    BY <1>1, <1>3 DEF AddCallee
  <2>2. \A t : Get(t)' = Get(t)
    BY <2>1 DEF Get
  <2>3. DomainInv'
    BY <1>0, <1>1, <1>3, <2>1 DEF DomainInv
  <2>4. SoundInv'
    BY <1>0, <1>1, <2>2, SoundStep
  <2>5. CallsInv'
    BY <1>3 DEF CallsInv
  <2>6. PhasesInv'
    BY <1>3 DEF PhasesInv
  <2>7. StopsForCause'
    <3>1. c \in Callees(Current)
      BY <1>0, <1>1, CurrentFacts
    <3>2. PICK l \in Lines("call") : l.callee = c
      BY <3>1 DEF Callees
    <3>3. l \in Lines("call")'
      BY <1>1 DEF Lines
    <3> QED BY <2>1, <3>2, <3>3 DEF StopsForCause, HasStub
  <2> QED BY <1>2, <2>3, <2>4, <2>5, <2>6, <2>7 DEF LInv
<1>4. CASE pc' # "failed"
  <2>1. PICK t \in DOMAIN Reachable : \E cells :
             /\ t = TagOf[Provider(Current)] /\ Provider(Current) # NoLib
             /\ PassedTo(c, t) /\ c \in Callees(Current)
             /\ pc = "calls" /\ pc' = "calls"
             /\ \A cell \in cells : cell[3] = c /\ Denotes(cell, c)
             /\ c \in Known => cells # {}
             /\ DOMAIN header' \subseteq DOMAIN header \cup DOMAIN Reachable
             /\ Separate => /\ Get(t)' = Get(t) \cup cells
                            /\ \A u : u # t => Get(u)' = Get(u)
    BY <1>0, <1>4, AddCalleeFacts
  <2>2. PICK cells :
             /\ t = TagOf[Provider(Current)] /\ Provider(Current) # NoLib
             /\ PassedTo(c, t) /\ c \in Callees(Current)
             /\ pc = "calls" /\ pc' = "calls"
             /\ \A cell \in cells : cell[3] = c /\ Denotes(cell, c)
             /\ c \in Known => cells # {}
             /\ DOMAIN header' \subseteq DOMAIN header \cup DOMAIN Reachable
             /\ Separate => /\ Get(t)' = Get(t) \cup cells
                            /\ \A u : u # t => Get(u)' = Get(u)
    BY <2>1
  <2>3. DomainInv'
    BY <1>0, <2>2 DEF DomainInv
  <2>4. Separate => Grows
    BY <2>2 DEF Grows
  <2>5. SoundInv'
    <3>1. ASSUME Separate, NEW u \in DOMAIN Reachable, NEW cell \in Get(u)', cell \notin Get(u)
          PROVE  Good(cell, u)
      <4>1. u = t /\ cell[3] = c /\ Denotes(cell, c)
        BY <2>2, <3>1
      <4> QED BY <2>2, <4>1 DEF Good, Reaches
    <3> QED BY <1>0, <1>1, <3>1, SoundStep
  <2>6. PhasesInv'
    BY <1>0, <1>1, <2>2, <2>4, PhasesStep
  <2>7. StopsForCause'
    BY <1>4 DEF StopsForCause
  <2>8. CallsInv'
    <3> SUFFICES ASSUME Separate', NEW p \in FirstLines', NEW g \in CallDict',
                        g = Getter(in.lines[p])
                 PROVE  Served(p, g)' /\ Handed(p, g)'
      BY <1>1 DEF CallsInv
    <3>1. Separate /\ Grows /\ p \in FirstLines /\ g \in CallDict
      BY <1>1, <2>4, SameInput
    <3>2. /\ Callees(g)' = Callees(g) /\ RedirectOf(g)' = RedirectOf(g)
          /\ StructSinkOf(g)' = StructSinkOf(g)
      BY <1>1, SameInput
    <3>3. Served(p, g) /\ Handed(p, g)
      BY <1>0, <1>1, <3>1 DEF CallsInv
    <3>4. Served(p, g)'
      <4> SUFFICES ASSUME Provider(g) # NoLib, NEW d \in Callees(g) \cap Known
                   PROVE  \/ Listed(d, TagOf[Provider(g)])'
                          \/ p \in todo /\ (p = Min(todo) => d \in left \ {c})
        BY <1>1, <3>2 DEF Served
      <4>1. TagOf[Provider(g)] \in DOMAIN Reachable
        BY ProviderFacts
      <4>2. Listed(d, TagOf[Provider(g)]) => Listed(d, TagOf[Provider(g)])'
        BY <3>1, <4>1, ListedStays
      <4>3. CASE d = c /\ p = Min(todo)
        <5>1. g = Current
          BY <4>3 DEF Current
        <5>2. PICK cell \in cells : Denotes(cell, d)
          BY <2>2, <4>3
        <5>3. cell \in Get(t)'
          BY <2>2, <3>1
        <5>4. Listed(d, t)'
          BY <5>2, <5>3 DEF Listed, Denotes
        <5> QED BY <2>2, <5>1, <5>4
      <4>4. CASE ~(d = c /\ p = Min(todo))
        BY <3>3, <4>2, <4>4 DEF Served
      <4> QED BY <4>3, <4>4
    <3>5. Handed(p, g)'
      <4> SUFFICES ASSUME p \notin todo, NEW d \in Callees(g) \cap Own,
                          NEW l \in {RedirectOf(g), StructSinkOf(g)} \ {NoLib}
                   PROVE  Listed(d, TagOf[l])'
        BY <1>1, <3>2 DEF Handed
      <4>1. TagOf[l] \in DOMAIN Reachable /\ Listed(d, TagOf[l])
        BY <3>3, SinkFacts DEF Handed
      <4> QED BY <3>1, <4>1, ListedStays
    <3> QED BY <3>4, <3>5
  <2> QED BY <1>2, <2>3, <2>5, <2>6, <2>7, <2>8 DEF LInv
<1> QED BY <1>3, <1>4

\* What a getter g that is done with adds to the lists.
LEMMA HandedOnFacts ==
    ASSUME NEW g, header' = HandedOn(g)
    PROVE  /\ DOMAIN header' \subseteq DOMAIN header \cup DOMAIN Reachable
           /\ Grows
           /\ \A u \in DOMAIN Reachable : \A cell \in Get(u)' \ Get(u) :
                 \E c \in Callees(g) \cap Own, l \in {RedirectOf(g), StructSinkOf(g)} \ {NoLib} :
                     cell = OwnCell(c) /\ u = TagOf[l]
           /\ \A c \in Callees(g) \cap Own, l \in {RedirectOf(g), StructSinkOf(g)} \ {NoLib} :
                 OwnCell(c) \in At(header', TagOf[l])
<1>1. PICK r : r = RedirectOf(g)
  OBVIOUS
<1>2. PICK s : s = StructSinkOf(g)
  OBVIOUS
<1>3. PICK own : own = {OwnCell(f) : f \in Callees(g) \cap Own}
  OBVIOUS
<1>4. PICK cr : cr = IF r = NoLib THEN {} ELSE own
  OBVIOUS
<1>5. PICK cs : cs = IF s = NoLib THEN {} ELSE own
  OBVIOUS
<1>6. PICK h : h = With(header, TagOf[r], cr)
  OBVIOUS
<1>7. header' = With(h, TagOf[s], cs)
  BY <1>1, <1>2, <1>3, <1>4, <1>5, <1>6 DEF HandedOn
<1>8. /\ r # NoLib => TagOf[r] \in DOMAIN Reachable
      /\ s # NoLib => TagOf[s] \in DOMAIN Reachable
  BY <1>1, <1>2, SinkFacts
<1>9. DOMAIN h \subseteq DOMAIN header \cup DOMAIN Reachable
  <2>1. CASE r = NoLib
    BY <1>4, <1>6, <2>1 DEF With
  <2>2. CASE r # NoLib
    BY <1>6, <1>8, <2>2, WithDomain
  <2> QED BY <2>1, <2>2
<1>10. DOMAIN header' \subseteq DOMAIN h \cup DOMAIN Reachable
  <2>1. CASE s = NoLib
    BY <1>5, <1>7, <2>1 DEF With
  <2>2. CASE s # NoLib
    BY <1>7, <1>8, <2>2, WithDomain
  <2> QED BY <2>1, <2>2
<1>11. \A u : At(h, u) = At(header, u) \cup (IF u = TagOf[r] THEN cr ELSE {})
  <2>1. ASSUME NEW u, u = TagOf[r] PROVE At(h, u) = At(header, u) \cup cr
    <3>1. At(h, u) = cr \cup At(header, u)
      BY <1>6, <2>1, WithHere
    <3> QED BY <3>1
  <2>2. ASSUME NEW u, u # TagOf[r] PROVE At(h, u) = At(header, u)
    BY <1>6, <2>2, WithElsewhere
  <2> QED BY <2>1, <2>2
<1>12. \A u : At(header', u) = At(h, u) \cup (IF u = TagOf[s] THEN cs ELSE {})
  <2>1. ASSUME NEW u, u = TagOf[s] PROVE At(header', u) = At(h, u) \cup cs
    <3>1. At(header', u) = cs \cup At(h, u)
      BY <1>7, <2>1, WithHere
    <3> QED BY <3>1
  <2>2. ASSUME NEW u, u # TagOf[s] PROVE At(header', u) = At(h, u)
    BY <1>7, <2>2, WithElsewhere
  <2> QED BY <2>1, <2>2
<1>13. \A u : Get(u) = At(header, u) /\ Get(u)' = At(header', u)
  BY DEF Get, At
<1>14. Grows
  BY <1>11, <1>12, <1>13 DEF Grows
<1>15. ASSUME NEW u, NEW cell \in Get(u)' \ Get(u)
       PROVE  \E c \in Callees(g) \cap Own, l \in {RedirectOf(g), StructSinkOf(g)} \ {NoLib} :
                  cell = OwnCell(c) /\ u = TagOf[l]
  <2>1. \/ u = TagOf[r] /\ cell \in cr
        \/ u = TagOf[s] /\ cell \in cs
    BY <1>11, <1>12, <1>13
  <2>2. PICK l \in {r, s} \ {NoLib} : u = TagOf[l] /\ cell \in own
    BY <1>4, <1>5, <2>1
  <2> QED BY <1>1, <1>2, <1>3, <2>2
<1>16. ASSUME NEW c \in Callees(g) \cap Own, NEW l \in {r, s} \ {NoLib}
       PROVE  OwnCell(c) \in At(header', TagOf[l])
  <2>1. OwnCell(c) \in own
    BY <1>3
  <2>2. CASE l = r
    BY <1>4, <1>11, <1>12, <2>1, <2>2
  <2>3. CASE l = s
    BY <1>5, <1>12, <2>1, <2>3
  <2> QED BY <2>2, <2>3
<1> QED BY <1>1, <1>2, <1>9, <1>10, <1>14, <1>15, <1>16

\* Being done with a getter keeps the invariant.
LEMMA EndItemKeeps ==
    ASSUME LInv, EndItem
    PROVE  LInv'
<1>0. PlaceInv /\ DomainInv /\ SoundInv /\ CallsInv /\ PhasesInv
  BY DEF LInv
<1>1. /\ pc = "calls" /\ pc' = pc /\ todo # {} /\ in' = in
      /\ left = {} \/ Provider(Current) = NoLib
      /\ todo' = todo \ {Min(todo)} /\ left' = CalleesAt(todo')
  BY DEF EndItem
<1>2. PICK g : g = Current /\ header' = HandedOn(g)
  BY DEF EndItem
<1>3. /\ DOMAIN header' \subseteq DOMAIN header \cup DOMAIN Reachable
      /\ Grows
      /\ \A u \in DOMAIN Reachable : \A cell \in Get(u)' \ Get(u) :
            \E c \in Callees(g) \cap Own, l \in {RedirectOf(g), StructSinkOf(g)} \ {NoLib} :
                cell = OwnCell(c) /\ u = TagOf[l]
      /\ \A c \in Callees(g) \cap Own, l \in {RedirectOf(g), StructSinkOf(g)} \ {NoLib} :
            OwnCell(c) \in At(header', TagOf[l])
  BY <1>2, HandedOnFacts
<1>4. Current \in CallDict
  BY <1>0, <1>1, CurrentFacts
<1>5. PlaceInv'
  <2>1. FirstLines' = FirstLines
    BY <1>1, SameInput
  <2>2. CalleesAt(todo)' = CalleesAt(todo')
    BY <1>1, SameInput DEF CalleesAt
  <2> QED BY <1>0, <1>1, <2>1, <2>2 DEF PlaceInv
<1>6. DomainInv'
  BY <1>0, <1>1, <1>3 DEF DomainInv
<1>7. SoundInv'
  <2>1. ASSUME NEW u \in DOMAIN Reachable, NEW cell \in Get(u)' \ Get(u) PROVE Good(cell, u)
    <3>1. PICK c \in Callees(g) \cap Own, l \in {RedirectOf(g), StructSinkOf(g)} \ {NoLib} :
               cell = OwnCell(c) /\ u = TagOf[l]
      BY <1>3, <2>1
    <3>2. HandedOnTo(c, u)
      BY <1>0, <1>2, <1>4, <3>1, ReceiverFacts DEF HandedOnTo, PlaceInv
    <3>3. cell[3] = c /\ Denotes(cell, c)
      BY <3>1, Cells
    <3> QED BY <3>2, <3>3 DEF Good, Reaches
  <2> QED BY <1>0, <1>1, <2>1, SoundStep
<1>8. PhasesInv'
  BY <1>0, <1>1, <1>3, PhasesStep
<1>9. StopsForCause'
  BY <1>1 DEF StopsForCause
<1>10. CallsInv'
  <2> SUFFICES ASSUME Separate', NEW p \in FirstLines', NEW d \in CallDict',
                      d = Getter(in.lines[p])
               PROVE  Served(p, d)' /\ Handed(p, d)'
    BY <1>1 DEF CallsInv
  <2>1. Separate /\ p \in FirstLines /\ d \in CallDict
    BY <1>1, SameInput
  <2>2. /\ Callees(d)' = Callees(d) /\ RedirectOf(d)' = RedirectOf(d)
        /\ StructSinkOf(d)' = StructSinkOf(d)
    BY <1>1, SameInput
  <2>3. Served(p, d) /\ Handed(p, d)
    BY <1>0, <1>1, <2>1 DEF CallsInv
  <2>4. p = Min(todo) => d = g
    BY <1>2 DEF Current
  <2>5. Served(p, d)'
    <3> SUFFICES ASSUME Provider(d) # NoLib, NEW c \in Callees(d) \cap Known
                 PROVE  \/ Listed(c, TagOf[Provider(d)])'
                        \/ p \in todo' /\ (p = Min(todo') => c \in left')
      BY <2>2 DEF Served
    <3>1. TagOf[Provider(d)] \in DOMAIN Reachable
      BY ProviderFacts
    <3>2. Listed(c, TagOf[Provider(d)]) => Listed(c, TagOf[Provider(d)])'
      BY <1>3, <3>1, ListedStays
    <3>3. \/ Listed(c, TagOf[Provider(d)])
          \/ p \in todo /\ (p = Min(todo) => c \in left)
      BY <2>3 DEF Served
    <3>4. p # Min(todo) \/ Listed(c, TagOf[Provider(d)])
      BY <1>1, <1>2, <2>4, <3>3
    <3>5. ASSUME p \in todo', p = Min(todo') PROVE c \in left'
      BY <1>1, <3>5 DEF CalleesAt
    <3> QED BY <1>1, <3>2, <3>3, <3>4, <3>5
  <2>6. Handed(p, d)'
    <3> SUFFICES ASSUME p \notin todo', NEW c \in Callees(d) \cap Own,
                        NEW l \in {RedirectOf(d), StructSinkOf(d)} \ {NoLib}
                 PROVE  Listed(c, TagOf[l])'
      BY <2>2 DEF Handed
    <3>1. CASE p = Min(todo)
      <4>1. OwnCell(c) \in Get(TagOf[l])'
        BY <1>3, <2>4, <3>1 DEF At, Get
      <4> QED BY <4>1, Cells DEF Listed, Denotes
    <3>2. CASE p # Min(todo)
      <4>1. TagOf[l] \in DOMAIN Reachable /\ Listed(c, TagOf[l])
        BY <1>1, <2>3, <3>2, SinkFacts DEF Handed
      <4> QED BY <1>3, <4>1, ListedStays
    <3> QED BY <3>1, <3>2
  <2> QED BY <2>5, <2>6
<1> QED BY <1>5, <1>6, <1>7, <1>8, <1>9, <1>10 DEF LInv

-----------------------------------------------------------------------------
(* The phases after the getters.                                           *)

\* A step that adds cells for every library at once.
LEMMA WithAllFacts ==
    ASSUME NEW new, header' = WithAll(new)
    PROVE  /\ DOMAIN header' \subseteq DOMAIN header \cup DOMAIN new
           /\ \A u \in DOMAIN new : Get(u)' = Get(u) \cup new[u]
           /\ \A u : u \notin DOMAIN new => Get(u)' = Get(u)
<1>1. /\ DOMAIN header' = DOMAIN header \cup {x \in DOMAIN new : new[x] # {}}
      /\ \A u \in DOMAIN header' : header'[u] = Get(u) \cup IF u \in DOMAIN new THEN new[u] ELSE {}
  BY DEF WithAll
<1>2. ASSUME NEW u \in DOMAIN new PROVE Get(u)' = Get(u) \cup new[u]
  <2>1. CASE u \in DOMAIN header'
    <3>1. header'[u] = Get(u) \cup new[u]
      BY <1>1, <2>1
    <3> QED BY <2>1, <3>1 DEF Get
  <2>2. CASE u \notin DOMAIN header'
    <3>1. new[u] = {} /\ u \notin DOMAIN header
      BY <1>1, <2>2
    <3> QED BY <2>2, <3>1 DEF Get
  <2> QED BY <2>1, <2>2
<1>3. ASSUME NEW u, u \notin DOMAIN new PROVE Get(u)' = Get(u)
  <2>1. CASE u \in DOMAIN header'
    <3>1. header'[u] = Get(u) \cup {}
      BY <1>1, <1>3, <2>1
    <3> QED BY <2>1, <3>1 DEF Get
  <2>2. CASE u \notin DOMAIN header'
    <3>1. u \notin DOMAIN header
      BY <1>1, <2>2
    <3> QED BY <2>2, <3>1 DEF Get
  <2> QED BY <2>1, <2>2
<1> QED BY <1>1, <1>2, <1>3

\* When the libraries' own functions stay apart, the cells for a function of a
\* shared structure are addresses of it, and a known function has one.
LEMMA StructCellFacts ==
    ASSUME Separate, NEW t \in DOMAIN Reachable, NEW f \in SharedFns(t)
    PROVE  /\ \A cell \in StructCells(t, f) : cell[3] = f /\ Denotes(cell, f)
           /\ f \in Known => \E cell \in Get(t) \cup StructCells(t, f) : Denotes(cell, f)
<1>1. CASE HasStub(f)
  <2>1. StructCells(t, f) \subseteq {PltAddr(f)} \cup BothPLTs(f)
    BY <1>1 DEF StructCells
  <2>2. PltAddr(f) \in Get(t) \cup StructCells(t, f)
    BY <1>1 DEF StructCells
  <2> QED BY <2>1, <2>2, Cells
<1>2. CASE ~HasStub(f)
  <2>1. Provider(f) # NoLib => <<t, "code", f>> = <<TagOf[Provider(f)], "code", f>>
    BY <1>2 DEF Separate
  <2>2. Provider(f) # NoLib => Denotes(<<t, "code", f>>, f)
    BY <2>1, Cells
  <2>3. <<t, "code", f>>[3] = f
    OBVIOUS
  <2>4. \A cell : cell \in StructCells(t, f) <=>
               \/ Provider(f) # NoLib /\ cell = <<t, "code", f>>
               \/ f \in Own /\ cell = OwnCell(f)
    BY <1>2 DEF StructCells
  <2>5. f \in Known => Provider(f) # NoLib \/ f \in Own
    BY ProviderFacts DEF Known
  <2>6. OwnCell(f)[3] = f /\ (f \in Own => Denotes(OwnCell(f), f))
    BY Cells
  <2>7. ASSUME NEW cell \in StructCells(t, f) PROVE cell[3] = f /\ Denotes(cell, f)
    <3>1. CASE Provider(f) # NoLib /\ cell = <<t, "code", f>>
      BY <2>2, <2>3, <3>1
    <3>2. CASE f \in Own /\ cell = OwnCell(f)
      BY <2>6, <3>2
    <3> QED BY <2>4, <3>1, <3>2
  <2>8. ASSUME f \in Known
        PROVE  \E cell \in Get(t) \cup StructCells(t, f) : Denotes(cell, f)
    <3>1. CASE Provider(f) # NoLib
      <4>1. <<t, "code", f>> \in StructCells(t, f)
        BY <2>4, <3>1
      <4> QED BY <2>2, <3>1, <4>1
    <3>2. CASE f \in Own
      <4>1. OwnCell(f) \in StructCells(t, f)
        BY <2>4, <3>2
      <4> QED BY <2>6, <3>2, <4>1
    <3> QED BY <2>5, <2>8, <3>1, <3>2
  <2> QED BY <2>7, <2>8
<1> QED BY <1>1, <1>2

\* A later phase leaves the getters behind.
LEMMA PlaceStep ==
    ASSUME PlaceInv, in' = in, todo' = todo, left' = left,
           pc' \in Phases, pc' \notin {"calls", "failed"} => todo = {}
    PROVE  PlaceInv'
<1>1. FirstLines' = FirstLines
  BY SameInput
<1>2. CalleesAt(todo)' = CalleesAt(todo)
  BY SameInput DEF CalleesAt
<1> QED BY <1>1, <1>2 DEF PlaceInv

\* The structures the libraries share.
LEMMA StructCallbacksKeeps ==
    ASSUME LInv, StructCallbacks
    PROVE  LInv'
<1>0. PlaceInv /\ DomainInv /\ SoundInv /\ CallsInv /\ PhasesInv
  BY DEF LInv
<1>1. /\ pc = "calls" /\ pc' = "globals" /\ todo = {} /\ in' = in
      /\ todo' = todo /\ left' = left
  BY DEF StructCallbacks
<1>2. PICK new : /\ header' = WithAll(new)
                 /\ new = [t \in DOMAIN Reachable |->
                              UNION {StructCells(t, f) : f \in SharedFns(t)}]
  BY DEF StructCallbacks
<1>3. /\ DOMAIN header' \subseteq DOMAIN header \cup DOMAIN Reachable
      /\ \A t \in DOMAIN Reachable : Get(t)' = Get(t) \cup new[t]
  <2>1. DOMAIN new = DOMAIN Reachable
    BY <1>2
  <2> QED BY <1>2, <2>1, WithAllFacts
<1>4. \A t \in DOMAIN Reachable : new[t] = UNION {StructCells(t, f) : f \in SharedFns(t)}
  BY <1>2
<1>5. Grows
  BY <1>3 DEF Grows
<1>6. PlaceInv'
  BY <1>0, <1>1, PlaceStep DEF Phases
<1>7. DomainInv'
  BY <1>0, <1>1, <1>3 DEF DomainInv
<1>8. SoundInv'
  <2>1. ASSUME Separate, NEW t \in DOMAIN Reachable, NEW cell \in Get(t)', cell \notin Get(t)
        PROVE  Good(cell, t)
    <3>1. PICK f \in SharedFns(t) : cell \in StructCells(t, f)
      BY <1>3, <1>4, <2>1
    <3>2. cell[3] = f /\ Denotes(cell, f)
      BY <2>1, <3>1, StructCellFacts
    <3> QED BY <3>1, <3>2 DEF Good, Reaches
  <2> QED BY <1>0, <1>1, <2>1, SoundStep
<1>9. CallsInv'
  BY <1>0, <1>1, <1>5, CallsStep
<1>10. PhasesInv'
  <2>1. ASSUME Separate, NEW t \in DOMAIN Reachable, NEW f \in Known, f \in SharedFns(t)
        PROVE  Listed(f, t)'
    <3>1. PICK cell \in Get(t) \cup StructCells(t, f) : Denotes(cell, f)
      BY <2>1, StructCellFacts
    <3>2. cell \in Get(t)'
      BY <1>3, <1>4, <2>1
    <3> QED BY <3>1, <3>2 DEF Listed, Denotes
  <2> QED BY <1>0, <1>1, <1>5, <2>1, PhasesStep
<1>11. StopsForCause'
  BY <1>1 DEF StopsForCause
<1> QED BY <1>6, <1>7, <1>8, <1>9, <1>10, <1>11 DEF LInv

\* The global structures.
LEMMA GlobalSymsKeeps ==
    ASSUME LInv, GlobalSyms
    PROVE  LInv'
<1>0. PlaceInv /\ DomainInv /\ SoundInv /\ CallsInv /\ PhasesInv
  BY DEF LInv
<1>1. /\ pc = "globals" /\ pc' = "may" /\ todo = {} /\ in' = in
      /\ todo' = todo /\ left' = left
  BY <1>0 DEF GlobalSyms, PlaceInv
<1>2. /\ DOMAIN header' = DOMAIN header \cup {x \in DOMAIN Reachable : GlobalFns(x) # {}}
      /\ \A t \in DOMAIN header' :
            header'[t] = Get(t) \cup IF t \in DOMAIN Reachable
                                     THEN {PltAddr(f) : f \in {g \in GlobalFns(t) : HasStub(g)}}
                                     ELSE {}
  BY DEF GlobalSyms
<1>3. ASSUME NEW t \in DOMAIN Reachable
      PROVE  Get(t)' = Get(t) \cup {PltAddr(f) : f \in {g \in GlobalFns(t) : HasStub(g)}}
  <2>1. CASE t \in DOMAIN header'
    <3>1. header'[t] = Get(t) \cup {PltAddr(f) : f \in {g \in GlobalFns(t) : HasStub(g)}}
      BY <1>2, <2>1
    <3> QED BY <2>1, <3>1 DEF Get
  <2>2. CASE t \notin DOMAIN header'
    <3>1. GlobalFns(t) = {} /\ t \notin DOMAIN header
      BY <1>2, <2>2
    <3>2. {PltAddr(f) : f \in {g \in GlobalFns(t) : HasStub(g)}} = {}
      BY <3>1
    <3> QED BY <2>2, <3>1, <3>2 DEF Get
  <2> QED BY <2>1, <2>2
<1>4. Grows
  BY <1>3 DEF Grows
<1>5. PlaceInv'
  BY <1>0, <1>1, PlaceStep DEF Phases
<1>6. DomainInv'
  BY <1>0, <1>1, <1>2 DEF DomainInv
<1>7. SoundInv'
  <2>1. ASSUME NEW t \in DOMAIN Reachable, NEW cell \in Get(t)', cell \notin Get(t)
        PROVE  Good(cell, t)
    <3>1. PICK f \in GlobalFns(t) : HasStub(f) /\ cell = PltAddr(f)
      BY <1>3, <2>1
    <3>2. cell[3] = f /\ Denotes(cell, f)
      BY <3>1, Cells
    <3> QED BY <3>1, <3>2 DEF Good, Reaches
  <2> QED BY <1>0, <1>1, <2>1, SoundStep
<1>8. CallsInv'
  BY <1>0, <1>1, <1>4, CallsStep
<1>9. PhasesInv'
  <2>1. ASSUME NEW t \in DOMAIN Reachable, NEW f \in GlobalFns(t), HasStub(f)
        PROVE  Listed(f, t)'
    <3>1. PltAddr(f) \in Get(t)' /\ Denotes(PltAddr(f), f)
      BY <1>3, <2>1, Cells
    <3> QED BY <3>1 DEF Listed, Denotes
  <2> QED BY <1>0, <1>1, <1>4, <2>1, PhasesStep
<1>10. StopsForCause'
  BY <1>1 DEF StopsForCause
<1> QED BY <1>5, <1>6, <1>7, <1>8, <1>9, <1>10 DEF LInv

\* The own functions among the matches of MayStructs are those that may reach
\* a library.
LEMMA MayMatchesRight ==
    ASSUME NEW f, NEW t, f \in Own
    PROVE  MayReach(f, t) <=> \E m \in MayMatches : m[3] = f /\ TagOf[m[2]] = t
<1>1. ASSUME NEW m \in MayMatches, m[3] = f, TagOf[m[2]] = t PROVE MayReach(f, t)
  <2>1. PICK l1 \in Lines("may"), k \in Range(Libs), d \in {l.fn : l \in Lines("stored")} :
             m = <<l1, k, d>>
    BY DEF MayMatches
  <2>2. d = f /\ TagOf[k] = t
    BY <1>1, <2>1
  <2>3. /\ f \in Stored(l1.struct) /\ l1.fn \in Exports[k]
        /\ \E l \in Lines("may") : /\ l.fn = l1.fn /\ l.struct = l1.struct
                                   /\ l.index \in Indices(l.fn)
    BY <2>1, <2>2 DEF MayMatches
  <2>4. PICK l \in Lines("may") : /\ l.fn = l1.fn /\ l.struct = l1.struct
                                  /\ l.index \in Indices(l.fn)
    BY <2>3
  <2>5. PICK x \in Lines("call") : Getter(x) = l.fn /\ x.index = l.index
    BY <2>4 DEF Indices
  <2>6. /\ TagOf[k] = t /\ l.fn \in Exports[k] /\ f \in Stored(l.struct)
        /\ \E y \in Lines("call") : Getter(y) = l.fn /\ y.index = l.index
    BY <2>2, <2>3, <2>4, <2>5
  <2> QED BY <2>1, <2>4, <2>6 DEF MayReach
<1>2. ASSUME MayReach(f, t) PROVE \E m \in MayMatches : m[3] = f /\ TagOf[m[2]] = t
  <2>1. PICK k \in Range(Libs), l \in Lines("may") :
             /\ TagOf[k] = t /\ l.fn \in Exports[k] /\ f \in Stored(l.struct)
             /\ \E x \in Lines("call") : Getter(x) = l.fn /\ x.index = l.index
    BY <1>2 DEF MayReach
  <2>2. PICK x \in Lines("call") : Getter(x) = l.fn /\ x.index = l.index
    BY <2>1
  <2>3. l.fn \in CallDict /\ l.index \in Indices(l.fn)
    BY <2>2 DEF CallDict, Indices
  <2>4. f \in {y.fn : y \in Lines("stored")}
    BY <2>1 DEF Stored
  <2>5. <<l, k, f>> \in MayMatches
    BY <2>1, <2>3, <2>4 DEF MayMatches
  <2>6. <<l, k, f>>[3] = f /\ TagOf[<<l, k, f>>[2]] = t
    BY <2>1
  <2> QED BY <2>5, <2>6
<1> QED BY <1>1, <1>2

\* When MayStructs stops, it has a reason.
LEMMA MayStopsForCause ==
    ASSUME MayStops, in' = in, header' = header
    PROVE  StopsForCause'
<1>1. PICK m \in MayMatches : \/ m[3] \in Own /\ TagOf[m[2]] \notin DOMAIN header
                              \/ m[3] \in CallDict
  BY DEF MayStops
<1>2. PICK l1 \in Lines("may"), k \in Range(Libs), f \in {l.fn : l \in Lines("stored")} :
           m = <<l1, k, f>>
  BY DEF MayMatches
<1>3. PICK t \in DOMAIN Reachable : t = TagOf[k]
  BY ParserAssumption
<1>4. m[3] = f /\ TagOf[m[2]] = t
  BY <1>2, <1>3
<1>5. \/ f \in Own /\ MayReach(f, t) /\ t \notin DOMAIN header
      \/ f \in CallDict
  BY <1>1, <1>4, MayMatchesRight
<1>6. \/ f \in Own /\ MayReach(f, t)' /\ t \notin DOMAIN header'
      \/ f \in CallDict'
  BY <1>5, SameInput
<1>7. \E l \in Lines("stored")' : l.fn = f
  BY <1>2 DEF Lines
<1> QED BY <1>6, <1>7 DEF StopsForCause

\* The arguments that may come from a structure.
LEMMA MayStructsKeeps ==
    ASSUME LInv, MayStructs
    PROVE  LInv'
<1>0. PlaceInv /\ DomainInv /\ SoundInv /\ CallsInv /\ PhasesInv
  BY DEF LInv
<1>1. pc = "may" /\ todo = {} /\ in' = in /\ todo' = todo /\ left' = left
  BY <1>0 DEF MayStructs, PlaceInv
<1>2. CASE MayStops
  <2>1. pc' = "failed" /\ header' = header
    BY <1>2 DEF MayStructs
  <2>2. \A t : Get(t)' = Get(t)
    BY <2>1 DEF Get
  <2>3. PlaceInv'
    BY <1>0, <1>1, <2>1, PlaceStep DEF Phases
  <2>4. DomainInv'
    BY <1>0, <1>1, <2>1 DEF DomainInv
  <2>5. SoundInv'
    BY <1>0, <1>1, <2>2, SoundStep
  <2>6. CallsInv' /\ PhasesInv'
    BY <2>1 DEF CallsInv, PhasesInv
  <2>7. StopsForCause'
    BY <1>1, <1>2, <2>1, MayStopsForCause
  <2> QED BY <2>3, <2>4, <2>5, <2>6, <2>7 DEF LInv
<1>3. CASE ~MayStops
  <2>1. pc' = "main"
    BY <1>3 DEF MayStructs
  <2>2. PICK new : /\ header' = WithAll(new)
                   /\ new = [t \in DOMAIN Reachable |->
                        {OwnCell(m[3]) : m \in {x \in MayMatches : x[3] \in Own
                                                                   /\ TagOf[x[2]] = t}}]
    BY <1>3 DEF MayStructs
  <2>3. /\ DOMAIN header' \subseteq DOMAIN header \cup DOMAIN Reachable
        /\ \A t \in DOMAIN Reachable : Get(t)' = Get(t) \cup new[t]
    <3>1. DOMAIN new = DOMAIN Reachable
      BY <2>2
    <3> QED BY <2>2, <3>1, WithAllFacts
  <2>4. ASSUME NEW t \in DOMAIN Reachable
        PROVE  /\ \A cell \in new[t] : \E f \in Own : MayReach(f, t) /\ cell = OwnCell(f)
               /\ \A f : OwnMay(f, t) => f \in Own /\ OwnCell(f) \in new[t]
    <3>1. new[t] = {OwnCell(m[3]) : m \in {x \in MayMatches : x[3] \in Own
                                                               /\ TagOf[x[2]] = t}}
      BY <2>2
    <3>2. ASSUME NEW cell \in new[t]
          PROVE  \E f \in Own : MayReach(f, t) /\ cell = OwnCell(f)
      <4>1. PICK m \in MayMatches : m[3] \in Own /\ TagOf[m[2]] = t /\ cell = OwnCell(m[3])
        BY <3>1
      <4> QED BY <4>1, MayMatchesRight
    <3>3. ASSUME NEW f, OwnMay(f, t) PROVE f \in Own /\ OwnCell(f) \in new[t]
      <4>1. f \in Own /\ MayReach(f, t)
        BY <3>3 DEF OwnMay
      <4>2. PICK m \in MayMatches : m[3] = f /\ TagOf[m[2]] = t
        BY <3>3, <4>1, MayMatchesRight
      <4>3. OwnCell(m[3]) \in new[t]
        BY <3>1, <4>1, <4>2
      <4> QED BY <4>1, <4>2, <4>3
    <3> QED BY <3>2, <3>3
  <2>5. Grows
    BY <2>3 DEF Grows
  <2>6. PlaceInv'
    BY <1>0, <1>1, <2>1, PlaceStep DEF Phases
  <2>7. DomainInv'
    BY <1>0, <1>1, <2>1, <2>3 DEF DomainInv
  <2>8. SoundInv'
    <3>1. ASSUME NEW t \in DOMAIN Reachable, NEW cell \in Get(t)', cell \notin Get(t)
          PROVE  Good(cell, t)
      <4>1. PICK f \in Own : MayReach(f, t) /\ cell = OwnCell(f)
        BY <2>3, <2>4, <3>1
      <4>2. cell[3] = f /\ Denotes(cell, f)
        BY <4>1, Cells
      <4> QED BY <4>1, <4>2 DEF Good, Reaches
    <3> QED BY <1>0, <1>1, <3>1, SoundStep
  <2>9. CallsInv'
    BY <1>0, <1>1, <2>5, CallsStep
  <2>10. PhasesInv'
    <3>1. ASSUME NEW t \in DOMAIN Reachable, NEW f, OwnMay(f, t) PROVE Listed(f, t)'
      <4>1. OwnCell(f) \in Get(t)' /\ Denotes(OwnCell(f), f)
        BY <2>3, <2>4, <3>1, Cells
      <4> QED BY <4>1 DEF Listed, Denotes
    <3> QED BY <1>0, <1>1, <2>1, <2>5, <3>1, PhasesStep
  <2>11. StopsForCause'
    BY <2>1 DEF StopsForCause
  <2> QED BY <2>6, <2>7, <2>8, <2>9, <2>10, <2>11 DEF LInv
<1> QED BY <1>2, <1>3

\* What main adds to the lists of the libraries: the constructors.
LEMMA MainFacts ==
    ASSUME Main
    PROVE  /\ DOMAIN header' \subseteq DOMAIN header \cup {"LIBC", "FINI", "THREADKEY"}
           /\ \A t \in DOMAIN Reachable :
                 /\ Get(t) \subseteq Get(t)'
                 /\ \A cell \in Get(t)' \ Get(t) : cell \in Init_ /\ t = "LIBC" /\ in.main
<1>1. PICK h : /\ h = IF in.main THEN Put(header, "LIBC", Init_ \cup Get("LIBC")) ELSE header
               /\ header' = Put(Put(h, "FINI", Fini), "THREADKEY", {})
  BY DEF Main
<1>2. PICK h2 : h2 = Put(h, "FINI", Fini)
  OBVIOUS
<1>3. /\ DOMAIN h2 = DOMAIN h \cup {"FINI"}
      /\ \A u \in DOMAIN h : u # "FINI" => h2[u] = h[u]
  BY <1>2 DEF Put
<1>4. /\ DOMAIN header' = DOMAIN h2 \cup {"THREADKEY"}
      /\ \A u \in DOMAIN h2 : u # "THREADKEY" => header'[u] = h2[u]
  BY <1>1, <1>2 DEF Put
<1>5. \A t \in DOMAIN Reachable : t # "FINI" /\ t # "THREADKEY"
  BY ParserAssumption
<1>6. \A t \in DOMAIN Reachable : At(header', t) = At(h, t)
  BY <1>3, <1>4, <1>5 DEF At
<1>7. \A t : Get(t) = At(header, t) /\ Get(t)' = At(header', t)
  BY DEF Get, At
<1>8. CASE ~in.main
  <2>1. h = header
    BY <1>1, <1>8
  <2> QED BY <1>3, <1>4, <1>6, <1>7, <2>1
<1>9. CASE in.main
  <2>1. /\ DOMAIN h = DOMAIN header \cup {"LIBC"}
        /\ h["LIBC"] = Init_ \cup Get("LIBC")
        /\ \A u \in DOMAIN header : u # "LIBC" => h[u] = header[u]
    BY <1>1, <1>9 DEF Put
  <2>2. At(h, "LIBC") = Init_ \cup At(header, "LIBC")
    BY <1>7, <2>1 DEF At
  <2>3. \A u : u # "LIBC" => At(h, u) = At(header, u)
    BY <2>1 DEF At
  <2>4. DOMAIN header' \subseteq DOMAIN header \cup {"LIBC", "FINI", "THREADKEY"}
    BY <1>3, <1>4, <2>1
  <2>5. ASSUME NEW t \in DOMAIN Reachable
        PROVE  /\ Get(t) \subseteq Get(t)'
               /\ \A cell \in Get(t)' \ Get(t) : cell \in Init_ /\ t = "LIBC"
    <3>1. CASE t = "LIBC"
      BY <1>6, <1>7, <2>2, <3>1
    <3>2. CASE t # "LIBC"
      BY <1>6, <1>7, <2>3, <3>2
    <3> QED BY <3>1, <3>2
  <2> QED BY <1>9, <2>4, <2>5
<1> QED BY <1>8, <1>9

\* The end of main.
LEMMA MainKeeps ==
    ASSUME LInv, Main
    PROVE  LInv'
<1>0. PlaceInv /\ DomainInv /\ SoundInv /\ CallsInv /\ PhasesInv
  BY DEF LInv
<1>1. /\ pc = "main" /\ pc' = "done" /\ todo = {} /\ in' = in
      /\ todo' = todo /\ left' = left
  BY <1>0 DEF Main, PlaceInv
<1>2. /\ DOMAIN header' \subseteq DOMAIN header \cup {"LIBC", "FINI", "THREADKEY"}
      /\ \A t \in DOMAIN Reachable :
            /\ Get(t) \subseteq Get(t)'
            /\ \A cell \in Get(t)' \ Get(t) : cell \in Init_ /\ t = "LIBC" /\ in.main
  BY MainFacts
<1>3. Grows
  BY <1>2 DEF Grows
<1>4. PlaceInv'
  BY <1>0, <1>1, PlaceStep DEF Phases
<1>5. DomainInv'
  BY <1>0, <1>1, <1>2, ParserAssumption DEF DomainInv
<1>6. SoundInv'
  <2> SUFFICES ASSUME Separate', NEW t \in DOMAIN Reachable, NEW cell \in Get(t)'
               PROVE  \/ cell \in Init_ /\ t = "LIBC" /\ in.main
                      \/ Good(cell, t)'
    BY <1>1 DEF SoundInv
  <2>1. Separate
    BY <1>1, SameInput
  <2>2. CASE cell \in Get(t)
    <3>1. Good(cell, t)
      BY <1>0, <1>1, <2>1, <2>2 DEF SoundInv
    <3> QED BY <1>1, <3>1, SameInput DEF Good, Denotes
  <2>3. CASE cell \notin Get(t)
    BY <1>2, <2>3
  <2> QED BY <2>2, <2>3
<1>7. CallsInv'
  BY <1>0, <1>1, <1>3, CallsStep
<1>8. PhasesInv'
  BY <1>0, <1>1, <1>3, PhasesStep
<1>9. StopsForCause'
  BY <1>1 DEF StopsForCause
<1> QED BY <1>4, <1>5, <1>6, <1>7, <1>8, <1>9 DEF LInv

-----------------------------------------------------------------------------
(* The invariant, and what it gives.                                       *)

\* The invariant holds when the script has read its logs.
LEMMA InitLInv == Init => LInv
<1> SUFFICES ASSUME Init PROVE LInv
  OBVIOUS
<1>1. in \in Inputs /\ pc = "calls" /\ todo = FirstLines /\ left = CalleesAt(todo)
  BY DEF Init, CalleesAt
<1>2. DOMAIN header = {}
  BY DEF Init
<1>3. \A t : Get(t) = {}
  BY <1>2 DEF Get
<1>4. PlaceInv
  BY <1>1 DEF PlaceInv, Phases
<1>5. DomainInv /\ SoundInv /\ StopsForCause
  BY <1>1, <1>2, <1>3 DEF DomainInv, SoundInv, StopsForCause
<1>6. PhasesInv
  BY <1>1 DEF PhasesInv
<1>7. CallsInv
  <2> SUFFICES ASSUME NEW p \in FirstLines, NEW g \in CallDict, g = Getter(in.lines[p])
               PROVE  Served(p, g) /\ Handed(p, g)
    BY DEF CallsInv
  <2>1. Handed(p, g)
    BY <1>1 DEF Handed
  <2>2. ASSUME p = Min(todo), NEW c \in Callees(g) PROVE c \in left
    BY <1>1, <2>2 DEF CalleesAt
  <2>3. Served(p, g)
    BY <1>1, <2>2 DEF Served
  <2> QED BY <2>1, <2>3
<1> QED BY <1>4, <1>5, <1>6, <1>7 DEF LInv

\* Steps that change nothing keep it.
LEMMA StutterLInv ==
    ASSUME LInv, UNCHANGED vars
    PROVE  LInv'
<1>0. PlaceInv /\ DomainInv /\ SoundInv /\ CallsInv /\ PhasesInv /\ StopsForCause
  BY DEF LInv
<1>1. in' = in /\ pc' = pc /\ todo' = todo /\ left' = left /\ header' = header
  BY DEF vars
<1>2. \A t : Get(t)' = Get(t)
  BY <1>1 DEF Get
<1>3. PlaceInv'
  BY <1>0, <1>1, PlaceStep DEF PlaceInv
<1>4. DomainInv'
  BY <1>0, <1>1 DEF DomainInv
<1>5. \A cell, t : Good(cell, t)' <=> Good(cell, t)
  BY <1>1, SameInput DEF Good, Denotes
<1>6. \A f, t : Listed(f, t)' <=> Listed(f, t)
  BY <1>2 DEF Listed, Denotes
<1>7. SoundInv'
  BY <1>0, <1>1, <1>2, <1>5, SameInput DEF SoundInv
<1>8. CallsInv'
  <2>1. CASE pc = "failed"
    BY <1>1, <2>1 DEF CallsInv
  <2>2. CASE pc # "failed"
    BY <1>0, <1>1, <1>2, <2>2, CallsStep DEF Grows
  <2> QED BY <2>1, <2>2
<1>9. PhasesInv'
  BY <1>0, <1>1, <1>6, SameInput DEF PhasesInv, Known, HasStub
<1>10. StopsForCause'
  <2>1. \A kind : Lines(kind)' = Lines(kind)
    BY <1>1 DEF Lines
  <2> QED BY <1>0, <1>1, <2>1, SameInput DEF StopsForCause
<1> QED BY <1>3, <1>4, <1>7, <1>8, <1>9, <1>10 DEF LInv

\* The inductive invariant of check() and main: where the script is in the
\* log, that each list has only what reaches its library, and that nothing of
\* the getters and phases that are behind is missing.
THEOREM ListsInvariant == Spec => []LInv
<1>1. Init => LInv
  BY InitLInv
<1>2. LInv /\ [Next]_vars => LInv'
  <2> SUFFICES ASSUME LInv, [Next]_vars PROVE LInv'
    OBVIOUS
  <2>1. ASSUME NEW c \in left, AddCallee(c) PROVE LInv'
    BY <2>1, AddCalleeKeeps
  <2>2. CASE EndItem
    BY <2>2, EndItemKeeps
  <2>3. CASE StructCallbacks
    BY <2>3, StructCallbacksKeeps
  <2>4. CASE GlobalSyms
    BY <2>4, GlobalSymsKeeps
  <2>5. CASE MayStructs
    BY <2>5, MayStructsKeeps
  <2>6. CASE Main
    BY <2>6, MainKeeps
  <2>7. CASE UNCHANGED vars
    BY <2>7, StutterLInv
  <2> QED BY <2>1, <2>2, <2>3, <2>4, <2>5, <2>6, <2>7 DEF Next
<1> QED BY <1>1, <1>2, PTL DEF Spec

\* The lists are kept under the tags of libraries, and the script looks at the
\* getters of the log only.
THEOREM ParserTypeCorrect == Spec => []TypeOK
<1>1. LInv => TypeOK
  BY DEF LInv, PlaceInv, DomainInv, Phases, CalleesAt, Current, TypeOK
<1> QED BY <1>1, ListsInvariant, PTL

\* Whatever the libraries, the logs and the order of Python's sets, every known
\* function that the logs show to reach a library is on its list when the
\* script is done: the one that is handed on by a getter of the binary to any
\* library any line of the logs names, too.  Required is that the libraries'
\* own functions stay apart, and that the logs do not name two libraries for
\* one getter, of which check() would serve one.
THEOREM CallbacksAreListed == Spec => []CallbacksListed
<1>1. LInv => CallbacksListed
  <2> SUFFICES ASSUME LInv, pc = "done", Separate, NothingDropped,
                      NEW t \in DOMAIN Reachable, NEW f \in Known, Reaches(f, t)
               PROVE  Listed(f, t)
    BY DEF CallbacksListed, Known, Listed
  <2>1. in \in Inputs /\ todo = {}
    BY DEF LInv, PlaceInv
  <2>2. ASSUME NEW g \in CallDict
        PROVE  \E p \in FirstLines : Served(p, g) /\ Handed(p, g)
    <3>1. PICK p \in FirstLines : Getter(in.lines[p]) = g
      BY <2>1, FirstLine
    <3> QED BY <3>1 DEF LInv, CallsInv
  <2>3. CASE PassedTo(f, t)
    <3>1. PICK l \in Lines("call") : /\ l.callee = f /\ Provider(Getter(l)) # NoLib
                                     /\ TagOf[Provider(Getter(l))] = t
      BY <2>3 DEF PassedTo
    <3>2. Getter(l) \in CallDict /\ f \in Callees(Getter(l))
      BY <3>1 DEF CallDict, Callees
    <3>3. PICK p \in FirstLines : Served(p, Getter(l))
      BY <2>2, <3>2
    <3> QED BY <2>1, <3>1, <3>2, <3>3 DEF Served
  <2>4. CASE HandedOnTo(f, t)
    <3>0. PICK g \in CallDict :
               /\ f \in Callees(g)
               /\ \E l \in ForwardedTo(g) \cup PassedByStruct(g) : TagOf[l] = t
      BY <2>4 DEF HandedOnTo
    <3>1. PICK l \in ForwardedTo(g) \cup PassedByStruct(g) : TagOf[l] = t
      BY <3>0
    <3>2. f \in Own
      BY <3>0, <3>1 DEF NothingDropped, Known
    <3>3. l \in {RedirectOf(g), StructSinkOf(g)} \ {NoLib}
      <4>1. CASE l \in ForwardedTo(g)
        <5>1. RedirectOf(g) # NoLib /\ RedirectOf(g) \in ForwardedTo(g)
          BY <2>1, <4>1, ReceiverFacts
        <5> QED BY <4>1, <5>1 DEF NothingDropped
      <4>2. CASE l \in PassedByStruct(g)
        <5>1. StructSinkOf(g) # NoLib /\ StructSinkOf(g) \in PassedByStruct(g)
          BY <2>1, <4>2, ReceiverFacts
        <5> QED BY <4>2, <5>1 DEF NothingDropped
      <4> QED BY <3>1, <4>1, <4>2
    <3>4. PICK p \in FirstLines : Handed(p, g)
      BY <2>2
    <3> QED BY <2>1, <3>0, <3>1, <3>2, <3>3, <3>4 DEF Handed
  <2>5. CASE MayReach(f, t)
    <3>1. f \in Own
      BY <2>5 DEF MayReach, NothingDropped, Known
    <3> QED BY <2>5, <3>1 DEF LInv, PhasesInv, OwnMay
  <2>6. CASE f \in SharedFns(t) \/ (f \in GlobalFns(t) /\ HasStub(f))
    BY <2>6 DEF LInv, PhasesInv
  <2> QED BY <2>3, <2>4, <2>5, <2>6 DEF Reaches
<1> QED BY <1>1, ListsInvariant, PTL

\* A finished list has nothing but addresses of functions that the logs show to
\* reach its library, and the constructors of a main binary for libc.
THEOREM OnlyCallbacksListed == Spec => []NothingElseListed
<1>1. LInv => NothingElseListed
  BY DEF LInv, SoundInv, Good, NothingElseListed
<1> QED BY <1>1, ListsInvariant, PTL

\* The script gives up for the two reasons it has only: a library's function
\* that is passed on and has no stub, and a stored function that is itself a
\* getter or whose library has no list.
THEOREM StopsHaveCause == Spec => []StopsForCause
<1>1. LInv => StopsForCause
  BY DEF LInv
<1> QED BY <1>1, ListsInvariant, PTL
=============================================================================
