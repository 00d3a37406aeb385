--------------------------- MODULE PltLayoutProofs ---------------------------
(***************************************************************************)
(* Proofs about PltLayout, for any symbols and any input relocations: the  *)
(* .got.plt slot that getGotPltOffset recomputes is the symbol's own, and  *)
(* calls and taken addresses lead to their symbol.                         *)
(***************************************************************************)
EXTENDS PltLayout, TLAPS

\* What appending one entry does to a section.
LEMMA AppendEntry ==
    ASSUME NEW S, NEW q \in Seq(S), NEW e \in S
    PROVE  /\ Append(q, e) \in Seq(S)
           /\ Len(Append(q, e)) = Len(q) + 1
           /\ Len(q) \in Nat
           /\ \A i \in 1 .. Len(q) : Append(q, e)[i] = q[i]
           /\ Append(q, e)[Len(q) + 1] = e
  OBVIOUS

-----------------------------------------------------------------------------
(* The inductive invariant.                                                *)

\* Allocation starts when the scan is over.
PhaseInv == pending # {} => todo = Symbols

\* Mask symbols never have a stub; every other symbol has class 0 or 1.
ClassInv ==
    /\ \A s \in OrMasks \cup AndMasks :
          ctype[s] \in {0, 2, 10} /\ "PLT" \notin needs[s]
    /\ \A s \in Funcs \cup Placeholders : ctype[s] \in {0, 1}

\* The next slot is the combined index of the next stub.
CountInv == Len(gotPlt) = Len(fakeplt) + Len(plt) - bothplts

\* The saved position finds the symbol's stub in its section.
PositionInv ==
    \A s \in Symbols : Stubbed(s) =>
        LET q == IF ctype[s] = 1 THEN fakeplt ELSE plt
        IN /\ aux[s].non_fake_plt \in 0 .. Len(q) - 1
           /\ q[aux[s].non_fake_plt + 1] = s

\* Relocation i of .rela.plt is the one of slot i.
RelocInv ==
    /\ Len(relaPlt) = Len(gotPlt)
    /\ \A i \in 1 .. Len(gotPlt) :
          /\ relaPlt[i].sym = gotPlt[i]
          /\ relaPlt[i].slot = GotPltHeader + i - 1

\* Sections hold visited symbols, each once.
OwnerInv ==
    /\ \A i \in 1 .. Len(gotPlt) : gotPlt[i] \notin todo
    /\ \A i \in 1 .. Len(fakeplt) : fakeplt[i] \notin todo
    /\ \A i, j \in 1 .. Len(gotPlt) : gotPlt[i] = gotPlt[j] => i = j
    /\ \A i, j \in 1 .. Len(fakeplt) : fakeplt[i] = fakeplt[j] => i = j

IInv ==
    /\ TypeOK
    /\ PhaseInv
    /\ ClassInv
    /\ CountInv
    /\ SlotsExact
    /\ PositionInv
    /\ RelocInv
    /\ OwnerInv

-----------------------------------------------------------------------------
\* The types at the start.
LEMMA TypeInit == Init => TypeOK
<1> SUFFICES ASSUME Init PROVE TypeOK
  OBVIOUS
<1>1. NoAux \in [pltIdx : Int, fakepltIdx : Int,
                 non_fake_plt : Nat, both_plts : Nat]
  BY DEF NoAux, Unset
<1>2. /\ got \in Seq(Symbols) /\ fakeplt \in Seq(Symbols)
      /\ plt \in Seq(Symbols) /\ gotPlt \in Seq(Symbols)
      /\ relaPlt \in Seq([sym : Symbols, slot : Int])
  BY DEF Init
<1>3. /\ gotIdx \in [Symbols -> Int]
      /\ canonical \in [Symbols -> Int]
      /\ aux \in [Symbols -> [pltIdx : Int, fakepltIdx : Int,
                              non_fake_plt : Nat, both_plts : Nat]]
  BY <1>1 DEF Init, Unset
<1>4. /\ ctype \in [Symbols -> {0, 1, 2, 10}]
      /\ needs \in [Symbols -> SUBSET {"GOT", "PLT", "COPY"}]
      /\ gotRel \in [Symbols -> {"NONE", "ORMASK", "ANDMASK", "RELATIVE",
                                 "GLOB_DAT"}]
  BY DEF Init
<1>5. shared \in BOOLEAN /\ input \subseteq Relocs
  BY LinkAssumption DEF Init
<1> QED
  BY <1>2, <1>3, <1>4, <1>5 DEF Init, TypeOK

\* Nothing has been scanned at the start.
LEMMA InitIInv == Init => IInv
<1> SUFFICES ASSUME Init PROVE IInv
  OBVIOUS
<1>1. TypeOK
  BY TypeInit
<1>2. \A s \in Symbols : ~Stubbed(s)
  BY DEF Init, Stubbed, Visited
<1>3. PhaseInv /\ CountInv /\ RelocInv /\ OwnerInv
  BY DEF Init, PhaseInv, CountInv, RelocInv, OwnerInv
<1>4. ClassInv
  BY DEF Init, ClassInv, Symbols
<1>5. SlotsExact /\ PositionInv
  BY <1>2 DEF SlotsExact, PositionInv
<1> QED
  BY <1>1, <1>3, <1>4, <1>5 DEF IInv

-----------------------------------------------------------------------------
(* Scanning.                                                               *)

\* Scanning one relocation keeps the invariant.
LEMMA ScanOneIInv ==
    ASSUME IInv, NEW r \in pending, ScanOne(r)
    PROVE  IInv'
<1> DEFINE s == r.sym
           t == CustomType(s, r.kind, ctype[s])
<1>0. /\ r \in [sym : Symbols, kind : Kinds]
      /\ s \in Symbols
      /\ todo = Symbols
      /\ todo' = todo
  BY DEF IInv, TypeOK, PhaseInv, ScanOne, Relocs
<1>1. UNCHANGED <<todo, gotVars, stubVars, shared, input>>
  BY DEF ScanOne
<1>2. t \in {0, 1, 2, 10}
  BY <1>0 DEF CustomType, IInv, TypeOK
<1>3. Flags(s, r.kind, t) \subseteq {"GOT", "PLT", "COPY"}
  BY DEF Flags
<1>4. TypeOK'
  <2>1. ctype' \in [Symbols -> {0, 1, 2, 10}]
    BY <1>0, <1>2 DEF ScanOne, IInv, TypeOK
  <2>2. needs' \in [Symbols -> SUBSET {"GOT", "PLT", "COPY"}]
    BY <1>0, <1>3 DEF ScanOne, IInv, TypeOK
  <2>3. dataRel' \subseteq Symbols /\ err' \in BOOLEAN /\ pending' \subseteq input'
    BY <1>0, <1>1 DEF ScanOne, IInv, TypeOK
  <2> QED
    BY <1>1, <2>1, <2>2, <2>3
       DEF IInv, TypeOK, gotVars, stubVars
<1>5. PhaseInv'
  BY <1>0 DEF PhaseInv
<1>6. ClassInv'
  <2>1. s \in OrMasks \cup AndMasks => t \in {2, 10}
    BY DEF CustomType
  <2>2. s \in Funcs \cup Placeholders => t \in {0, 1}
    BY SymbolClasses DEF CustomType, IInv, ClassInv
  <2>3. t \in {2, 10} => Flags(s, r.kind, t) = {"GOT"}
    BY DEF Flags
  <2>4. /\ ctype' = [ctype EXCEPT ![s] = t]
        /\ needs' = [needs EXCEPT ![s] = @ \cup Flags(s, r.kind, t)]
    BY DEF ScanOne
  <2> QED
    BY <1>0, <2>1, <2>2, <2>3, <2>4 DEF IInv, TypeOK, ClassInv, Symbols
<1>7. \A x \in Symbols : ~Stubbed(x)'
  BY <1>0 DEF Stubbed, Visited
<1>8. SlotsExact' /\ PositionInv'
  BY <1>7 DEF SlotsExact, PositionInv
<1>9. CountInv' /\ RelocInv' /\ OwnerInv'
  BY <1>0, <1>1 DEF IInv, CountInv, RelocInv, OwnerInv, stubVars
<1> QED
  BY <1>4, <1>5, <1>6, <1>8, <1>9 DEF IInv

-----------------------------------------------------------------------------
(* Allocation.                                                             *)

AuxRecord == [pltIdx : Int, fakepltIdx : Int, non_fake_plt : Nat, both_plts : Nat]

\* The three saved-index computations agree on the slot: the next one.
LEMMA NextSlot ==
    ASSUME IInv
    PROVE  /\ FakePltAux \in AuxRecord /\ BothAux \in AuxRecord
           /\ PltAux \in AuxRecord
           /\ GotPltOffset(1, FakePltAux) = GotPltHeader + Len(gotPlt)
           /\ GotPltOffset(1, BothAux) = GotPltHeader + Len(gotPlt)
           /\ GotPltOffset(0, PltAux) = GotPltHeader + Len(gotPlt)
<1>1. /\ Len(fakeplt) \in Nat /\ Len(plt) \in Nat
      /\ bothplts \in Nat
      /\ Len(gotPlt) = Len(fakeplt) + Len(plt) - bothplts
  BY DEF IInv, TypeOK, CountInv
<1>2. BothAux = [pltIdx |-> Len(plt) + Len(fakeplt) + 1,
                 fakepltIdx |-> Len(fakeplt) + Len(plt),
                 non_fake_plt |-> Len(fakeplt), both_plts |-> bothplts]
  BY DEF BothAux, FakePltAux
<1>3. /\ FakePltAux \in AuxRecord /\ BothAux \in AuxRecord
      /\ PltAux \in AuxRecord
  BY <1>1, <1>2 DEF AuxRecord, Unset, FakePltAux, PltAux
<1> QED
  BY <1>1, <1>2, <1>3 DEF GotPltOffset, GotPltHeader, FakePltAux, PltAux

\* Giving symbol s the next slot keeps every slot with its symbol.
LEMMA SlotAdded ==
    ASSUME IInv, NEW s \in todo, NEW a \in AuxRecord,
           todo' = todo \ {s},
           UNCHANGED scanVars,
           GotPltOffset(ctype[s], a) = GotPltHeader + Len(gotPlt),
           gotPlt' = Append(gotPlt, s),
           aux' = [aux EXCEPT ![s] = a],
           relaPlt' = Append(relaPlt, [sym |-> s,
                                       slot |-> GotPltHeader + Len(gotPlt)])
    PROVE  /\ gotPlt' \in Seq(Symbols)
           /\ relaPlt' \in Seq([sym : Symbols, slot : Int])
           /\ aux' \in [Symbols -> AuxRecord]
           /\ Len(gotPlt') = Len(gotPlt) + 1
           /\ SlotsExact' /\ RelocInv'
           /\ \A i \in 1 .. Len(gotPlt') : gotPlt'[i] \notin todo'
           /\ \A i, j \in 1 .. Len(gotPlt') : gotPlt'[i] = gotPlt'[j] => i = j
<1> DEFINE n == Len(gotPlt)
           rel == [sym |-> s, slot |-> GotPltHeader + n]
<1>0. /\ s \in Symbols /\ gotPlt \in Seq(Symbols)
      /\ aux \in [Symbols -> AuxRecord]
      /\ relaPlt \in Seq([sym : Symbols, slot : Int])
      /\ UNCHANGED <<ctype, needs>>
  BY DEF IInv, TypeOK, AuxRecord, scanVars
<1>1. /\ gotPlt' \in Seq(Symbols)
      /\ n \in Nat
      /\ Len(gotPlt') = n + 1
      /\ \A i \in 1 .. n : gotPlt'[i] = gotPlt[i]
      /\ gotPlt'[n + 1] = s
  BY <1>0, AppendEntry
<1>2. rel \in [sym : Symbols, slot : Int]
  BY <1>0, <1>1 DEF GotPltHeader
<1>3. /\ relaPlt' \in Seq([sym : Symbols, slot : Int])
      /\ Len(relaPlt') = Len(relaPlt) + 1
      /\ Len(relaPlt) \in Nat
      /\ \A i \in 1 .. Len(relaPlt) : relaPlt'[i] = relaPlt[i]
      /\ relaPlt'[Len(relaPlt) + 1] = rel
  <2> HIDE DEF rel
  <2> QED
    BY <1>0, <1>2, AppendEntry DEF rel
<1>4. Len(relaPlt) = n
  BY DEF IInv, RelocInv
<1>5. RelocInv'
  BY <1>1, <1>3, <1>4 DEF IInv, RelocInv, GotPltHeader
<1>6. aux' \in [Symbols -> AuxRecord]
  BY <1>0
<1>7. SlotsExact'
  <2> SUFFICES ASSUME NEW x \in Symbols, Stubbed(x)'
               PROVE  /\ Slot(x)' - GotPltHeader \in 0 .. Len(gotPlt') - 1
                      /\ gotPlt'[Slot(x)' - GotPltHeader + 1] = x
    BY DEF SlotsExact
  <2>1. CASE x = s
    <3>1. Slot(x)' = GotPltHeader + n
      BY <1>0, <2>1 DEF Slot
    <3> QED
      BY <1>1, <2>1, <3>1 DEF GotPltHeader
  <2>2. CASE x # s
    <3>1. aux'[x] = aux[x] /\ Slot(x)' = Slot(x)
      BY <1>0, <2>2 DEF Slot
    <3>2. Stubbed(x)
      BY <1>0, <2>2 DEF Stubbed, Visited
    <3>3. /\ Slot(x) - GotPltHeader \in 0 .. n - 1
          /\ gotPlt[Slot(x) - GotPltHeader + 1] = x
      BY <3>2 DEF IInv, SlotsExact
    <3> QED
      <4> DEFINE k == Slot(x) - GotPltHeader
      <4>1. k \in 0 .. n - 1 /\ gotPlt[k + 1] = x
        BY <3>3
      <4>2. k \in 0 .. Len(gotPlt') - 1 /\ gotPlt'[k + 1] = x
        <5> HIDE DEF k
        <5> QED
          BY <1>1, <4>1
      <4> QED
        BY <3>1, <4>2
  <2> QED
    BY <2>1, <2>2
<1>8. \A i \in 1 .. n : gotPlt[i] \notin todo
  BY DEF IInv, OwnerInv
<1>9. \A i \in 1 .. Len(gotPlt') : gotPlt'[i] \notin todo'
  BY <1>1, <1>8
<1>10. \A i, j \in 1 .. Len(gotPlt') : gotPlt'[i] = gotPlt'[j] => i = j
  <2>1. \A i \in 1 .. n : gotPlt[i] # s
    BY <1>8
  <2>2. \A i, j \in 1 .. n : gotPlt[i] = gotPlt[j] => i = j
    BY DEF IInv, OwnerInv
  <2> QED
    BY <1>1, <2>1, <2>2
<1> QED
  BY <1>1, <1>3, <1>5, <1>6, <1>7, <1>9, <1>10

\* Where the stubs of a symbol are, after s got its entries in fakeplt' and
\* plt': the positions saved for other symbols still hold.
LEMMA PositionKept ==
    ASSUME IInv, NEW s \in todo, NEW a \in AuxRecord,
           todo' = todo \ {s},
           UNCHANGED scanVars,
           aux' = [aux EXCEPT ![s] = a],
           fakeplt' \in {fakeplt, Append(fakeplt, s)},
           plt' \in {plt, Append(plt, s)},
           ctype[s] = 1 => /\ fakeplt' = Append(fakeplt, s)
                           /\ a.non_fake_plt = Len(fakeplt),
           ctype[s] # 1 => /\ plt' = Append(plt, s)
                           /\ a.non_fake_plt = Len(plt)
    PROVE  PositionInv'
<1> DEFINE Grown(q, q2) ==
             /\ Len(q) \in Nat /\ Len(q2) \in Nat /\ Len(q) <= Len(q2)
             /\ \A i \in 1 .. Len(q) : q2[i] = q[i]
<1>0. /\ s \in Symbols /\ fakeplt \in Seq(Symbols) /\ plt \in Seq(Symbols)
      /\ aux \in [Symbols -> AuxRecord]
      /\ UNCHANGED <<ctype, needs>>
  BY DEF IInv, TypeOK, AuxRecord, scanVars
<1>1. Grown(fakeplt, fakeplt') /\ Grown(plt, plt')
  <2>1. ASSUME NEW q \in Seq(Symbols) PROVE Grown(q, q)
    OBVIOUS
  <2>2. ASSUME NEW q \in Seq(Symbols) PROVE Grown(q, Append(q, s))
    BY <1>0, AppendEntry
  <2> HIDE DEF Grown
  <2> QED
    BY <1>0, <2>1, <2>2
<1> SUFFICES ASSUME NEW x \in Symbols, Stubbed(x)'
             PROVE  LET q == IF ctype'[x] = 1 THEN fakeplt' ELSE plt'
                    IN /\ aux'[x].non_fake_plt \in 0 .. Len(q) - 1
                       /\ q[aux'[x].non_fake_plt + 1] = x
  BY DEF PositionInv
<1>2. CASE x = s
  <2>1. aux'[x] = a
    BY <1>0, <1>2
  <2> QED
    BY <1>0, <1>2, <2>1, AppendEntry
<1>3. CASE x # s
  <2>1. Stubbed(x)
    BY <1>0, <1>3 DEF Stubbed, Visited
  <2>2. aux'[x] = aux[x] /\ aux[x].non_fake_plt \in Nat
    BY <1>0, <1>3 DEF AuxRecord
  <2>3. LET q == IF ctype[x] = 1 THEN fakeplt ELSE plt
        IN /\ aux[x].non_fake_plt \in 0 .. Len(q) - 1
           /\ q[aux[x].non_fake_plt + 1] = x
    BY <2>1 DEF IInv, PositionInv
  <2> DEFINE k == aux[x].non_fake_plt
  <2>4. CASE ctype[x] = 1
    <3>1. k \in 0 .. Len(fakeplt) - 1 /\ fakeplt[k + 1] = x
      BY <2>3, <2>4
    <3>2. k \in 0 .. Len(fakeplt') - 1 /\ fakeplt'[k + 1] = x
      <4> HIDE DEF k
      <4> QED
        BY <1>1, <3>1
    <3> QED
      BY <1>0, <2>2, <2>4, <3>2
  <2>5. CASE ctype[x] # 1
    <3>1. k \in 0 .. Len(plt) - 1 /\ plt[k + 1] = x
      BY <2>3, <2>5
    <3>2. k \in 0 .. Len(plt') - 1 /\ plt'[k + 1] = x
      <4> HIDE DEF k
      <4> QED
        BY <1>1, <3>1
    <3> QED
      BY <1>0, <2>2, <2>5, <3>2
  <2> QED
    BY <2>4, <2>5
<1> QED
  BY <1>2, <1>3

\* Each symbol occurs once in .fakeplt.sec.
LEMMA FakeOwner ==
    ASSUME IInv, NEW s \in todo, todo' = todo \ {s},
           fakeplt' \in {fakeplt, Append(fakeplt, s)}
    PROVE  /\ fakeplt' \in Seq(Symbols)
           /\ \A i \in 1 .. Len(fakeplt') : fakeplt'[i] \notin todo'
           /\ \A i, j \in 1 .. Len(fakeplt') : fakeplt'[i] = fakeplt'[j] => i = j
<1>1. s \in Symbols /\ fakeplt \in Seq(Symbols)
  BY DEF IInv, TypeOK
<1>2. /\ \A i \in 1 .. Len(fakeplt) : fakeplt[i] \notin todo
      /\ \A i, j \in 1 .. Len(fakeplt) : fakeplt[i] = fakeplt[j] => i = j
  BY DEF IInv, OwnerInv
<1>3. CASE fakeplt' = fakeplt
  BY <1>1, <1>2, <1>3
<1>4. CASE fakeplt' = Append(fakeplt, s)
  <2>1. /\ Append(fakeplt, s) \in Seq(Symbols)
        /\ Len(Append(fakeplt, s)) = Len(fakeplt) + 1
        /\ Len(fakeplt) \in Nat
        /\ \A i \in 1 .. Len(fakeplt) : Append(fakeplt, s)[i] = fakeplt[i]
        /\ Append(fakeplt, s)[Len(fakeplt) + 1] = s
    BY <1>1, AppendEntry
  <2>2. \A i \in 1 .. Len(fakeplt) : fakeplt[i] # s
    BY <1>2
  <2> QED
    BY <1>2, <1>4, <2>1, <2>2
<1> QED
  BY <1>3, <1>4

\* .got entries are typed.
LEMMA GotTyped ==
    ASSUME TypeOK, NEW s \in Symbols, AddGotEntry(s)
    PROVE  /\ got' \in Seq(Symbols)
           /\ gotIdx' \in [Symbols -> Int]
           /\ gotRel' \in [Symbols -> {"NONE", "ORMASK", "ANDMASK", "RELATIVE",
                                       "GLOB_DAT"}]
           /\ ormask_offset' \in Nat
           /\ andmask_offset' \in Nat
<1>1. GotRelType(s) \in {"NONE", "ORMASK", "ANDMASK", "RELATIVE", "GLOB_DAT"}
  BY DEF GotRelType
<1>2. Len(got) \in Nat /\ Append(got, s) \in Seq(Symbols)
  BY AppendEntry DEF TypeOK
<1>3. CASE "GOT" \notin needs[s]
  BY <1>3 DEF TypeOK, AddGotEntry, gotVars
<1>4. CASE "GOT" \in needs[s]
  <2>1. /\ got' = Append(got, s)
        /\ ormask_offset' \in {Len(got), ormask_offset}
        /\ andmask_offset' \in {Len(got), andmask_offset}
    BY <1>4 DEF AddGotEntry
  <2>2. gotIdx' = [gotIdx EXCEPT ![s] = Len(got)]
    BY <1>4 DEF AddGotEntry
  <2>3. gotRel' = [gotRel EXCEPT ![s] = GotRelType(s)]
    BY <1>4 DEF AddGotEntry
  <2>4. gotIdx' \in [Symbols -> Int]
    BY <1>2, <2>2 DEF TypeOK
  <2>5. gotRel' \in [Symbols -> {"NONE", "ORMASK", "ANDMASK", "RELATIVE",
                                "GLOB_DAT"}]
    BY <1>1, <2>3 DEF TypeOK
  <2> QED
    BY <1>2, <2>1, <2>4, <2>5 DEF TypeOK
<1> QED
  BY <1>3, <1>4

-----------------------------------------------------------------------------
(* One visit of postScanRelocations.                                       *)

\* Giving one symbol its entries keeps the invariant.
LEMMA PostScanIInv ==
    ASSUME IInv, NEW s \in todo, PostScan(s)
    PROVE  IInv'
<1>0. /\ s \in Symbols /\ todo \subseteq Symbols
      /\ todo' = todo \ {s}
      /\ UNCHANGED scanVars
      /\ pending' = {}
      /\ AddGotEntry(s)
      /\ fakeplt \in Seq(Symbols) /\ plt \in Seq(Symbols)
      /\ bothplts \in Nat
      /\ Len(gotPlt) = Len(fakeplt) + Len(plt) - bothplts
      /\ canonical \in [Symbols -> Int]
  BY DEF IInv, TypeOK, CountInv, PostScan, scanVars
<1>1. PhaseInv' /\ ClassInv'
  BY <1>0 DEF IInv, PhaseInv, ClassInv, scanVars
<1>2. /\ got' \in Seq(Symbols)
      /\ gotIdx' \in [Symbols -> Int]
      /\ gotRel' \in [Symbols -> {"NONE", "ORMASK", "ANDMASK", "RELATIVE",
                                  "GLOB_DAT"}]
      /\ ormask_offset' \in Nat
      /\ andmask_offset' \in Nat
  BY <1>0, GotTyped DEF IInv
<1>3. ASSUME /\ fakeplt' \in Seq(Symbols) /\ plt' \in Seq(Symbols)
             /\ gotPlt' \in Seq(Symbols) /\ bothplts' \in Nat
             /\ aux' \in [Symbols -> AuxRecord]
             /\ relaPlt' \in Seq([sym : Symbols, slot : Int])
             /\ canonical' \in [Symbols -> Int]
      PROVE  TypeOK'
  BY <1>0, <1>2, <1>3 DEF IInv, TypeOK, AuxRecord, scanVars
<1>4. PltReloc(s, FakePltAux)
         = [sym |-> s, slot |-> GotPltOffset(ctype[s], FakePltAux)]
  BY DEF PltReloc
<1>5. CASE NoStub(s)
  <2>1. /\ UNCHANGED <<fakeplt, plt, gotPlt, bothplts, aux, relaPlt, canonical>>
        /\ UNCHANGED <<ctype, needs>>
    BY <1>0, <1>5 DEF NoStub, stubVars, scanVars
  <2>2. \A x \in Symbols : Stubbed(x)' => Stubbed(x)
    BY <1>0, <1>5, <2>1 DEF NoStub, Stubbed, Visited
  <2>3. TypeOK'
    BY <1>3, <2>1 DEF IInv, TypeOK, AuxRecord
  <2>4. SlotsExact'
    BY <2>1, <2>2 DEF IInv, SlotsExact, Slot
  <2>5. PositionInv'
    BY <2>1, <2>2 DEF IInv, PositionInv
  <2>6. CountInv' /\ RelocInv' /\ OwnerInv'
    BY <1>0, <2>1 DEF IInv, CountInv, RelocInv, OwnerInv
  <2> QED
    BY <1>1, <2>3, <2>4, <2>5, <2>6 DEF IInv
<1>6. CASE FakeStub(s)
  <2>1. ctype[s] = 1 /\ FakePltAux.non_fake_plt = Len(fakeplt)
    BY <1>6 DEF FakeStub, FakePltAux
  <2>2. /\ gotPlt' \in Seq(Symbols)
        /\ relaPlt' \in Seq([sym : Symbols, slot : Int])
        /\ aux' \in [Symbols -> AuxRecord]
        /\ Len(gotPlt') = Len(gotPlt) + 1
        /\ SlotsExact' /\ RelocInv'
        /\ \A i \in 1 .. Len(gotPlt') : gotPlt'[i] \notin todo'
        /\ \A i, j \in 1 .. Len(gotPlt') : gotPlt'[i] = gotPlt'[j] => i = j
    BY <1>0, <1>4, <1>6, <2>1, NextSlot, SlotAdded DEF FakeStub
  <2>3. PositionInv'
    BY <1>0, <1>6, <2>1, NextSlot, PositionKept DEF FakeStub
  <2>4. /\ fakeplt' \in Seq(Symbols)
        /\ OwnerInv'
    BY <1>0, <1>6, <2>2, FakeOwner DEF FakeStub, OwnerInv
  <2>5. CountInv'
    BY <1>0, <1>6, <2>2, AppendEntry DEF FakeStub, CountInv
  <2>6. TypeOK'
    BY <1>0, <1>3, <1>6, <2>2, <2>4 DEF FakeStub
  <2> QED
    BY <1>1, <2>2, <2>3, <2>4, <2>5, <2>6 DEF IInv
<1>7. CASE FakeAndNormalStub(s)
  <2>1. ctype[s] = 1 /\ BothAux.non_fake_plt = Len(fakeplt)
    BY <1>7 DEF FakeAndNormalStub, BothAux, FakePltAux
  <2>2. /\ gotPlt' \in Seq(Symbols)
        /\ relaPlt' \in Seq([sym : Symbols, slot : Int])
        /\ aux' \in [Symbols -> AuxRecord]
        /\ Len(gotPlt') = Len(gotPlt) + 1
        /\ SlotsExact' /\ RelocInv'
        /\ \A i \in 1 .. Len(gotPlt') : gotPlt'[i] \notin todo'
        /\ \A i, j \in 1 .. Len(gotPlt') : gotPlt'[i] = gotPlt'[j] => i = j
    BY <1>0, <1>4, <1>7, <2>1, NextSlot, SlotAdded DEF FakeAndNormalStub
  <2>3. PositionInv'
    BY <1>0, <1>7, <2>1, NextSlot, PositionKept DEF FakeAndNormalStub
  <2>4. /\ fakeplt' \in Seq(Symbols)
        /\ OwnerInv'
    BY <1>0, <1>7, <2>2, FakeOwner DEF FakeAndNormalStub, OwnerInv
  <2>5. CountInv' /\ plt' \in Seq(Symbols)
    BY <1>0, <1>7, <2>2, AppendEntry DEF FakeAndNormalStub, CountInv
  <2>6. canonical' \in [Symbols -> Int]
    BY <1>0, <1>7, NextSlot DEF FakeAndNormalStub, AuxRecord
  <2>7. TypeOK'
    BY <1>0, <1>3, <1>7, <2>2, <2>4, <2>5, <2>6 DEF FakeAndNormalStub
  <2> QED
    BY <1>1, <2>2, <2>3, <2>4, <2>5, <2>7 DEF IInv
<1>8. CASE NormalStub(s)
  <2>1. ctype[s] = 0 /\ PltAux.non_fake_plt = Len(plt)
    BY <1>8 DEF NormalStub, PltAux
  <2>2. /\ gotPlt' \in Seq(Symbols)
        /\ relaPlt' \in Seq([sym : Symbols, slot : Int])
        /\ aux' \in [Symbols -> AuxRecord]
        /\ Len(gotPlt') = Len(gotPlt) + 1
        /\ SlotsExact' /\ RelocInv'
        /\ \A i \in 1 .. Len(gotPlt') : gotPlt'[i] \notin todo'
        /\ \A i, j \in 1 .. Len(gotPlt') : gotPlt'[i] = gotPlt'[j] => i = j
    BY <1>0, <1>8, <2>1, NextSlot, SlotAdded DEF NormalStub, PltReloc
  <2>3. PositionInv'
    <3>1. /\ PltAux \in AuxRecord
          /\ aux' = [aux EXCEPT ![s] = PltAux]
          /\ fakeplt' = fakeplt
          /\ plt' = Append(plt, s)
      BY <1>8, NextSlot DEF NormalStub
    <3>2. ctype[s] # 1 /\ PltAux.non_fake_plt = Len(plt)
      BY <2>1
    <3> QED
      BY ONLY IInv, s \in todo, <1>0, <3>1, <3>2, PositionKept, Zenon
  <2>4. /\ fakeplt' \in Seq(Symbols)
        /\ OwnerInv'
    BY <1>0, <1>8, <2>2, FakeOwner DEF NormalStub, OwnerInv
  <2>5. CountInv' /\ plt' \in Seq(Symbols)
    BY <1>0, <1>8, <2>2, AppendEntry DEF NormalStub, CountInv
  <2>6. TypeOK'
    BY <1>0, <1>3, <1>8, <2>2, <2>4, <2>5 DEF NormalStub
  <2> QED
    BY <1>1, <2>2, <2>3, <2>4, <2>5, <2>6 DEF IInv
<1> QED
  BY <1>5, <1>6, <1>7, <1>8 DEF PostScan

-----------------------------------------------------------------------------
(* The theorems.                                                           *)

\* Every step keeps the invariant.
LEMMA NextIInv == IInv /\ [Next]_vars => IInv'
<1> SUFFICES ASSUME IInv, [Next]_vars PROVE IInv'
  OBVIOUS
<1>1. CASE \E r \in pending : ScanOne(r)
  BY <1>1, ScanOneIInv
<1>2. CASE \E s \in todo : PostScan(s)
  BY <1>2, PostScanIInv
<1>3. CASE UNCHANGED vars
  BY <1>3 DEF vars, scanVars, gotVars, stubVars, IInv, TypeOK, PhaseInv, ClassInv,
              CountInv, SlotsExact, PositionInv, RelocInv, OwnerInv,
              Stubbed, Visited, Slot
<1> QED
  BY <1>1, <1>2, <1>3 DEF Next

\* The invariant of the tables the linker builds holds always (scanOne,
\* postScanRelocations).
THEOREM InductiveInvariant == Spec => []IInv
  BY InitIInv, NextIInv, PTL DEF Spec

\* The linker's tables stay well formed for every input.
THEOREM TypeCorrect == Spec => []TypeOK
<1>1. IInv => TypeOK
  BY DEF IInv
<1> QED
  BY <1>1, InductiveInvariant, PTL

\* getGotPltOffset always yields the slot that was added for the symbol.
THEOREM SlotsAreExact == Spec => []SlotsExact
<1>1. IInv => SlotsExact
  BY DEF IInv
<1> QED
  BY <1>1, InductiveInvariant, PTL

\* A symbol with a fake and a normal stub has one slot and one relocation.
THEOREM SlotsAreUnique == Spec => []OneSlotPerSymbol
<1>1. IInv => OneSlotPerSymbol
  BY DEF IInv, OneSlotPerSymbol, CountInv, OwnerInv
<1> QED
  BY <1>1, InductiveInvariant, PTL

\* The one relocation of a symbol's slot is against that symbol.
LEMMA SlotLoadsSymbol ==
    ASSUME IInv, NEW s \in Symbols, Stubbed(s)
    PROVE  LoadedInto(Slot(s)) = {s}
<1> DEFINE k == Slot(s) - GotPltHeader + 1
<1>1. /\ Slot(s) - GotPltHeader \in 0 .. Len(gotPlt) - 1
      /\ gotPlt[k] = s
  BY DEF IInv, SlotsExact
<1>2. Len(gotPlt) \in Nat /\ Slot(s) \in Int
  BY DEF IInv, TypeOK, Slot, GotPltOffset, GotPltHeader
<1>3. k \in 1 .. Len(gotPlt) /\ Slot(s) = GotPltHeader + k - 1
  BY <1>1, <1>2 DEF GotPltHeader
<1>4. /\ Len(relaPlt) = Len(gotPlt)
      /\ \A i \in 1 .. Len(gotPlt) : /\ relaPlt[i].sym = gotPlt[i]
                                      /\ relaPlt[i].slot = GotPltHeader + i - 1
  BY DEF IInv, RelocInv
<1>5. {j \in 1 .. Len(relaPlt) : relaPlt[j].slot = Slot(s)} = {k}
  <2> HIDE DEF k
  <2> QED
    BY <1>2, <1>3, <1>4 DEF GotPltHeader
<1>6. relaPlt[k].sym = s
  BY <1>1, <1>3, <1>4
<1> QED
  BY <1>5, <1>6 DEF LoadedInto

\* Direct calls land on a stub of the called symbol, whose slot the loader
\* fills with that symbol.
THEOREM CallsReach == Spec => []CallsReachTheirSymbol
<1>1. IInv => CallsReachTheirSymbol
  <2> SUFFICES ASSUME IInv, NEW s \in Visited, "PLT" \in needs[s]
               PROVE  /\ aux[s].non_fake_plt
                            < Len(IF ctype[s] = 1 THEN fakeplt ELSE plt)
                      /\ CalledStub(s) = s
                      /\ LoadedInto(Slot(s)) = {s}
    BY DEF CallsReachTheirSymbol
  <2>1. s \in Symbols /\ Stubbed(s)
    BY DEF Visited, Stubbed
  <2>2. LET q == IF ctype[s] = 1 THEN fakeplt ELSE plt
        IN /\ aux[s].non_fake_plt \in 0 .. Len(q) - 1
           /\ q[aux[s].non_fake_plt + 1] = s
    BY <2>1 DEF IInv, PositionInv
  <2>3. Len(fakeplt) \in Nat /\ Len(plt) \in Nat
    BY DEF IInv, TypeOK
  <2>4. CalledStub(s) = s
    BY <2>2 DEF CalledStub
  <2>5. aux[s].non_fake_plt < Len(IF ctype[s] = 1 THEN fakeplt ELSE plt)
    BY <2>2, <2>3
  <2> QED
    BY <2>1, <2>4, <2>5, SlotLoadsSymbol
<1> QED
  BY <1>1, InductiveInvariant, PTL

\* A taken address is that of the function's only fake stub, the one direct
\* calls use, and leads to the function.
THEOREM AddressesReach == Spec => []AddressesReachTheirSymbol
<1>1. IInv => AddressesReachTheirSymbol
  <2> SUFFICES ASSUME IInv, NEW s \in Visited, ctype[s] = 1
               PROVE  /\ TakenStubs(s) = {aux[s].non_fake_plt + 1}
                      /\ LoadedInto(Slot(s)) = {s}
    BY DEF AddressesReachTheirSymbol
  <2>1. s \in Symbols /\ Stubbed(s)
    BY DEF Visited, Stubbed
  <2>2. /\ aux[s].non_fake_plt \in 0 .. Len(fakeplt) - 1
        /\ fakeplt[aux[s].non_fake_plt + 1] = s
    BY <2>1 DEF IInv, PositionInv
  <2>3. Len(fakeplt) \in Nat
    BY DEF IInv, TypeOK
  <2>4. \A i, j \in 1 .. Len(fakeplt) : fakeplt[i] = fakeplt[j] => i = j
    BY DEF IInv, OwnerInv
  <2>5. aux[s].non_fake_plt + 1 \in 1 .. Len(fakeplt)
    BY <2>2, <2>3
  <2>6. TakenStubs(s) = {aux[s].non_fake_plt + 1}
    BY <2>2, <2>4, <2>5 DEF TakenStubs
  <2> QED
    BY <2>1, <2>6, SlotLoadsSymbol
<1> QED
  BY <1>1, InductiveInvariant, PTL

-----------------------------------------------------------------------------
(* What does not depend on the order, and the two masks.                   *)

\* The relocations scanned so far decide the class and the flags.
Scanned == input \ pending

ScanInv ==
    /\ \A s \in Funcs \cup Placeholders :
          ctype[s] = 1 <=> \E r \in Scanned : r.sym = s /\ (r.kind \in AddressTaking
                                                   \/ s \in StartMain \cup Placeholders)
    /\ \A s \in Funcs :
          "PLT" \in needs[s] <=> \E r \in Scanned : r.sym = s /\ "PLT" \in Flags(s, r.kind, 0)

\* Class and flags decide the stubs of the symbols visited so far.
AllocInv ==
    /\ \A s \in Funcs \cup Placeholders :
          (\E i \in 1 .. Len(fakeplt) : fakeplt[i] = s) <=> s \notin todo /\ ctype[s] = 1
    /\ \A s \in Funcs :
          (\E i \in 1 .. Len(plt) : plt[i] = s) <=> s \notin todo /\ "PLT" \in needs[s]

\* Before a mask is visited its offset is not recorded.
MaskInv ==
    /\ \A s \in OrMasks \cap todo : gotIdx[s] = Unset /\ ormask_offset = 0
    /\ \A s \in AndMasks \cap todo : gotIdx[s] = Unset /\ andmask_offset = 0
    /\ MaskOffsetsRight

OInv == ScanInv /\ AllocInv /\ MaskInv

\* A relocation counts for its symbol, and its flags do not depend on what was
\* scanned before it.
LEMMA ScanOneOInv ==
    ASSUME IInv, OInv, NEW r \in pending, ScanOne(r)
    PROVE  OInv'
<1> DEFINE s == r.sym
           t == CustomType(s, r.kind, ctype[s])
<1>1. /\ s \in Symbols /\ todo = Symbols /\ r \in input
      /\ ctype \in [Symbols -> {0, 1, 2, 10}]
      /\ needs \in [Symbols -> SUBSET {"GOT", "PLT", "COPY"}]
  BY DEF IInv, TypeOK, PhaseInv, Relocs
<1>2. UNCHANGED <<todo, gotVars, stubVars, shared, input>>
  BY DEF ScanOne
<1>3. /\ ctype' = [ctype EXCEPT ![s] = t]
      /\ needs' = [needs EXCEPT ![s] = @ \cup Flags(s, r.kind, t)]
      /\ Scanned' = Scanned \cup {r}
  BY <1>1, <1>2 DEF ScanOne, Scanned
<1>4. ASSUME NEW x \in Funcs \cup Placeholders
      PROVE  ctype'[x] = 1 <=> \E y \in Scanned' : y.sym = x /\ (y.kind \in AddressTaking
                                                   \/ x \in StartMain \cup Placeholders)
  <2>1. x \in Symbols
    BY DEF Symbols
  <2>2. ctype[x] = 1 <=> \E y \in Scanned : y.sym = x /\ (y.kind \in AddressTaking
                                                   \/ x \in StartMain \cup Placeholders)
    BY DEF OInv, ScanInv
  <2>3. CASE x # s
    BY <1>1, <1>3, <2>1, <2>2, <2>3
  <2>4. CASE x = s
    <3>1. t = 1 <=> \/ ctype[s] = 1
                    \/ r.kind \in AddressTaking \/ s \in StartMain \cup Placeholders
      BY <2>4, SymbolClasses DEF CustomType
    <3>2. ctype'[x] = t
      BY <1>1, <1>3, <2>4
    <3> QED BY <1>3, <2>2, <2>4, <3>1, <3>2
  <2> QED BY <2>3, <2>4
<1>5. ASSUME NEW x \in Funcs
      PROVE  "PLT" \in needs'[x] <=> \E y \in Scanned' : y.sym = x /\ "PLT" \in Flags(x, y.kind, 0)
  <2>1. x \in Symbols
    BY DEF Symbols
  <2>2. "PLT" \in needs[x] <=> \E y \in Scanned : y.sym = x /\ "PLT" \in Flags(x, y.kind, 0)
    BY DEF OInv, ScanInv
  <2>3. CASE x # s
    BY <1>1, <1>3, <2>1, <2>2, <2>3
  <2>4. CASE x = s
    <3>1. t \in {0, 1}
      BY <2>4, SymbolClasses DEF CustomType, IInv, ClassInv
    <3>2. "PLT" \in Flags(s, r.kind, t) <=> "PLT" \in Flags(s, r.kind, 0)
      BY <3>1 DEF Flags
    <3>3. needs'[x] = needs[x] \cup Flags(s, r.kind, t)
      BY <1>1, <1>3, <2>4
    <3> QED BY <1>3, <2>2, <2>4, <3>2, <3>3
  <2> QED BY <2>3, <2>4
<1>6. ScanInv'
  <2>1. \A x, k : Flags(x, k, 0)' = Flags(x, k, 0)
    BY <1>2 DEF Flags, CanBeCanonical
  <2> QED BY <1>4, <1>5, <2>1 DEF ScanInv
<1>7. AllocInv'
  <2>1. \A x \in Funcs \cup Placeholders : x \in todo'
    BY <1>1, <1>2 DEF Symbols
  <2> QED BY <1>2, <2>1, <1>1 DEF OInv, AllocInv, stubVars
<1>8. MaskInv'
  BY <1>2 DEF OInv, MaskInv, MaskOffsetsRight, gotVars
<1> QED BY <1>6, <1>7, <1>8 DEF OInv

\* A visit gives a symbol the stubs of its class, and the first .got entry of
\* a mask is the recorded one.
LEMMA PostScanOInv ==
    ASSUME IInv, OInv, NEW s \in todo, PostScan(s)
    PROVE  OInv'
<1>1. /\ s \in Symbols /\ todo' = todo \ {s} /\ UNCHANGED scanVars
      /\ ctype \in [Symbols -> {0, 1, 2, 10}]
      /\ fakeplt \in Seq(Symbols) /\ plt \in Seq(Symbols) /\ got \in Seq(Symbols)
      /\ gotIdx \in [Symbols -> Int]
  BY DEF IInv, TypeOK, PostScan
<1>2. ScanInv'
  BY <1>1 DEF OInv, ScanInv, Scanned, scanVars, Flags, CanBeCanonical
<1>3. UNCHANGED <<ctype, needs>>
  BY <1>1 DEF scanVars
<1>4. ASSUME NEW q \in Seq(Symbols), NEW x
      PROVE  (\E i \in 1 .. Len(Append(q, s)) : Append(q, s)[i] = x)
                <=> x = s \/ \E i \in 1 .. Len(q) : q[i] = x
  <2>1. /\ Len(Append(q, s)) = Len(q) + 1 /\ Len(q) \in Nat
        /\ \A i \in 1 .. Len(q) : Append(q, s)[i] = q[i]
        /\ Append(q, s)[Len(q) + 1] = s
    BY <1>1, AppendEntry
  <2> QED BY <2>1
<1>5. s \in Funcs \cup Placeholders =>
        (fakeplt' = IF ctype[s] = 1 THEN Append(fakeplt, s) ELSE fakeplt)
  BY DEF PostScan, NoStub, FakeStub, FakeAndNormalStub, NormalStub, stubVars
<1>6. fakeplt' \in {fakeplt, Append(fakeplt, s)} /\ plt' \in {plt, Append(plt, s)}
  BY DEF PostScan, NoStub, FakeStub, FakeAndNormalStub, NormalStub, stubVars
<1>7. s \in Funcs => (plt' = IF "PLT" \in needs[s] THEN Append(plt, s) ELSE plt)
  <2> SUFFICES ASSUME s \in Funcs
               PROVE  plt' = IF "PLT" \in needs[s] THEN Append(plt, s) ELSE plt
    OBVIOUS
  <2>1. s \notin Placeholders /\ ctype[s] \in {0, 1}
    BY SymbolClasses DEF IInv, ClassInv
  <2> QED BY <2>1 DEF PostScan, NoStub, FakeStub, FakeAndNormalStub, NormalStub, FakeOnly, stubVars
<1>8. AllocInv'
  <2>1. ASSUME NEW x \in Funcs \cup Placeholders
        PROVE  (\E i \in 1 .. Len(fakeplt') : fakeplt'[i] = x) <=> x \notin todo' /\ ctype[x] = 1
    <3>1. (\E i \in 1 .. Len(fakeplt) : fakeplt[i] = x) <=> x \notin todo /\ ctype[x] = 1
      BY DEF OInv, AllocInv
    <3>0. (\E i \in 1 .. Len(Append(fakeplt, s)) : Append(fakeplt, s)[i] = x)
             <=> x = s \/ \E i \in 1 .. Len(fakeplt) : fakeplt[i] = x
      BY <1>1, <1>4
    <3>2. CASE x = s
      BY <1>1, <1>5, <3>0, <3>1, <3>2
    <3>3. CASE x # s
      <4>1. CASE fakeplt' = fakeplt
        BY <1>1, <3>1, <3>3, <4>1
      <4>2. CASE fakeplt' = Append(fakeplt, s)
        BY <1>1, <3>0, <3>1, <3>3, <4>2
      <4> QED BY <1>6, <4>1, <4>2
    <3> QED BY <3>2, <3>3
  <2>2. ASSUME NEW x \in Funcs
        PROVE  (\E i \in 1 .. Len(plt') : plt'[i] = x) <=> x \notin todo' /\ "PLT" \in needs[x]
    <3>1. (\E i \in 1 .. Len(plt) : plt[i] = x) <=> x \notin todo /\ "PLT" \in needs[x]
      BY DEF OInv, AllocInv
    <3>0. (\E i \in 1 .. Len(Append(plt, s)) : Append(plt, s)[i] = x)
             <=> x = s \/ \E i \in 1 .. Len(plt) : plt[i] = x
      BY <1>1, <1>4
    <3>2. CASE x = s
      BY <1>1, <1>7, <3>0, <3>1, <3>2
    <3>3. CASE x # s
      <4>1. CASE plt' = plt
        BY <1>1, <3>1, <3>3, <4>1
      <4>2. CASE plt' = Append(plt, s)
        BY <1>1, <3>0, <3>1, <3>3, <4>2
      <4> QED BY <1>6, <4>1, <4>2
    <3> QED BY <3>2, <3>3
  <2> QED BY <1>3, <2>1, <2>2 DEF AllocInv
<1>9. MaskInv'
  <2>1. AddGotEntry(s) /\ Len(got) \in Nat
    BY <1>1 DEF PostScan
  <2>2. CASE "GOT" \notin needs[s]
    BY <1>1, <2>1, <2>2 DEF AddGotEntry, gotVars, OInv, MaskInv, MaskOffsetsRight
  <2>3. CASE "GOT" \in needs[s]
    <3>1. /\ gotIdx' = [gotIdx EXCEPT ![s] = Len(got)]
          /\ ormask_offset' = IF s \in OrMasks /\ ormask_offset = 0
                               THEN Len(got) ELSE ormask_offset
          /\ andmask_offset' = IF s \in AndMasks /\ andmask_offset = 0
                                THEN Len(got) ELSE andmask_offset
      BY <2>1, <2>3 DEF AddGotEntry
    <3>2. \A x \in Symbols : gotIdx'[x] = IF x = s THEN Len(got) ELSE gotIdx[x]
      BY <1>1, <3>1
    <3>3. OrMasks \cup AndMasks \subseteq Symbols
      BY DEF Symbols
    <3>4. CASE s \in OrMasks
      BY <1>1, <3>1, <3>2, <3>3, <3>4, OneMaskEach, SymbolClasses
         DEF OInv, MaskInv, MaskOffsetsRight
    <3>5. CASE s \in AndMasks
      BY <1>1, <3>1, <3>2, <3>3, <3>5, OneMaskEach, SymbolClasses
         DEF OInv, MaskInv, MaskOffsetsRight
    <3>6. CASE s \notin OrMasks \cup AndMasks
      BY <1>1, <3>1, <3>2, <3>3, <3>6 DEF OInv, MaskInv, MaskOffsetsRight
    <3> QED BY <3>4, <3>5, <3>6
  <2> QED BY <2>2, <2>3
<1> QED BY <1>2, <1>8, <1>9 DEF OInv

\* Class, flags, stubs and mask offsets follow from what has been scanned and
\* visited, in whatever order.
THEOREM OrderInvariant == Spec => []OInv
<1>1. Init => OInv
  <2> SUFFICES ASSUME Init PROVE OInv
    OBVIOUS
  <2>1. Funcs \cup Placeholders \subseteq Symbols /\ OrMasks \cup AndMasks \subseteq Symbols
    BY DEF Symbols
  <2>2. ScanInv
    BY <2>1 DEF Init, ScanInv, Scanned
  <2>3. AllocInv
    BY <2>1 DEF Init, AllocInv
  <2>4. MaskInv
    BY <2>1 DEF Init, MaskInv, MaskOffsetsRight, Unset
  <2> QED BY <2>2, <2>3, <2>4 DEF OInv
<1>2. IInv /\ OInv /\ [Next]_vars => OInv'
  <2> SUFFICES ASSUME IInv, OInv, [Next]_vars PROVE OInv'
    OBVIOUS
  <2>1. CASE \E r \in pending : ScanOne(r)
    BY <2>1, ScanOneOInv
  <2>2. CASE \E s \in todo : PostScan(s)
    BY <2>2, PostScanOInv
  <2>3. CASE UNCHANGED vars
    BY <2>3 DEF vars, scanVars, gotVars, stubVars, OInv, ScanInv, AllocInv, MaskInv,
                MaskOffsetsRight, Scanned, Flags, CanBeCanonical
  <2> QED BY <2>1, <2>2, <2>3 DEF Next
<1> QED BY <1>1, <1>2, InductiveInvariant, PTL DEF Spec

\* The order of the parallel scan and of the visits changes neither the class
\* of a symbol nor which stubs it gets.
THEOREM OrderDoesNotMatter == Spec => []OrderFree
<1>1. IInv /\ OInv => OrderFree
  <2> SUFFICES ASSUME IInv, OInv PROVE OrderFree
    OBVIOUS
  <2>1. pending = {} => Scanned = input
    BY DEF Scanned
  <2>2. pending = {} => \A s \in Funcs \cup Placeholders : (ctype[s] = 1) <=> AddressTaken(s)
    BY <2>1 DEF OInv, ScanInv, AddressTaken
  <2>3. pending = {} => \A s \in Funcs : "PLT" \in needs[s] <=> Called(s)
    BY <2>1 DEF OInv, ScanInv, Called
  <2>4. todo = {} => pending = {} \/ Symbols = {}
    BY DEF IInv, PhaseInv
  <2>5. CASE Symbols = {}
    BY <2>5, <2>2 DEF Symbols, OrderFree
  <2>6. CASE Symbols # {}
    BY <2>2, <2>3, <2>4, <2>6 DEF OInv, AllocInv, OrderFree
  <2> QED BY <2>5, <2>6
<1> QED BY <1>1, InductiveInvariant, OrderInvariant, PTL

\* The masking stubs read the .got entries of or_mask and and_mask.
THEOREM MasksAreFound == Spec => []MaskOffsetsRight
<1>1. OInv => MaskOffsetsRight
  BY DEF OInv, MaskInv
<1> QED BY <1>1, OrderInvariant, PTL

=============================================================================
