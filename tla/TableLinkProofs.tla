--------------------------- MODULE TableLinkProofs ---------------------------
(***************************************************************************)
(* For every header.txt: the tables of mask.c hold every listed callback   *)
(* and nothing else, well ordered transfers are complete, and no symbol is *)
(* used twice.  For all offsets and load addresses: the tables of the      *)
(* running program hold the addresses of the callbacks they were given.    *)
(***************************************************************************)
EXTENDS TableLink, FiniteSetTheorems, TLAPS

-----------------------------------------------------------------------------
(* HeaderMerge: from header.txt to mask.c.                                 *)

\* While the script runs, no key is inserted twice.
OrderDistinct ==
    \A i, j \in 1 .. Len(order) : order[i] = order[j] => i = j

\* The items read so far are in the merged dictionary.
ReadSoFar ==
    \A i \in 1 .. Len(file.items) :
        (pc = "read" => i < pos) =>
            /\ file.items[i][1] \in Keys
            /\ file.items[i][2] \subseteq result[file.items[i][1]]

\* The transfers made so far are closed.
TransferredSoFar ==
    WellOrdered(file) =>
        \A p \in 1 .. Len(file.first) :
            (pc \in {"emit", "done"} \/ (pc = "transfer" /\ p < pos)) =>
                /\ file.first[p][1] \in Keys
                /\ result[file.first[p][2]] \subseteq result[file.first[p][1]]

\* The tables written so far hold their list, and nothing else but main.
WrittenSoFar ==
    /\ pc \notin {"emit", "done"} => table = <<>>
    /\ pc \in {"emit", "done"} =>
        /\ Len(table) = Len(order)
        /\ \A k \in 1 .. Len(order) :
              /\ k < pos => result[order[k]] \subseteq Written(k)
              /\ Written(k) \subseteq result[order[k]] \cup {MainFn}
    /\ pc = "done" => pos > Len(order)

\* A cell of a callback has a number that was handed out; the cell of main is
\* in the table of libc, after the cells of its callbacks.
Numbered ==
    \A k \in 1 .. Len(table) : \A c \in table[k] :
        /\ c[1] \in Entries => c[2] \in 1 .. counter[c[1]]
        /\ c[1] = MainFn => k < pos /\ order[k] = Libc

IInv ==
    /\ TypeOK
    /\ OrderDistinct
    /\ ReadSoFar
    /\ TransferredSoFar
    /\ WrittenSoFar
    /\ Numbered
    /\ CellsDistinct

-----------------------------------------------------------------------------

\* The types of the two parts of header.txt.
LEMMA FileTypes ==
    ASSUME TypeOK
    PROVE  /\ Len(file.first) \in Nat
           /\ Len(file.items) \in Nat
           /\ \A p \in 1 .. Len(file.first) : file.first[p] \in Tags \X Tags
           /\ \A i \in 1 .. Len(file.items) :
                 file.items[i] \in Tags \X SUBSET Entries
  <1>1. file \in [first : Seq(Tags \X Tags), items : Seq(Tags \X SUBSET Entries)]
    BY FileAssumption DEF TypeOK
  <1>2. file.first \in Seq(Tags \X Tags) /\ file.items \in Seq(Tags \X SUBSET Entries)
    BY <1>1
  <1> QED
    BY <1>2

\* In a well ordered first line every pair counts, with its own source.
LEMMA OwnSource ==
    ASSUME TypeOK, WellOrdered(file), NEW p \in 1 .. Len(file.first),
           NEW src \in Tags, IsSource(p, src)
    PROVE  Effective(p) /\ src = file.first[p][2]
  <1>1. Len(file.first) \in Nat
    BY FileTypes
  <1>2. \A q \in 1 .. Len(file.first) : file.first[q][1] = file.first[p][1] => q = p
    BY <1>1 DEF WellOrdered
  <1>3. Effective(p)
    BY <1>1, <1>2 DEF Effective
  <1>4. PICK q \in 1 .. Len(file.first) : file.first[q] = <<file.first[p][1], src>>
    BY DEF IsSource
  <1> QED
    BY <1>2, <1>3, <1>4

\* Every key has a place in the order of insertion.
LEMMA KeyPosition ==
    ASSUME NEW t, t \in Keys
    PROVE  \E k \in 1 .. Len(order) : order[k] = t
  BY DEF Keys

\* Nothing has been read at the start.
LEMMA InitIInv == Init => IInv
  <1> SUFFICES ASSUME Init PROVE IInv
    OBVIOUS
  <1>1. TypeOK
    BY DEF Init, TypeOK
  <1>2. OrderDistinct /\ WrittenSoFar /\ Numbered /\ CellsDistinct
    BY DEF Init, OrderDistinct, WrittenSoFar, Numbered, CellsDistinct
  <1>3. ReadSoFar /\ TransferredSoFar
    BY <1>1, FileTypes DEF Init, ReadSoFar, TransferredSoFar
  <1> QED
    BY <1>1, <1>2, <1>3 DEF IInv

\* Reading an item of header.txt.
LEMMA ReadItemIInv ==
    ASSUME IInv, ReadItem
    PROVE  IInv'
  <1> DEFINE k == file.items[pos][1]
             v == file.items[pos][2]
  <1>1. /\ pc = "read" /\ pc' = "read" /\ pos <= Len(file.items)
        /\ pos' = pos + 1 /\ file' = file /\ declared' = declared
        /\ counter' = counter /\ table' = table
        /\ order' = IF k \in Keys THEN order ELSE Append(order, k)
        /\ result' = [result EXCEPT ![k] = result[k] \cup v]
    BY DEF ReadItem, Merged
  <1>2. /\ pos \in Nat \ {0} /\ order \in Seq(Tags)
        /\ result \in [Tags -> SUBSET Entries]
        /\ Len(file.items) \in Nat /\ table = <<>>
    BY <1>1, FileTypes DEF IInv, TypeOK, WrittenSoFar
  <1>3. k \in Tags /\ v \subseteq Entries
    BY <1>1, <1>2, FileTypes DEF IInv
  <1> HIDE DEF k, v
  <1>4. /\ order' \in Seq(Tags)
        /\ Keys \subseteq Keys'
        /\ k \in Keys'
        /\ OrderDistinct'
    <2>1. CASE k \in Keys
      BY <1>1, <1>2, <2>1 DEF Keys, IInv, OrderDistinct
    <2>2. CASE k \notin Keys
      <3>1. order' = Append(order, k)
        BY <1>1, <2>2
      <3>2. /\ Len(order') = Len(order) + 1 /\ order'[Len(order) + 1] = k
            /\ \A i \in 1 .. Len(order) : order'[i] = order[i]
            /\ Len(order) \in Nat /\ order' \in Seq(Tags)
        BY <1>2, <1>3, <3>1
      <3>3. \A i \in 1 .. Len(order) : order[i] # k
        BY <2>2 DEF Keys
      <3>4. OrderDistinct'
        BY <3>2, <3>3 DEF IInv, OrderDistinct
      <3>5. Keys \subseteq Keys' /\ k \in Keys'
        BY <3>2 DEF Keys
      <3> QED
        BY <3>2, <3>4, <3>5
    <2> QED
      BY <2>1, <2>2
  <1>5. result' \in [Tags -> SUBSET Entries]
    BY <1>1, <1>2, <1>3
  <1>6. TypeOK'
    BY <1>1, <1>2, <1>4, <1>5 DEF IInv, TypeOK
  <1>7. \A t \in Tags : result[t] \subseteq result'[t]
    BY <1>1, <1>2, <1>3
  <1>8. v \subseteq result'[k]
    BY <1>1, <1>2, <1>3
  <1>9. ReadSoFar'
    <2> SUFFICES ASSUME NEW i \in 1 .. Len(file.items), i < pos + 1
                 PROVE  /\ file.items[i][1] \in Keys'
                        /\ file.items[i][2] \subseteq result'[file.items[i][1]]
      BY <1>1 DEF ReadSoFar
    <2>1. CASE i = pos
      BY <1>4, <1>8, <2>1 DEF k, v
    <2>2. CASE i < pos
      <3>1. /\ file.items[i][1] \in Keys
            /\ file.items[i][2] \subseteq result[file.items[i][1]]
        BY <1>1, <2>2 DEF IInv, ReadSoFar
      <3>2. file.items[i][1] \in Tags
        BY FileTypes DEF IInv
      <3> QED
        BY <1>4, <1>7, <3>1, <3>2
    <2> QED
      BY <1>2, <2>1, <2>2
  <1>10. TransferredSoFar'
    BY <1>1 DEF TransferredSoFar
  <1>11. WrittenSoFar' /\ Numbered' /\ CellsDistinct'
    BY <1>1, <1>2 DEF WrittenSoFar, Numbered, CellsDistinct
  <1> QED
    BY <1>4, <1>6, <1>9, <1>10, <1>11 DEF IInv

\* Transferring the callbacks of one tag to another.
LEMMA TransferIInv ==
    ASSUME IInv, Transfer
    PROVE  IInv'
  <1>1. /\ pc = "transfer" /\ pc' = "transfer" /\ pos <= Len(file.first)
        /\ pos' = pos + 1 /\ file' = file /\ declared' = declared
        /\ counter' = counter /\ table' = table /\ order' = order
    BY DEF Transfer
  <1>2. PICK src \in Tags :
          /\ IsSource(pos, src)
          /\ \/ /\ Effective(pos)
                /\ {file.first[pos][1], src} \subseteq Keys
                /\ result' = Receive(file.first[pos][1], src)
             \/ ~Effective(pos) /\ UNCHANGED result
    BY DEF Transfer
  <1>3. /\ pos \in Nat \ {0} /\ Len(file.first) \in Nat
        /\ result \in [Tags -> SUBSET Entries] /\ table = <<>>
        /\ pos \in 1 .. Len(file.first)
    BY <1>1, FileTypes DEF IInv, TypeOK, WrittenSoFar
  <1>4. file.first[pos][1] \in Tags /\ file.first[pos][2] \in Tags
    BY <1>3, FileTypes DEF IInv
  <1>5. /\ result' \in [Tags -> SUBSET Entries]
        /\ \A t \in Tags : result[t] \subseteq result'[t]
        /\ \A t \in Tags : t # file.first[pos][1] => result'[t] = result[t]
    BY <1>2, <1>3, <1>4 DEF Receive
  <1>6. TypeOK'
    BY <1>1, <1>3, <1>5 DEF IInv, TypeOK
  <1>7. OrderDistinct' /\ WrittenSoFar' /\ Numbered' /\ CellsDistinct'
    BY <1>1, <1>3 DEF IInv, OrderDistinct, WrittenSoFar, Numbered, CellsDistinct
  <1>8. ReadSoFar'
    <2> SUFFICES ASSUME NEW i \in 1 .. Len(file.items)
                 PROVE  /\ file.items[i][1] \in Keys'
                        /\ file.items[i][2] \subseteq result'[file.items[i][1]]
      BY <1>1 DEF ReadSoFar
    <2>1. /\ file.items[i][1] \in Keys
          /\ file.items[i][2] \subseteq result[file.items[i][1]]
      BY <1>1 DEF IInv, ReadSoFar
    <2>2. file.items[i][1] \in Tags
      BY FileTypes DEF IInv
    <2> QED
      BY <1>1, <1>5, <2>1, <2>2 DEF Keys
  <1>9. TransferredSoFar'
    <2> SUFFICES ASSUME WellOrdered(file), NEW p \in 1 .. Len(file.first),
                        p < pos + 1
                 PROVE  /\ file.first[p][1] \in Keys
                        /\ result'[file.first[p][2]] \subseteq result'[file.first[p][1]]
      BY <1>1 DEF TransferredSoFar, Keys
    <2>1. file.first[p][1] \in Tags /\ file.first[p][2] \in Tags
      BY FileTypes DEF IInv
    <2>2. CASE p = pos
      <3>1. Effective(pos) /\ src = file.first[pos][2]
        BY <1>2, <1>3, OwnSource DEF IInv
      <3>2. /\ file.first[pos][1] \in Keys
            /\ result' = [result EXCEPT ![file.first[pos][1]] = @ \cup result[src]]
        BY <1>2, <3>1 DEF Receive
      <3> QED
        BY <1>3, <1>4, <2>2, <3>1, <3>2
    <2>3. CASE p < pos
      <3>1. /\ file.first[p][1] \in Keys
            /\ result[file.first[p][2]] \subseteq result[file.first[p][1]]
        BY <1>1, <2>3 DEF IInv, TransferredSoFar
      <3>2. file.first[pos][1] # file.first[p][2]
        BY <1>3, <2>3 DEF WellOrdered
      <3> QED
        BY <1>5, <2>1, <3>1, <3>2
    <2> QED
      BY <1>3, <2>2, <2>3
  <1> QED
    BY <1>6, <1>7, <1>8, <1>9 DEF IInv

\* Declaring the numbered symbols.
LEMMA DeclareIInv ==
    ASSUME IInv, Declare
    PROVE  IInv'
  <1>1. /\ pc = "transfer" /\ pc' = "emit" /\ pos > Len(file.first) /\ pos' = 1
        /\ file' = file /\ order' = order /\ result' = result
        /\ counter' = counter
        /\ table' = [k \in 1 .. Len(order) |-> {}]
    BY DEF Declare
  <1>2. /\ pos \in Nat /\ order \in Seq(Tags) /\ Len(order) \in Nat
        /\ Len(file.first) \in Nat
    BY FileTypes DEF IInv, TypeOK
  <1>3. declared' \subseteq Entries \X (Nat \ {0})
    BY DEF Declare
  <1>4. /\ table' \in Seq(SUBSET ((Entries \cup {MainFn}) \X Nat))
        /\ Len(table') = Len(order)
        /\ \A k \in 1 .. Len(order) : table'[k] = {}
    BY <1>1, <1>2
  <1>5. TypeOK'
    BY <1>1, <1>3, <1>4 DEF IInv, TypeOK
  <1>6. OrderDistinct' /\ ReadSoFar'
    BY <1>1 DEF IInv, OrderDistinct, ReadSoFar, Keys
  <1>7. TransferredSoFar'
    <2> SUFFICES ASSUME WellOrdered(file), NEW p \in 1 .. Len(file.first)
                 PROVE  /\ file.first[p][1] \in Keys
                        /\ result[file.first[p][2]] \subseteq result[file.first[p][1]]
      BY <1>1 DEF TransferredSoFar, Keys
    <2>1. p < pos
      BY <1>1, <1>2
    <2> QED
      BY <1>1, <2>1 DEF IInv, TransferredSoFar
  <1>8. \A k \in 1 .. Len(order) : Written(k)' = {}
    BY <1>4 DEF Written
  <1>9. WrittenSoFar'
    BY <1>1, <1>2, <1>4, <1>8 DEF WrittenSoFar
  <1>10. Numbered' /\ CellsDistinct'
    BY <1>1, <1>4 DEF Numbered, CellsDistinct
  <1> QED
    BY <1>5, <1>6, <1>7, <1>9, <1>10 DEF IInv

\* Writing a cell whose number has not been used keeps all cells distinct.
LEMMA EmitCellIInv ==
    ASSUME IInv, NEW e \in Entries, EmitCell(e)
    PROVE  IInv'
  <1> DEFINE cell == <<e, counter[e] + 1>>
  <1>1. /\ pc = "emit" /\ pc' = "emit" /\ pos <= Len(order) /\ pos' = pos
        /\ file' = file /\ order' = order /\ result' = result
        /\ declared' = declared
        /\ e \in result[order[pos]] \ Written(pos)
        /\ counter' = [counter EXCEPT ![e] = @ + 1]
        /\ table' = [table EXCEPT ![pos] = @ \cup {cell}]
    BY DEF EmitCell, Suffix
  <1>2. /\ pos \in Nat \ {0} /\ Len(order) \in Nat
        /\ counter \in [Entries -> Nat]
        /\ table \in Seq(SUBSET ((Entries \cup {MainFn}) \X Nat))
        /\ Len(table) = Len(order)
        /\ pos \in 1 .. Len(table)
    BY <1>1 DEF IInv, TypeOK, WrittenSoFar
  <1>3. cell[1] = e /\ cell[2] = counter[e] + 1 /\ counter[e] \in Nat
        /\ cell \in (Entries \cup {MainFn}) \X Nat /\ e # MainFn
    BY <1>2, MainAssumption
  <1> HIDE DEF cell
  <1>4. /\ table' \in Seq(SUBSET ((Entries \cup {MainFn}) \X Nat))
        /\ Len(table') = Len(table)
        /\ \A k \in 1 .. Len(table) : k # pos => table'[k] = table[k]
        /\ table'[pos] = table[pos] \cup {cell}
    BY <1>1, <1>2, <1>3
  <1>5. /\ counter' \in [Entries -> Nat]
        /\ \A x \in Entries : x # e => counter'[x] = counter[x]
        /\ counter'[e] = counter[e] + 1
    BY <1>1, <1>2
  <1>6. TypeOK'
    BY <1>1, <1>4, <1>5 DEF IInv, TypeOK
  <1>7. OrderDistinct' /\ ReadSoFar' /\ TransferredSoFar'
    BY <1>1 DEF IInv, OrderDistinct, ReadSoFar, TransferredSoFar, Keys
  <1>8. /\ \A k \in 1 .. Len(order) : k # pos => Written(k)' = Written(k)
        /\ \A k \in 1 .. Len(order) : k = pos => Written(k)' = Written(k) \cup {e}
    BY <1>2, <1>3, <1>4 DEF Written
  <1>9. WrittenSoFar'
    <2> SUFFICES ASSUME NEW k \in 1 .. Len(order)
                 PROVE  /\ k < pos => result[order[k]] \subseteq Written(k)'
                        /\ Written(k)' \subseteq result[order[k]] \cup {MainFn}
      BY <1>1, <1>2, <1>4 DEF WrittenSoFar
    <2>1. /\ k < pos => result[order[k]] \subseteq Written(k)
          /\ Written(k) \subseteq result[order[k]] \cup {MainFn}
      BY <1>1 DEF IInv, WrittenSoFar
    <2> QED
      BY <1>1, <1>2, <1>8, <2>1
  <1>10. \A k \in 1 .. Len(table) : cell \notin table[k]
    <2> SUFFICES ASSUME NEW k \in 1 .. Len(table), cell \in table[k] PROVE FALSE
      OBVIOUS
    <2>1. cell[2] \in 1 .. counter[e]
      BY <1>3 DEF IInv, Numbered
    <2> QED
      BY <1>3, <2>1
  <1>11. Numbered'
    <2> SUFFICES ASSUME NEW k \in 1 .. Len(table), NEW c \in table'[k]
                 PROVE  /\ c[1] \in Entries => c[2] \in 1 .. counter'[c[1]]
                        /\ c[1] = MainFn => k < pos /\ order[k] = Libc
      BY <1>1, <1>4 DEF Numbered
    <2>1. CASE c \in table[k]
      <3>1. /\ c[1] \in Entries => c[2] \in 1 .. counter[c[1]]
            /\ c[1] = MainFn => k < pos /\ order[k] = Libc
        BY <2>1 DEF IInv, Numbered
      <3>2. \A x \in Entries : 1 .. counter[x] \subseteq 1 .. counter'[x]
        <4> SUFFICES ASSUME NEW x \in Entries
                     PROVE  1 .. counter[x] \subseteq 1 .. counter'[x]
          OBVIOUS
        <4>1. PICK l \in Nat : l = counter[x]
          BY <1>2
        <4>2. counter'[x] = l \/ counter'[x] = l + 1
          BY <1>5, <4>1
        <4> QED
          BY <4>1, <4>2
      <3> QED
        BY <3>1, <3>2
    <2>2. CASE c \notin table[k]
      <3>1. c = cell
        BY <1>4, <2>2
      <3> QED
        BY <1>3, <1>5, <3>1
    <2> QED
      BY <2>1, <2>2
  <1>12. CellsDistinct'
    <2> SUFFICES ASSUME NEW j \in 1 .. Len(table), NEW k \in 1 .. Len(table),
                        NEW c, c \in table'[j], c \in table'[k]
                 PROVE  j = k
      BY <1>4 DEF CellsDistinct
    <2>1. CASE c = cell
      BY <1>4, <1>10, <2>1
    <2>2. CASE c # cell
      BY <1>4, <2>2 DEF IInv, CellsDistinct
    <2> QED
      BY <2>1, <2>2
  <1> QED
    BY <1>6, <1>7, <1>9, <1>11, <1>12 DEF IInv

\* The end of a table.
LEMMA EmitEndIInv ==
    ASSUME IInv, EmitEnd
    PROVE  IInv'
  <1>1. /\ pc = "emit" /\ pc' = "emit" /\ pos <= Len(order) /\ pos' = pos + 1
        /\ file' = file /\ order' = order /\ result' = result
        /\ declared' = declared /\ counter' = counter
        /\ result[order[pos]] \subseteq Written(pos)
        /\ table' = IF order[pos] = Libc
                      THEN [table EXCEPT ![pos] = @ \cup {<<MainFn, 1>>}]
                      ELSE table
    BY DEF EmitEnd
  <1>2. /\ pos \in Nat \ {0} /\ Len(order) \in Nat
        /\ table \in Seq(SUBSET ((Entries \cup {MainFn}) \X Nat))
        /\ Len(table) = Len(order)
        /\ pos \in 1 .. Len(table)
    BY <1>1 DEF IInv, TypeOK, WrittenSoFar
  <1>3. /\ table' \in Seq(SUBSET ((Entries \cup {MainFn}) \X Nat))
        /\ Len(table') = Len(table)
        /\ \A k \in 1 .. Len(table) : k # pos => table'[k] = table[k]
        /\ table[pos] \subseteq table'[pos]
        /\ \A c \in table'[pos] : c \in table[pos] \/ (c = <<MainFn, 1>> /\ order[pos] = Libc)
    BY <1>1, <1>2
  <1>4. TypeOK'
    BY <1>1, <1>2, <1>3 DEF IInv, TypeOK
  <1>5. OrderDistinct' /\ ReadSoFar' /\ TransferredSoFar'
    BY <1>1 DEF IInv, OrderDistinct, ReadSoFar, TransferredSoFar, Keys
  <1>6. /\ \A k \in 1 .. Len(order) : k # pos => Written(k)' = Written(k)
        /\ \A k \in 1 .. Len(order) :
              k = pos => /\ Written(k) \subseteq Written(k)'
                         /\ Written(k)' \subseteq Written(k) \cup {MainFn}
    BY <1>2, <1>3 DEF Written
  <1>7. WrittenSoFar'
    <2> SUFFICES ASSUME NEW k \in 1 .. Len(order)
                 PROVE  /\ k < pos + 1 => result[order[k]] \subseteq Written(k)'
                        /\ Written(k)' \subseteq result[order[k]] \cup {MainFn}
      BY <1>1, <1>2, <1>3 DEF WrittenSoFar
    <2>1. /\ k < pos => result[order[k]] \subseteq Written(k)
          /\ Written(k) \subseteq result[order[k]] \cup {MainFn}
      BY <1>1 DEF IInv, WrittenSoFar
    <2>2. CASE k = pos
      BY <1>1, <1>6, <2>1, <2>2
    <2>3. CASE k # pos
      <3>1. k < pos + 1 => k < pos
        BY <1>2, <2>3
      <3> QED
        BY <1>6, <2>1, <2>3, <3>1
    <2> QED
      BY <2>2, <2>3
  <1>8. Numbered'
    <2> SUFFICES ASSUME NEW k \in 1 .. Len(table), NEW c \in table'[k]
                 PROVE  /\ c[1] \in Entries => c[2] \in 1 .. counter[c[1]]
                        /\ c[1] = MainFn => k < pos + 1 /\ order[k] = Libc
      BY <1>1, <1>3 DEF Numbered
    <2>1. CASE c \in table[k]
      <3>1. /\ c[1] \in Entries => c[2] \in 1 .. counter[c[1]]
            /\ c[1] = MainFn => k < pos /\ order[k] = Libc
        BY <2>1 DEF IInv, Numbered
      <3> QED
        BY <1>2, <3>1
    <2>2. CASE c \notin table[k]
      <3>1. k = pos /\ c = <<MainFn, 1>> /\ order[pos] = Libc
        BY <1>3, <2>2
      <3> QED
        BY <1>2, <3>1, MainAssumption
    <2> QED
      BY <2>1, <2>2
  <1>9. CellsDistinct'
    <2> SUFFICES ASSUME NEW j \in 1 .. Len(table), NEW k \in 1 .. Len(table),
                        NEW c, c \in table'[j], c \in table'[k]
                 PROVE  j = k
      BY <1>3 DEF CellsDistinct
    <2>1. CASE c[1] = MainFn
      <3>1. order[j] = Libc /\ order[k] = Libc
        BY <1>1, <1>3, <1>8, <2>1 DEF Numbered
      <3> QED
        BY <1>2, <3>1 DEF IInv, OrderDistinct
    <2>2. CASE c[1] # MainFn
      <3>1. c \in table[j] /\ c \in table[k]
        BY <1>3, <2>2
      <3> QED
        BY <3>1 DEF IInv, CellsDistinct
    <2> QED
      BY <2>1, <2>2
  <1> QED
    BY <1>4, <1>5, <1>7, <1>8, <1>9 DEF IInv

\* The end of the script.
LEMMA FinishIInv ==
    ASSUME IInv, Finish
    PROVE  IInv'
  <1>1. /\ pc = "emit" /\ pc' = "done" /\ pos > Len(order)
        /\ file' = file /\ pos' = pos /\ order' = order /\ result' = result
        /\ declared' = declared /\ counter' = counter /\ table' = table
    BY DEF Finish
  <1>2. TypeOK' /\ OrderDistinct'
    BY <1>1 DEF IInv, TypeOK, OrderDistinct
  <1>3. ReadSoFar' /\ TransferredSoFar'
    BY <1>1 DEF IInv, ReadSoFar, TransferredSoFar, Keys
  <1>4. WrittenSoFar'
    BY <1>1 DEF IInv, WrittenSoFar, Written
  <1>5. Numbered' /\ CellsDistinct'
    BY <1>1 DEF IInv, Numbered, CellsDistinct
  <1> QED
    BY <1>2, <1>3, <1>4, <1>5 DEF IInv

\* Every step keeps the invariant.
LEMMA NextIInv == IInv /\ [Next]_vars => IInv'
  <1> SUFFICES ASSUME IInv, [Next]_vars PROVE IInv'
    OBVIOUS
  <1>1. CASE ReadDone
    BY <1>1, FileTypes
       DEF ReadDone, IInv, TypeOK, OrderDistinct, ReadSoFar, TransferredSoFar,
           WrittenSoFar, Numbered, CellsDistinct, Keys, Written
  <1>2. CASE TransferFails
    BY <1>2
       DEF TransferFails, IInv, TypeOK, OrderDistinct, ReadSoFar,
           TransferredSoFar, WrittenSoFar, Numbered, CellsDistinct, Keys, Written
  <1>3. CASE UNCHANGED vars
    <2>1. /\ file' = file /\ pc' = pc /\ pos' = pos /\ order' = order
          /\ result' = result /\ declared' = declared /\ counter' = counter
          /\ table' = table
      BY <1>3 DEF vars
    <2>2. TypeOK' /\ OrderDistinct'
      BY <2>1 DEF IInv, TypeOK, OrderDistinct
    <2>3. ReadSoFar' /\ TransferredSoFar'
      BY <2>1 DEF IInv, ReadSoFar, TransferredSoFar, Keys
    <2>4. WrittenSoFar' /\ Numbered' /\ CellsDistinct'
      BY <2>1 DEF IInv, WrittenSoFar, Numbered, CellsDistinct, Written
    <2> QED
      BY <2>2, <2>3, <2>4 DEF IInv
  <1>4. ASSUME NEW e \in Entries, EmitCell(e) PROVE IInv'
    BY <1>4, EmitCellIInv
  <1> QED
    BY <1>1, <1>2, <1>3, <1>4, FinishIInv, ReadItemIInv, TransferIInv, DeclareIInv,
       EmitEndIInv DEF Next

\* The invariant of the script that writes mask.c holds always
\* (parse_all_dicts_from_file, generate_files).
THEOREM InductiveInvariant == Spec => []IInv
  BY InitIInv, NextIInv, PTL DEF Spec

\* Type correctness of the script's state.
THEOREM TypeCorrect == Spec => []TypeOK
  <1>1. IInv => TypeOK
    BY DEF IInv
  <1> QED
    BY <1>1, InductiveInvariant, PTL

\* generate_files references every callback symbol from one cell only.
THEOREM SymbolsUsedOnce == Spec => []CellsDistinct
  <1>1. IInv => CellsDistinct
    BY DEF IInv
  <1> QED
    BY <1>1, InductiveInvariant, PTL

\* A finished table has everything the merged dictionary has for its tag.
LEMMA TableComplete ==
    ASSUME IInv, pc = "done", NEW t \in Tags, t \in Keys
    PROVE  result[t] \subseteq Allowed(t)
  <1>1. PICK k \in 1 .. Len(order) : order[k] = t
    BY KeyPosition
  <1>2. k < pos
    BY DEF IInv, WrittenSoFar, TypeOK
  <1>3. result[t] \subseteq Written(k)
    BY <1>1, <1>2 DEF IInv, WrittenSoFar
  <1> QED
    BY <1>1, <1>3 DEF Allowed

\* And, but for main, nothing else.
LEMMA TableSound ==
    ASSUME IInv, pc = "done", NEW t \in Tags
    PROVE  Allowed(t) \ {MainFn} \subseteq result[t]
  BY DEF IInv, WrittenSoFar, Allowed

\* Every callback a dictionary lists for a tag is in the tag's finished table.
THEOREM ListedAreAllowed == Spec => []NothingLost
  <1>1. IInv => NothingLost
    <2> SUFFICES ASSUME IInv, pc = "done", NEW t \in Tags, NEW e \in Listed(t)
                 PROVE  e \in Allowed(t)
      BY DEF NothingLost
    <2>1. PICK i \in 1 .. Len(file.items) :
             file.items[i][1] = t /\ e \in file.items[i][2]
      BY DEF Listed
    <2>2. t \in Keys /\ e \in result[t]
      BY <2>1 DEF IInv, ReadSoFar
    <2> QED
      BY <2>2, TableComplete
  <1> QED
    BY <1>1, InductiveInvariant, PTL

\* Well ordered transfers make the receiving table contain the whole table it
\* receives from, however long the chain of transfers is.
THEOREM TransfersAreClosed == Spec => []TransfersClosed
  <1>1. IInv => TransfersClosed
    <2> SUFFICES ASSUME IInv, pc = "done", WellOrdered(file),
                        NEW p \in 1 .. Len(file.first),
                        NEW e \in Allowed(file.first[p][2]) \ {MainFn}
                 PROVE  e \in Allowed(file.first[p][1])
      BY DEF TransfersClosed
    <2>1. file.first[p][1] \in Tags /\ file.first[p][2] \in Tags
      BY FileTypes DEF IInv
    <2>2. e \in result[file.first[p][2]]
      BY <2>1, TableSound
    <2>3. /\ file.first[p][1] \in Keys
          /\ result[file.first[p][2]] \subseteq result[file.first[p][1]]
      BY DEF IInv, TransferredSoFar
    <2> QED
      BY <2>1, <2>2, <2>3, TableComplete
  <1> QED
    BY <1>1, InductiveInvariant, PTL

-----------------------------------------------------------------------------
(* What the tables hold besides, and the names of mask.h.                  *)

\* What header.txt grants to t.
Granted(t) == UNION {Listed(u) : u \in Feeds(t)}

\* Merging and transferring stay within header.txt.
FedSoFar == \A t \in Tags : result[t] \subseteq Granted(t)

\* The tables that have a cell of e, and those that will have one.
Holding(e)  == {k \in 1 .. Len(order) : e \in Written(k)}
Deserving(e) == {k \in 1 .. Len(order) : e \in result[order[k]]}

\* Every number up to the counter has been used, once for each table.
CountedSoFar ==
    /\ pc \notin {"emit", "done"} => \A e \in Entries : counter[e] = 0
    /\ pc \in {"emit", "done"} =>
          /\ \A e \in Entries :
                /\ counter[e] = Cardinality(Holding(e))
                /\ \A n \in 1 .. counter[e] : \E k \in 1 .. Len(table) : <<e, n>> \in table[k]
          /\ declared = UNION {{e} \X (1 .. Occurrences(e)) : e \in Entries}

\* The cell of main has no number of its own.
MainUnnumbered ==
    \A k \in 1 .. Len(table) : \A c \in table[k] : c[1] = MainFn => c = <<MainFn, 1>>

NInv == FedSoFar /\ CountedSoFar /\ MainUnnumbered

\* A tag feeds itself, and whatever feeds its source feeds it.
LEMMA FeedsFacts ==
    ASSUME TypeOK, NEW t \in Tags
    PROVE  /\ Listed(t) \subseteq Granted(t)
           /\ \A p \in 1 .. Len(file.first) :
                 file.first[p][1] = t => Granted(file.first[p][2]) \subseteq Granted(t)
  <1>1. t \in Feeds(t)
    BY DEF Feeds
  <1>2. ASSUME NEW p \in 1 .. Len(file.first), file.first[p][1] = t,
               NEW u \in Feeds(file.first[p][2])
        PROVE  u \in Feeds(t)
    BY <1>2 DEF Feeds, ClosedUnder
  <1> QED
    BY <1>1, <1>2 DEF Granted

\* A step that changes neither the file nor the merged dictionary.
LEMMA FedStays ==
    ASSUME FedSoFar, UNCHANGED <<file, result>>
    PROVE  FedSoFar'
  <1>1. \A t : Granted(t)' = Granted(t)
    BY DEF Granted, Listed, Feeds, ClosedUnder
  <1> QED
    BY <1>1 DEF FedSoFar

\* Every step keeps FedSoFar.
LEMMA FedStep ==
    ASSUME IInv, FedSoFar, [Next]_vars
    PROVE  FedSoFar'
  <1>1. /\ result \in [Tags -> SUBSET Entries] /\ pos \in Nat \ {0}
        /\ Len(file.first) \in Nat /\ Len(file.items) \in Nat
    BY FileTypes DEF IInv, TypeOK
  <1>2. CASE ReadItem
    <2> DEFINE k == file.items[pos][1]
               v == file.items[pos][2]
    <2>1. result' = [result EXCEPT ![k] = result[k] \cup v] /\ file' = file
          /\ pos \in 1 .. Len(file.items)
      BY <1>1, <1>2 DEF ReadItem, Merged
    <2>2. k \in Tags /\ v \subseteq Listed(k)
      BY <2>1, FileTypes DEF IInv, Listed
    <2>3. v \subseteq Granted(k)
      BY <2>2, FeedsFacts DEF IInv
    <2>4. \A t : Granted(t)' = Granted(t)
      BY <2>1 DEF Granted, Listed, Feeds, ClosedUnder
    <2> HIDE DEF k, v
    <2> QED
      BY <1>1, <2>1, <2>2, <2>3, <2>4 DEF FedSoFar
  <1>3. CASE Transfer
    <2>1. PICK src \in Tags : /\ IsSource(pos, src)
                              /\ \/ result' = Receive(file.first[pos][1], src)
                                 \/ UNCHANGED result
      BY <1>3 DEF Transfer
    <2>2. file' = file /\ pos \in 1 .. Len(file.first)
      BY <1>1, <1>3 DEF Transfer
    <2>3. CASE UNCHANGED result
      BY <2>2, <2>3, FedStays
    <2>4. CASE result' = Receive(file.first[pos][1], src)
      <3> DEFINE k == file.first[pos][1]
      <3>1. k \in Tags
        BY <2>2, FileTypes DEF IInv
      <3>2. PICK q \in 1 .. Len(file.first) : file.first[q] = <<k, src>>
        BY <2>1 DEF IsSource
      <3>3. Granted(src) \subseteq Granted(k)
        BY <3>1, <3>2, FeedsFacts DEF IInv
      <3>4. \A t : Granted(t)' = Granted(t)
        BY <2>2 DEF Granted, Listed, Feeds, ClosedUnder
      <3>5. result' = [result EXCEPT ![k] = result[k] \cup result[src]]
        BY <2>4 DEF Receive
      <3> HIDE DEF k
      <3> QED
        BY <1>1, <3>1, <3>3, <3>4, <3>5 DEF FedSoFar
    <2> QED
      BY <2>1, <2>3, <2>4
  <1>4. CASE ReadDone \/ TransferFails \/ Declare \/ EmitEnd \/ Finish
             \/ (\E e \in Entries : EmitCell(e)) \/ UNCHANGED vars
    <2>1. UNCHANGED <<file, result>>
      BY <1>4 DEF ReadDone, TransferFails, Declare, EmitEnd, Finish, EmitCell, vars
    <2> QED
      BY <2>1, FedStays
  <1> QED
    BY <1>2, <1>3, <1>4 DEF Next

\* Only the writing of cells moves the counters.
LEMMA CountedStays ==
    ASSUME CountedSoFar, UNCHANGED <<order, result, declared, counter, table>>,
           pc' \in {"emit", "done"} <=> pc \in {"emit", "done"}
    PROVE  CountedSoFar'
  <1>1. \A e : Holding(e)' = Holding(e)
    BY DEF Holding, Written
  <1>2. \A e : Occurrences(e)' = Occurrences(e)
    BY DEF Occurrences, Keys
  <1> QED
    BY <1>1, <1>2 DEF CountedSoFar

\* Declaring the numbered symbols keeps CountedSoFar.
LEMMA DeclareCounted ==
    ASSUME IInv, CountedSoFar, Declare
    PROVE  CountedSoFar'
  <1>1. /\ pc = "transfer" /\ pc' = "emit" /\ order' = order /\ result' = result
        /\ counter' = counter /\ table' = [k \in 1 .. Len(order) |-> {}]
        /\ declared' = UNION {{e} \X (1 .. Occurrences(e)) : e \in Entries}
    BY DEF Declare
  <1>2. \A e : Occurrences(e)' = Occurrences(e)
    BY <1>1 DEF Occurrences, Keys
  <1>3. ASSUME NEW e \in Entries
        PROVE  /\ counter'[e] = Cardinality(Holding(e)')
               /\ 1 .. counter'[e] = {}
    <2>1. Holding(e)' = {}
      BY <1>1 DEF Holding, Written
    <2>2. counter'[e] = 0
      BY <1>1 DEF CountedSoFar
    <2> QED
      BY <2>1, <2>2, FS_EmptySet
  <1> QED
    BY <1>1, <1>2, <1>3 DEF CountedSoFar

\* So does writing a cell.
LEMMA EmitCellCounted ==
    ASSUME IInv, CountedSoFar, NEW e \in Entries, EmitCell(e)
    PROVE  CountedSoFar'
  <1> DEFINE cell == <<e, counter[e] + 1>>
  <1>1. /\ pc = "emit" /\ pc' = "emit" /\ pos <= Len(order)
        /\ order' = order /\ result' = result /\ declared' = declared
        /\ e \notin Written(pos)
        /\ counter' = [counter EXCEPT ![e] = @ + 1]
        /\ table' = [table EXCEPT ![pos] = @ \cup {cell}]
    BY DEF EmitCell, Suffix
  <1>2. /\ pos \in Nat \ {0} /\ Len(order) \in Nat
        /\ counter \in [Entries -> Nat]
        /\ table \in Seq(SUBSET ((Entries \cup {MainFn}) \X Nat))
        /\ Len(table) = Len(order)
        /\ pos \in 1 .. Len(table)
    BY <1>1 DEF IInv, TypeOK, WrittenSoFar
  <1>3. cell[1] = e
    OBVIOUS
  <1> HIDE DEF cell
  <1>4. /\ Len(table') = Len(table)
        /\ \A k \in 1 .. Len(table) : k # pos => table'[k] = table[k]
        /\ table'[pos] = table[pos] \cup {cell}
    BY <1>1, <1>2
  <1>5. \A x : Occurrences(x)' = Occurrences(x)
    BY <1>1 DEF Occurrences, Keys
  <1>6. Holding(e)' = Holding(e) \cup {pos} /\ pos \notin Holding(e)
    BY <1>1, <1>2, <1>3, <1>4 DEF Holding, Written
  <1>7. ASSUME NEW x \in Entries, x # e PROVE Holding(x)' = Holding(x)
    BY <1>1, <1>2, <1>3, <1>4, <1>7 DEF Holding, Written
  <1>8. IsFiniteSet(Holding(e))
    <2>1. IsFiniteSet(1 .. Len(order))
      BY <1>2, FS_Interval
    <2> QED
      BY <2>1, FS_Subset DEF Holding
  <1>9. Cardinality(Holding(e)') = Cardinality(Holding(e)) + 1
    BY <1>6, <1>8, FS_AddElement
  <1>10. ASSUME NEW x \in Entries
         PROVE  /\ counter'[x] = Cardinality(Holding(x)')
                /\ \A n \in 1 .. counter'[x] : \E k \in 1 .. Len(table') : <<x, n>> \in table'[k]
    <2>1. /\ counter[x] = Cardinality(Holding(x))
          /\ \A n \in 1 .. counter[x] : \E k \in 1 .. Len(table) : <<x, n>> \in table[k]
      BY <1>1 DEF CountedSoFar
    <2>2. \A k \in 1 .. Len(table) : table[k] \subseteq table'[k]
      BY <1>4
    <2>3. CASE x # e
      <3>1. counter'[x] = counter[x]
        BY <1>1, <1>2, <2>3
      <3> QED
        BY <1>4, <1>7, <2>1, <2>2, <2>3, <3>1
    <2>4. CASE x = e
      <3>1. counter'[e] = counter[e] + 1 /\ counter[e] \in Nat
        BY <1>1, <1>2
      <3>2. <<e, counter[e] + 1>> \in table'[pos]
        BY <1>4 DEF cell
      <3>3. ASSUME NEW n \in 1 .. counter'[e]
            PROVE  \E k \in 1 .. Len(table') : <<e, n>> \in table'[k]
        <4>1. CASE n = counter[e] + 1
          BY <1>2, <1>4, <3>2, <4>1
        <4>2. CASE n \in 1 .. counter[e]
          BY <1>4, <2>1, <2>2, <2>4, <4>2
        <4> QED
          BY <3>1, <4>1, <4>2
      <3> QED
        BY <1>9, <2>1, <2>4, <3>1, <3>3
    <2> QED
      BY <2>3, <2>4
  <1> QED
    BY <1>1, <1>5, <1>10 DEF CountedSoFar

\* So does the end of a table.
LEMMA EmitEndCounted ==
    ASSUME IInv, CountedSoFar, EmitEnd
    PROVE  CountedSoFar'
  <1>1. /\ pc = "emit" /\ pc' = "emit" /\ pos <= Len(order)
        /\ order' = order /\ result' = result /\ declared' = declared
        /\ counter' = counter
        /\ table' = IF order[pos] = Libc
                      THEN [table EXCEPT ![pos] = @ \cup {<<MainFn, 1>>}]
                      ELSE table
    BY DEF EmitEnd
  <1>2. /\ pos \in Nat \ {0} /\ Len(order) \in Nat
        /\ table \in Seq(SUBSET ((Entries \cup {MainFn}) \X Nat))
        /\ Len(table) = Len(order)
        /\ pos \in 1 .. Len(table)
    BY <1>1 DEF IInv, TypeOK, WrittenSoFar
  <1>3. /\ Len(table') = Len(table)
        /\ \A k \in 1 .. Len(table) : table[k] \subseteq table'[k]
        /\ \A k \in 1 .. Len(table) : \A c \in table'[k] : c \in table[k] \/ c[1] = MainFn
    BY <1>1, <1>2
  <1>4. \A x : Occurrences(x)' = Occurrences(x)
    BY <1>1 DEF Occurrences, Keys
  <1>5. ASSUME NEW x \in Entries PROVE Holding(x)' = Holding(x)
    <2>1. x # MainFn
      BY MainAssumption
    <2>2. \A k \in 1 .. Len(order) : x \in Written(k)' <=> x \in Written(k)
      BY <1>2, <1>3, <2>1 DEF Written
    <2> QED
      BY <1>1, <2>2 DEF Holding
  <1> QED
    BY <1>1, <1>3, <1>4, <1>5 DEF CountedSoFar

\* Only the cell of main has the name of main.
LEMMA MainStep ==
    ASSUME IInv, MainUnnumbered, [Next]_vars
    PROVE  MainUnnumbered'
  <1>1. CASE Declare
    BY <1>1 DEF Declare, MainUnnumbered
  <1>2. ASSUME NEW e \in Entries, EmitCell(e) PROVE MainUnnumbered'
    <2>1. /\ table' = [table EXCEPT ![pos] = @ \cup {<<e, Suffix(e)>>}]
          /\ table \in Seq(SUBSET ((Entries \cup {MainFn}) \X Nat)) /\ e # MainFn
      BY <1>2, MainAssumption DEF EmitCell, IInv, TypeOK
    <2>2. Len(table') = Len(table) /\ \A k \in 1 .. Len(table) :
             \A c \in table'[k] : c \in table[k] \/ c[1] = e
      BY <2>1
    <2> QED
      BY <2>1, <2>2 DEF MainUnnumbered
  <1>3. CASE EmitEnd
    <2>1. /\ table' = IF order[pos] = Libc
                        THEN [table EXCEPT ![pos] = @ \cup {<<MainFn, 1>>}]
                        ELSE table
          /\ table \in Seq(SUBSET ((Entries \cup {MainFn}) \X Nat))
      BY <1>3 DEF EmitEnd, IInv, TypeOK
    <2>2. Len(table') = Len(table) /\ \A k \in 1 .. Len(table) :
             \A c \in table'[k] : c \in table[k] \/ c = <<MainFn, 1>>
      BY <2>1
    <2> QED
      BY <2>2 DEF MainUnnumbered
  <1>4. CASE UNCHANGED table
    BY <1>4 DEF MainUnnumbered
  <1> QED
    BY <1>1, <1>2, <1>3, <1>4
       DEF Next, vars, ReadItem, ReadDone, Transfer, TransferFails, Finish

\* Tables hold what header.txt grants, and the counters count them.
THEOREM NamesInvariant == Spec => []NInv
  <1>1. Init => NInv
    <2> SUFFICES ASSUME Init PROVE NInv
      OBVIOUS
    <2> QED
      BY DEF Init, NInv, FedSoFar, CountedSoFar, MainUnnumbered
  <1>2. IInv /\ NInv /\ [Next]_vars => NInv'
    <2> SUFFICES ASSUME IInv, NInv, [Next]_vars PROVE NInv'
      OBVIOUS
    <2>1. FedSoFar' /\ MainUnnumbered'
      BY FedStep, MainStep DEF NInv
    <2>2. CountedSoFar
      BY DEF NInv
    <2>3. CASE ReadItem \/ ReadDone \/ Transfer \/ TransferFails
      <3>1. pc \in {"read", "transfer"} /\ pc' \in {"read", "transfer", "failed"}
            /\ counter' = counter
        BY <2>3 DEF ReadItem, ReadDone, Transfer, TransferFails
      <3> QED
        BY <2>1, <2>2, <3>1 DEF CountedSoFar, NInv
    <2>4. CASE Declare
      BY <2>1, <2>2, <2>4, DeclareCounted DEF NInv
    <2>5. CASE \E e \in Entries : EmitCell(e)
      BY <2>1, <2>2, <2>5, EmitCellCounted DEF NInv
    <2>6. CASE EmitEnd
      BY <2>1, <2>2, <2>6, EmitEndCounted DEF NInv
    <2>7. CASE Finish \/ UNCHANGED vars
      <3>1. /\ UNCHANGED <<order, result, declared, counter, table>>
            /\ pc' \in {"emit", "done"} <=> pc \in {"emit", "done"}
        BY <2>7 DEF Finish, vars
      <3> QED
        BY <2>1, <2>2, <3>1, CountedStays DEF NInv
    <2> QED
      BY <2>3, <2>4, <2>5, <2>6, <2>7 DEF Next
  <1> QED
    BY <1>1, <1>2, InductiveInvariant, PTL DEF Spec

\* No transfer and no cell widens a table beyond what header.txt grants.
THEOREM OnlyListedAllowed == Spec => []NothingInvented
  <1>1. IInv /\ NInv => NothingInvented
    <2> SUFFICES ASSUME IInv, NInv, pc = "done", NEW t \in Tags, NEW e \in Allowed(t)
                 PROVE  e \in (IF t = Libc THEN {MainFn} ELSE {}) \cup Granted(t)
      BY DEF NothingInvented, Granted
    <2>1. CASE e # MainFn
      BY <2>1, TableSound DEF NInv, FedSoFar
    <2>2. CASE e = MainFn
      <3>1. PICK k \in 1 .. Len(order) : order[k] = t /\ e \in Written(k)
        BY DEF Allowed
      <3>2. PICK c \in table[k] : c[1] = e
        BY <3>1 DEF Written
      <3>3. Len(table) = Len(order)
        BY DEF IInv, WrittenSoFar
      <3>4. order[k] = Libc
        BY <2>2, <3>2, <3>3 DEF IInv, Numbered
      <3> QED
        BY <2>2, <3>1, <3>4
    <2> QED
      BY <2>1, <2>2
  <1> QED
    BY <1>1, InductiveInvariant, NamesInvariant, PTL

\* A callback is in as many tables as it is in lists: no tag has two tables.
LEMMA OccurrencesCounted ==
    ASSUME IInv, NEW e \in Entries
    PROVE  Occurrences(e) = Cardinality(Deserving(e)) /\ Occurrences(e) \in Nat
  <1> DEFINE K == {t \in Keys : e \in result[t]}
             f == [k \in Deserving(e) |-> order[k]]
  <1>1. Len(order) \in Nat
    BY DEF IInv, TypeOK
  <1>2. IsFiniteSet(Deserving(e))
    <2>1. IsFiniteSet(1 .. Len(order))
      BY <1>1, FS_Interval
    <2> QED
      BY <2>1, FS_Subset DEF Deserving
  <1>3. f \in Bijection(Deserving(e), K)
    <2>1. \A k \in Deserving(e) : order[k] \in K
      BY DEF Deserving, Keys
    <2>2. \A j, k \in Deserving(e) : order[j] = order[k] => j = k
      BY DEF Deserving, IInv, OrderDistinct
    <2>3. \A t \in K : \E k \in Deserving(e) : order[k] = t
      BY KeyPosition DEF Deserving
    <2> HIDE DEF K
    <2> QED
      BY <2>1, <2>2, <2>3 DEF Bijection, Injection, Surjection, IsInjective
  <1>4. K = {k \in Keys : e \in result[k]}
    OBVIOUS
  <1> HIDE DEF f, K
  <1>5. IsFiniteSet(K) /\ Cardinality(K) = Cardinality(Deserving(e))
    BY <1>2, <1>3, FS_Bijection DEF ExistsBijection
  <1>6. Cardinality(K) \in Nat
    BY <1>5, FS_CardinalityType
  <1> QED
    BY <1>4, <1>5, <1>6 DEF Occurrences

\* mask.c uses exactly the names mask.h declares.
THEOREM NamesDeclared == Spec => []DeclaredAreUsed
  <1>1. IInv /\ NInv => DeclaredAreUsed
    <2> SUFFICES ASSUME IInv, NInv, pc = "done"
                 PROVE  declared = (UNION {table[k] : k \in 1 .. Len(table)}) \ {<<MainFn, 1>>}
      BY DEF DeclaredAreUsed
    <2>1. /\ Len(table) = Len(order) /\ Len(order) \in Nat /\ pos > Len(order) /\ pos \in Nat
          /\ table \in Seq(SUBSET ((Entries \cup {MainFn}) \X Nat))
      BY DEF IInv, WrittenSoFar, TypeOK
    <2>2. ASSUME NEW e \in Entries
          PROVE  counter[e] = Occurrences(e)
      <3>1. ASSUME NEW k \in 1 .. Len(order)
            PROVE  e \in Written(k) <=> e \in result[order[k]]
        <4>1. k < pos
          BY <2>1
        <4>2. result[order[k]] \subseteq Written(k) /\ Written(k) \subseteq result[order[k]] \cup {MainFn}
          BY <4>1 DEF IInv, WrittenSoFar
        <4> QED
          BY <4>2, MainAssumption
      <3>2. Holding(e) = Deserving(e)
        BY <3>1 DEF Holding, Deserving
      <3> QED
        BY <3>2, OccurrencesCounted DEF NInv, CountedSoFar
    <2>3. declared = UNION {{e} \X (1 .. Occurrences(e)) : e \in Entries}
      BY DEF NInv, CountedSoFar
    <2>4. ASSUME NEW d \in declared
          PROVE  d \in (UNION {table[k] : k \in 1 .. Len(table)}) \ {<<MainFn, 1>>}
      <3>1. PICK e \in Entries : d \in {e} \X (1 .. Occurrences(e))
        BY <2>3
      <3>2. PICK n \in 1 .. counter[e] : d = <<e, n>>
        BY <2>2, <3>1
      <3>3. PICK k \in 1 .. Len(table) : <<e, n>> \in table[k]
        BY DEF NInv, CountedSoFar
      <3>4. e # MainFn
        BY MainAssumption
      <3> QED
        BY <3>2, <3>3, <3>4
    <2>5. ASSUME NEW k \in 1 .. Len(table), NEW c \in table[k], c # <<MainFn, 1>>
          PROVE  c \in declared
      <3>0. table[k] \subseteq (Entries \cup {MainFn}) \X Nat
        BY <2>1
      <3>1. c \in (Entries \cup {MainFn}) \X Nat
        BY <3>0
      <3>2. c[1] # MainFn
        BY <2>5 DEF NInv, MainUnnumbered
      <3>3. c[1] \in Entries /\ c[2] \in 1 .. counter[c[1]]
        BY <3>1, <3>2 DEF IInv, Numbered
      <3>4. c = <<c[1], c[2]>>
        BY <3>1
      <3> QED
        BY <2>2, <2>3, <3>3, <3>4
    <2> QED
      BY <2>4, <2>5
  <1> QED
    BY <1>1, InductiveInvariant, NamesInvariant, PTL

-----------------------------------------------------------------------------
(* TableLink: from mask.c to memory.                                       *)

\* The linker comes after the script, and the loader after the linker.
InTurn ==
    /\ scanned \in Nat /\ scanned <= Len(table)
    /\ scanned > 0 \/ DOMAIN memory # {} => pc = "done"
    /\ DOMAIN memory # {} => scanned = Len(table)

\* The symbols of the tables scanned so far were recognised, each once.
Recognised ==
    /\ DOMAIN custom = UNION {CellSymbols(k) : k \in 1 .. scanned}
    /\ \A s \in DOMAIN custom : custom[s].offset = OffsetOf[s[1]]
    /\ \A k \in 1 .. scanned : \A s \in CellSymbols(k) : <<k, s>> \in maybe

LinkInv ==
    /\ IInv
    /\ InTurn
    /\ Recognised
    /\ MemoryHoldsCallbacks

\* The symbols of a cell stand for entries of header.txt.
LEMMA CellTypes ==
    ASSUME TypeOK
    PROVE  /\ Len(table) \in Nat
           /\ \A k \in 1 .. Len(table) : \A s \in CellSymbols(k) : s[1] \in Entries
  <1>1. table \in Seq(SUBSET ((Entries \cup {MainFn}) \X Nat))
    BY DEF TypeOK
  <1> QED
    BY <1>1 DEF CellSymbols

\* An offset below the linker's limit survives being encoded.
LEMMA OffsetKept ==
    ASSUME NEW e \in Entries
    PROVE  Encoded(OffsetOf[e]).offset = OffsetOf[e]
  <1>1. OffsetOf[e] \in 0 .. MaxOffset
    BY LinkAssumption
  <1>2. OffsetSpace \in Nat /\ OffsetSpace > 0 /\ MaxOffset < OffsetSpace
        /\ MaxOffset \in Nat
    BY SMT DEF OffsetSpace, MaxOffset
  <1>3. OffsetOf[e] % OffsetSpace = OffsetOf[e]
    BY <1>1, <1>2
  <1> QED
    BY <1>3 DEF Encoded

\* Nothing has been linked when the script starts.
LEMMA LinkInitInv == LinkInit => LinkInv
  <1> SUFFICES ASSUME LinkInit PROVE LinkInv
    OBVIOUS
  <1>1. IInv
    BY InitIInv DEF LinkInit
  <1>2. /\ scanned = 0 /\ DOMAIN custom = {} /\ DOMAIN memory = {}
        /\ Len(table) \in Nat
    BY <1>1, CellTypes DEF LinkInit, IInv
  <1>3. InTurn /\ Recognised /\ MemoryHoldsCallbacks
    BY <1>2 DEF InTurn, Recognised, MemoryHoldsCallbacks
  <1> QED
    BY <1>1, <1>3 DEF LinkInv

\* The script does not run once mask.c is written.
LEMMA ScriptInv ==
    ASSUME LinkInv, Next, UNCHANGED linkVars
    PROVE  LinkInv'
  <1>1. pc # "done"
    BY DEF Next, ReadItem, ReadDone, Transfer, TransferFails, Declare, EmitCell,
           EmitEnd, Finish
  <1>2. IInv'
    BY NextIInv DEF LinkInv
  <1>3. Len(table)' \in Nat
    BY <1>2 DEF IInv, TypeOK
  <1>4. /\ scanned = 0 /\ DOMAIN memory = {}
        /\ scanned' = scanned /\ custom' = custom /\ maybe' = maybe /\ memory' = memory
    <2>1. scanned \in Nat /\ ~(scanned > 0) /\ DOMAIN memory = {}
      BY <1>1 DEF LinkInv, InTurn
    <2>2. scanned = 0
      BY <2>1
    <2> QED
      BY <2>1, <2>2 DEF linkVars
  <1>5. DOMAIN custom = {}
    BY <1>4 DEF LinkInv, Recognised
  <1>6. InTurn' /\ Recognised' /\ MemoryHoldsCallbacks'
    <2>1. InTurn'
      BY <1>3, <1>4 DEF InTurn
    <2>2. 1 .. scanned' = {}
      BY <1>4
    <2>3. Recognised'
      BY <1>4, <1>5, <2>2 DEF Recognised
    <2>4. MemoryHoldsCallbacks'
      BY <1>4 DEF MemoryHoldsCallbacks
    <2> QED
      BY <2>1, <2>3, <2>4
  <1> QED
    BY <1>2, <1>6 DEF LinkInv

\* The linker scans the next table.
LEMMA ScanInv ==
    ASSUME LinkInv, ScanTable
    PROVE  LinkInv'
  <1> DEFINE k == scanned + 1
             new == CellSymbols(k)
  <1>1. /\ pc = "done" /\ scanned < Len(table)
        /\ pc' = pc /\ table' = table /\ memory' = memory /\ scanned' = k
        /\ UNCHANGED vars
    BY DEF ScanTable, vars
  <1>2. IInv'
    BY <1>1, NextIInv DEF LinkInv
  <1>3. /\ Len(table) \in Nat /\ scanned \in Nat /\ k \in 1 .. Len(table)
        /\ DOMAIN memory = {}
    <2>1. Len(table) \in Nat
      BY CellTypes DEF LinkInv, IInv
    <2>2. scanned \in Nat /\ (DOMAIN memory # {} => scanned = Len(table))
      BY DEF LinkInv, InTurn
    <2>3. k \in 1 .. Len(table) /\ scanned # Len(table)
      BY <1>1, <2>1, <2>2
    <2> QED
      BY <2>1, <2>2, <2>3
  <1>4. new \cap DOMAIN custom = {}
    <2> SUFFICES ASSUME NEW s \in new, NEW j \in 1 .. scanned, s \in CellSymbols(j)
                 PROVE  FALSE
      BY DEF LinkInv, Recognised
    <2>1. s \in table[j] \cap table[k] /\ j \in 1 .. Len(table) /\ j # k
      BY <1>3 DEF CellSymbols
    <2> QED
      BY <1>3, <2>1 DEF LinkInv, IInv, CellsDistinct
  <1>5. /\ DOMAIN custom' = DOMAIN custom \cup new
        /\ \A s \in new : custom'[s] = Encoded(OffsetOf[s[1]])
        /\ \A s \in DOMAIN custom : custom'[s] = custom[s]
        /\ maybe' = maybe \cup ({k} \X new)
    BY <1>4 DEF ScanTable
  <1>6. \A j : CellSymbols(j)' = CellSymbols(j)
    BY <1>1 DEF CellSymbols
  <1>7. InTurn'
    BY <1>1, <1>3 DEF InTurn
  <1>8. Recognised'
    <2>1. DOMAIN custom' = UNION {CellSymbols(j) : j \in 1 .. k}
      <3>1. DOMAIN custom = UNION {CellSymbols(j) : j \in 1 .. scanned}
        BY DEF LinkInv, Recognised
      <3>2. 1 .. k = (1 .. scanned) \cup {k}
        BY <1>3
      <3> HIDE DEF k
      <3> QED
        BY <1>5, <3>1, <3>2
    <2>2. \A s \in DOMAIN custom' : custom'[s].offset = OffsetOf[s[1]]
      <3>1. \A s \in new : s[1] \in Entries
        BY <1>3, CellTypes DEF LinkInv, IInv
      <3> QED
        BY <1>5, <3>1, OffsetKept DEF LinkInv, Recognised
    <2>3. \A j \in 1 .. k : \A s \in CellSymbols(j) : <<j, s>> \in maybe'
      <3>1. \A j \in 1 .. scanned : \A s \in CellSymbols(j) : <<j, s>> \in maybe
        BY DEF LinkInv, Recognised
      <3>2. 1 .. k = (1 .. scanned) \cup {k}
        BY <1>3
      <3>3. \A s \in new : <<k, s>> \in maybe'
        BY <1>5
      <3>4. \A x \in maybe : x \in maybe'
        BY <1>5
      <3> HIDE DEF k
      <3> QED
        BY <3>1, <3>2, <3>3, <3>4
    <2> HIDE DEF k
    <2> QED
      BY <1>1, <1>6, <2>1, <2>2, <2>3 DEF Recognised
  <1>9. MemoryHoldsCallbacks'
    BY <1>1, <1>3 DEF MemoryHoldsCallbacks
  <1> QED
    BY <1>2, <1>7, <1>8, <1>9 DEF LinkInv

\* The loader relocates the cells.
LEMMA LoadInv ==
    ASSUME LinkInv, Load
    PROVE  LinkInv'
  <1>1. /\ pc = "done" /\ scanned = Len(table)
        /\ pc' = pc /\ table' = table /\ scanned' = scanned
        /\ custom' = custom /\ maybe' = maybe
        /\ UNCHANGED vars
    BY DEF Load, vars
  <1>2. IInv'
    BY <1>1, NextIInv DEF LinkInv
  <1>3. Len(table) \in Nat
    BY CellTypes DEF LinkInv, IInv
  <1>4. InTurn'
    BY <1>1, <1>3 DEF InTurn
  <1>5. Recognised'
    BY <1>1 DEF LinkInv, Recognised, CellSymbols
  <1>6. ASSUME NEW k \in 1 .. Len(table), NEW s \in CellSymbols(k)
        PROVE  CellValue(k, s) = AddressOf(s[1]) /\ s[1] \in Entries
    <2>1. s[1] \in Entries
      BY CellTypes DEF LinkInv, IInv
    <2>2. custom[s].offset = OffsetOf[s[1]] /\ <<k, s>> \in maybe
      BY <1>1 DEF LinkInv, Recognised
    <2>3. LoadAddr[TagOf[s[1]]] \in Nat /\ OffsetOf[s[1]] \in Nat
      BY <2>1, LinkAssumption
    <2> QED
      BY <2>1, <2>2, <2>3 DEF CellValue, AddressOf
  <1>7. ASSUME NEW k \in 1 .. Len(table)
        PROVE  {CellValue(k, s) : s \in CellSymbols(k)}
                 = {AddressOf(e) : e \in Written(k) \ {MainFn}}
    <2>1. Written(k) \ {MainFn} = {s[1] : s \in CellSymbols(k)}
      BY DEF Written, CellSymbols
    <2> QED
      BY <1>6, <2>1
  <1>8. memory' = [k \in 1 .. Len(table) |-> {CellValue(k, s) : s \in CellSymbols(k)}]
    BY DEF Load
  <1>9. \A k : Written(k)' = Written(k)
    BY <1>1 DEF Written
  <1>10. MemoryHoldsCallbacks'
    BY <1>7, <1>8, <1>9 DEF MemoryHoldsCallbacks, AddressOf
  <1> QED
    BY <1>2, <1>4, <1>5, <1>10 DEF LinkInv

\* Every step keeps the invariant.
LEMMA LinkNextInv == LinkInv /\ [LinkNext]_allVars => LinkInv'
  <1> SUFFICES ASSUME LinkInv, [LinkNext]_allVars PROVE LinkInv'
    OBVIOUS
  <1>1. CASE UNCHANGED allVars
    <2>1. UNCHANGED vars /\ scanned' = scanned /\ custom' = custom
          /\ maybe' = maybe /\ memory' = memory /\ table' = table /\ pc' = pc
      BY <1>1 DEF allVars, vars, linkVars
    <2>2. IInv'
      BY <2>1, NextIInv DEF LinkInv
    <2> QED
      BY <2>1, <2>2 DEF LinkInv, InTurn, Recognised, MemoryHoldsCallbacks,
                        CellSymbols, Written, AddressOf
  <1> QED
    BY <1>1, ScriptInv, ScanInv, LoadInv DEF LinkNext

\* The tables of the running program hold what create_header.py put there.
THEOREM TablesInMemory == LinkSpec => []MemoryHoldsCallbacks
  <1>1. LinkInv => MemoryHoldsCallbacks
    BY DEF LinkInv
  <1> QED
    BY <1>1, LinkInitInv, LinkNextInv, PTL DEF LinkSpec

=============================================================================
