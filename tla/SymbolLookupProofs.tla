-------------------------- MODULE SymbolLookupProofs --------------------------
(***************************************************************************)
(* The placeholder arrays, the lookups that use them and the loading of    *)
(* NSS modules, for any functions, threads and modules.                    *)
(***************************************************************************)
EXTENDS SymbolLookup, Integers, FiniteSetTheorems, SequenceTheorems, WellFoundedInduction,
        TLAPS

States == {"uninitialized", "loaded", "failed"}

Loading == {"open", "failed", "look", "read", "install", "close"}

\* What a thread is doing, and that it has a module while it loads one.
ThreadInv ==
    /\ pc \in [Threads -> {"idle", "dlsym"} \cup Loading]
    /\ module \in [Threads -> Modules \cup {NoName}]
    /\ \A t \in Threads : pc[t] \in Loading => module[t] \in Modules
    /\ list_lock \in Threads \cup {NoThread}

ModuleInv ==
    /\ state \in [Modules -> States]
    /\ refs \in [Modules -> Nat]
    /\ functions = [m \in Modules |-> functions[m]]

LoadInv == ThreadInv /\ ModuleInv /\ ReferencesBalance

\* The holders of a library are finitely many.
LEMMA HoldersFinite == ASSUME NEW m PROVE IsFiniteSet(Holders(m))
<1>1. IsFiniteSet(Threads)
  BY LookupAssumption
<1>2. Holders(m) \subseteq Threads
  BY DEF Holders
<1> QED BY <1>1, <1>2, FS_Subset

\* One more holder, or one less, is one reference more or less.
LEMMA HolderJoins ==
    ASSUME NEW m, NEW t \in Threads, t \notin Holders(m), Holders(m)' = Holders(m) \cup {t}
    PROVE  /\ Cardinality(Holders(m)) \in Nat
           /\ Cardinality(Holders(m)') = Cardinality(Holders(m)) + 1
<1>1. IsFiniteSet(Holders(m))
  BY HoldersFinite
<1> QED BY <1>1, FS_AddElement, FS_CardinalityType

\* And a holder that leaves was there.
LEMMA HolderLeaves ==
    ASSUME NEW m, NEW t \in Threads, t \in Holders(m), Holders(m)' = Holders(m) \ {t}
    PROVE  /\ Cardinality(Holders(m)) \in Nat \ {0}
           /\ Cardinality(Holders(m)') = Cardinality(Holders(m)) - 1
<1>1. IsFiniteSet(Holders(m))
  BY HoldersFinite
<1>2. Cardinality(Holders(m)) \in Nat
  BY <1>1, FS_CardinalityType
<1>3. Cardinality(Holders(m)) # 0
  BY <1>1, FS_EmptySet
<1>4. Cardinality(Holders(m)') = Cardinality(Holders(m)) - 1
  BY <1>1, FS_RemoveElement
<1> QED BY <1>2, <1>3, <1>4

\* Nothing is open at the start.
LEMMA LoadInitInv == Init => LoadInv
<1> SUFFICES ASSUME Init PROVE LoadInv
  OBVIOUS
<1>1. ThreadInv
  BY DEF Init, ThreadInv, Loading
<1>2. ModuleInv
  BY DEF Init, ModuleInv, States
<1>3. ASSUME NEW m \in Modules
      PROVE  refs[m] = (IF state[m] = "loaded" THEN 1 ELSE 0) + Cardinality(Holders(m))
  <2>1. Holders(m) = {}
    BY DEF Init, Holders
  <2>2. Cardinality(Holders(m)) = 0
    BY <2>1, FS_EmptySet
  <2> QED BY <2>2 DEF Init
<1> QED BY <1>1, <1>2, <1>3 DEF LoadInv, ReferencesBalance

\* A step that changes neither the holders of a library nor whether it is
\* loaded keeps the balance.
LEMMA Undisturbed ==
    ASSUME ReferencesBalance, refs' = refs,
           \A m \in Modules : Holders(m)' = Holders(m),
           \A m \in Modules : (state[m] = "loaded") <=> (state'[m] = "loaded")
    PROVE  ReferencesBalance'
BY DEF ReferencesBalance

\* A holder that gives its reference back keeps the balance.
LEMMA Leaving ==
    ASSUME LoadInv, NEW t \in Threads, NEW n \in Modules, n = module[t],
           pc[t] = "close", pc' = [pc EXCEPT ![t] = "idle"],
           module' = module, state' = state,
           refs' = [refs EXCEPT ![module[t]] = @ - 1]
    PROVE  ReferencesBalance' /\ refs'[n] \in Nat
<1>1. t \in Holders(n) /\ Holders(n)' = Holders(n) \ {t}
  BY DEF Holders, LoadInv, ThreadInv
<1>2. /\ Cardinality(Holders(n)) \in Nat \ {0}
      /\ Cardinality(Holders(n)') = Cardinality(Holders(n)) - 1
  BY <1>1, HolderLeaves
<1>3. ASSUME NEW m \in Modules, m # n
      PROVE  Holders(m)' = Holders(m) /\ refs'[m] = refs[m]
  BY <1>3 DEF Holders, LoadInv, ThreadInv, ModuleInv
<1>4. refs'[n] = refs[n] - 1
  BY DEF LoadInv, ModuleInv
<1>5. refs[n] = (IF state[n] = "loaded" THEN 1 ELSE 0) + Cardinality(Holders(n))
  BY DEF LoadInv, ReferencesBalance
<1>6. ReferencesBalance'
  BY <1>2, <1>3, <1>4, <1>5 DEF LoadInv, ReferencesBalance
<1>7. refs'[n] \in Nat
  BY <1>2, <1>4, <1>5
<1> QED BY <1>6, <1>7

\* Every step keeps the invariant, whichever thread takes it.
LEMMA BalanceKept == LoadInv /\ [Next]_vars => LoadInv'
<1> SUFFICES ASSUME LoadInv, [Next]_vars PROVE LoadInv'
  OBVIOUS
<1> USE DEF LoadInv
<1>1. CASE UNCHANGED vars
  <2>1. pc' = pc /\ module' = module /\ state' = state /\ refs' = refs /\ functions' = functions
        /\ list_lock' = list_lock
    BY <1>1 DEF vars, threadVars, nssVars
  <2>2. ThreadInv' /\ ModuleInv'
    BY <2>1 DEF ThreadInv, ModuleInv
  <2>3. \A m \in Modules : Holders(m)' = Holders(m)
    BY <2>1 DEF Holders
  <2> QED BY <2>1, <2>2, <2>3, Undisturbed
<1>2. CASE Startup
  <2>1. pc' = pc /\ module' = module /\ state' = state /\ refs' = refs /\ functions' = functions
        /\ list_lock' = list_lock
    BY <1>2 DEF Startup, threadVars, nssVars
  <2>2. ThreadInv' /\ ModuleInv'
    BY <2>1 DEF ThreadInv, ModuleInv
  <2>3. \A m \in Modules : Holders(m)' = Holders(m)
    BY <2>1 DEF Holders
  <2> QED BY <2>1, <2>2, <2>3, Undisturbed
<1>3. ASSUME NEW t \in Threads, (\E x \in Names : Dlsym(t, x)) \/ DlsymReturn(t) PROVE LoadInv'
  <2>1. /\ pc[t] \in {"idle", "dlsym"}
        /\ pc' = [pc EXCEPT ![t] = "dlsym"] \/ pc' = [pc EXCEPT ![t] = "idle"]
        /\ module' = module /\ state' = state /\ refs' = refs /\ functions' = functions
        /\ list_lock' = list_lock
    BY <1>3 DEF Dlsym, DlsymReturn, nssVars
  <2>2. ThreadInv' /\ ModuleInv'
    BY <2>1 DEF ThreadInv, ModuleInv, Loading
  <2>3. \A m \in Modules : Holders(m)' = Holders(m)
    BY <2>1 DEF Holders, ThreadInv
  <2> QED BY <2>1, <2>2, <2>3, Undisturbed
<1>4. ASSUME NEW t \in Threads, NEW n \in Modules, NssLoad(t, n) PROVE LoadInv'
  <2>1. /\ pc[t] = "idle" /\ pc' \in {pc, [pc EXCEPT ![t] = "open"]}
        /\ module' = [module EXCEPT ![t] = n]
        /\ state' = state /\ refs' = refs /\ functions' = functions
        /\ list_lock' = list_lock
    BY <1>4 DEF NssLoad, nssVars
  <2>2. ThreadInv' /\ ModuleInv'
    BY <2>1 DEF ThreadInv, ModuleInv, Loading
  <2>3. \A m \in Modules : Holders(m)' = Holders(m)
    BY <2>1 DEF Holders, ThreadInv
  <2> QED BY <2>1, <2>2, <2>3, Undisturbed
<1>5. ASSUME NEW t \in Threads, OpenFails(t) \/ MarkFailed(t) PROVE LoadInv'
  <2>1. /\ pc[t] \in {"open", "failed"}
        /\ \E s \in {"failed", "idle"} : pc' = [pc EXCEPT ![t] = s]
        /\ module' = module /\ refs' = refs /\ functions' = functions
        /\ list_lock' = list_lock
        /\ \/ state' = state
           \/ state' = [state EXCEPT ![module[t]] = IF @ = "uninitialized" THEN "failed" ELSE @]
    BY <1>5 DEF OpenFails, MarkFailed, nssVars
  <2>2. module[t] \in Modules
    BY <2>1 DEF ThreadInv, Loading
  <2>3. ThreadInv' /\ ModuleInv'
    BY <2>1, <2>2 DEF ThreadInv, ModuleInv, States, Loading
  <2>4. \A m \in Modules : Holders(m)' = Holders(m)
    BY <2>1 DEF Holders, ThreadInv
  <2>5. \A m \in Modules : (state[m] = "loaded") <=> (state'[m] = "loaded")
    BY <2>1, <2>2 DEF ModuleInv
  <2> QED BY <2>1, <2>3, <2>4, <2>5, Undisturbed
<1>6. ASSUME NEW t \in Threads, Open(t) PROVE LoadInv'
  <2>1. /\ pc[t] = "open" /\ pc' = [pc EXCEPT ![t] = "look"]
        /\ module' = module /\ state' = state /\ functions' = functions
        /\ refs' = [refs EXCEPT ![module[t]] = @ + 1] /\ list_lock' = list_lock
    BY <1>6 DEF Open
  <2>2. PICK n \in Modules : n = module[t]
    BY <2>1 DEF ThreadInv, Loading
  <2>3. ThreadInv' /\ ModuleInv'
    BY <2>1, <2>2 DEF ThreadInv, ModuleInv, Loading
  <2>4. ASSUME NEW m \in Modules, m # n
        PROVE  Holders(m)' = Holders(m) /\ refs'[m] = refs[m]
    BY <2>1, <2>2, <2>4 DEF Holders, ThreadInv, ModuleInv
  <2>5. t \notin Holders(n) /\ Holders(n)' = Holders(n) \cup {t}
    BY <2>1, <2>2 DEF Holders, ThreadInv
  <2>6. /\ Cardinality(Holders(n)) \in Nat
        /\ Cardinality(Holders(n)') = Cardinality(Holders(n)) + 1
    BY <2>5, HolderJoins
  <2>7. refs'[n] = refs[n] + 1
    BY <2>1, <2>2 DEF ModuleInv
  <2>8. ReferencesBalance'
    BY <2>1, <2>4, <2>6, <2>7 DEF ReferencesBalance
  <2> QED BY <2>3, <2>8
<1>7. ASSUME NEW t \in Threads, Close(t) PROVE LoadInv'
  <2>1. /\ pc[t] = "close" /\ pc' = [pc EXCEPT ![t] = "idle"]
        /\ module' = module /\ state' = state /\ functions' = functions
        /\ refs' = [refs EXCEPT ![module[t]] = @ - 1]
        /\ list_lock' \in {list_lock, NoThread}
    BY <1>7 DEF Close
  <2>2. PICK n \in Modules : n = module[t]
    BY <2>1 DEF ThreadInv, Loading
  <2>3. ReferencesBalance' /\ refs'[n] \in Nat
    BY <2>1, <2>2, Leaving
  <2>4. ThreadInv' /\ ModuleInv'
    BY <2>1, <2>2, <2>3 DEF ThreadInv, ModuleInv, Loading
  <2> QED BY <2>3, <2>4
<1>8. ASSUME NEW t \in Threads,
             Look(t) \/ Read(t) \/ LookFails(t) \/ (Install(t) /\ state[module[t]] = "loaded")
      PROVE  LoadInv'
  <2>1. /\ pc[t] \in {"look", "read", "install"}
        /\ \E s \in {"look", "read", "install", "close"} : pc' = [pc EXCEPT ![t] = s]
        /\ module' = module /\ state' = state /\ refs' = refs /\ functions' = functions
        /\ list_lock' \in {list_lock, t}
    BY <1>8 DEF Look, Read, LookFails, Install, nssVars
  <2>2. ThreadInv' /\ ModuleInv'
    BY <2>1 DEF ThreadInv, ModuleInv, Loading
  <2>3. \A m \in Modules : Holders(m)' = Holders(m)
    BY <2>1 DEF Holders, ThreadInv
  <2> QED BY <2>1, <2>2, <2>3, Undisturbed
<1>9. ASSUME NEW t \in Threads, Install(t), state[module[t]] # "loaded" PROVE LoadInv'
  <2>1. /\ pc[t] = "install" /\ pc' = [pc EXCEPT ![t] = "idle"]
        /\ module' = module /\ list_lock' = list_lock /\ refs' = refs
        /\ functions' = [functions EXCEPT ![module[t]] = pointers[t]]
        /\ state' = [state EXCEPT ![module[t]] = "loaded"]
    BY <1>9 DEF Install
  <2>2. PICK n \in Modules : n = module[t]
    BY <2>1 DEF ThreadInv, Loading
  <2>3. ThreadInv'
    BY <2>1 DEF ThreadInv, Loading
  <2>4. ModuleInv'
    BY <2>1, <2>2 DEF ModuleInv, States
  <2>5. t \in Holders(n) /\ Holders(n)' = Holders(n) \ {t}
    BY <2>1, <2>2 DEF Holders, ThreadInv
  <2>6. /\ Cardinality(Holders(n)) \in Nat \ {0}
        /\ Cardinality(Holders(n)') = Cardinality(Holders(n)) - 1
    BY <2>5, HolderLeaves
  <2>7. ASSUME NEW m \in Modules, m # n
        PROVE  Holders(m)' = Holders(m) /\ state'[m] = state[m]
    BY <2>1, <2>2, <2>7 DEF Holders, ThreadInv, ModuleInv
  <2>8. state'[n] = "loaded" /\ state[n] # "loaded"
    BY <1>9, <2>1, <2>2 DEF ModuleInv
  <2>9. ReferencesBalance'
    BY <2>1, <2>6, <2>7, <2>8 DEF ReferencesBalance
  <2> QED BY <2>3, <2>4, <2>9
<1> QED
  BY <1>1, <1>2, <1>3, <1>4, <1>5, <1>6, <1>7, <1>8, <1>9 DEF Next, Continue

\* The balance holds in every state of every behaviour.
THEOREM LoadInvariant == Spec => []LoadInv
<1> QED BY LoadInitInv, BalanceKept, PTL DEF Spec

\* For any number of threads and modules, module_load closes its handle on
\* every path but the one that installs the pointers: the library of a module
\* is open once for these and once for each thread that is loading it.
THEOREM ReferencesAreBalanced == Spec => []ReferencesBalance
<1>1. LoadInv => ReferencesBalance
  BY DEF LoadInv
<1> QED BY <1>1, LoadInvariant, PTL

\* What LoadedIsFinal says of one step.
KeepsLoaded ==
    \A m \in Modules : state[m] = "loaded" =>
        state'[m] = "loaded" /\ functions'[m] = functions[m]

\* Only MarkFailed and Install write a module's state, and both look at it.
LEMMA StepKeepsLoaded == LoadInv /\ [Next]_vars => KeepsLoaded
<1> SUFFICES ASSUME LoadInv, [Next]_vars PROVE KeepsLoaded
  OBVIOUS
<1>1. CASE state' = state /\ functions' = functions
  BY <1>1 DEF KeepsLoaded
<1>2. ASSUME NEW t \in Threads, MarkFailed(t) PROVE KeepsLoaded
  <2>1. /\ functions' = functions
        /\ state' = [state EXCEPT ![module[t]] = IF @ = "uninitialized" THEN "failed" ELSE @]
    BY <1>2 DEF MarkFailed
  <2> QED BY <2>1 DEF KeepsLoaded, LoadInv, ModuleInv
<1>3. ASSUME NEW t \in Threads, Install(t) PROVE KeepsLoaded
  <2>1. \/ state' = state /\ functions' = functions
        \/ /\ state[module[t]] # "loaded"
           /\ functions' = [functions EXCEPT ![module[t]] = pointers[t]]
           /\ state' = [state EXCEPT ![module[t]] = "loaded"]
    BY <1>3 DEF Install
  <2> QED BY <2>1 DEF KeepsLoaded, LoadInv, ModuleInv
<1>4. CASE UNCHANGED vars
  BY <1>1, <1>4 DEF vars, nssVars
<1>5. CASE Startup
  BY <1>1, <1>5 DEF Startup, nssVars
<1>6. ASSUME NEW t \in Threads,
             \/ \E x \in Names : Dlsym(t, x)
             \/ \E m \in Modules : NssLoad(t, m)
             \/ DlsymReturn(t) \/ OpenFails(t) \/ Open(t) \/ LookFails(t) \/ Look(t)
             \/ Read(t) \/ Close(t)
      PROVE  KeepsLoaded
  <2>1. state' = state /\ functions' = functions
    BY <1>6 DEF Dlsym, NssLoad, DlsymReturn, OpenFails, Open, LookFails, Look, Read, Close, nssVars
  <2> QED BY <1>1, <2>1
<1> QED BY <1>2, <1>3, <1>4, <1>5, <1>6 DEF Next, Continue

\* For any number of threads that load, fail or come late, pointers that other
\* threads may already use are not written again: module_load's double-checked
\* locking is right without a lock around the whole.
THEOREM LoadedStaysFinal == Spec => LoadedIsFinal
<1>1. LoadInv /\ [Next]_vars => [KeepsLoaded]_vars
  BY StepKeepsLoaded
<1>2. Spec => [][KeepsLoaded]_vars
  BY <1>1, LoadInvariant, PTL DEF Spec
<1> QED BY <1>2 DEF KeepsLoaded, LoadedIsFinal

-----------------------------------------------------------------------------
(* The placeholder arrays.                                                 *)

Entries == [num : 1 .. Slots, name : Names]

RelocTypes ==
    /\ order \in [1 .. Slots -> 1 .. Slots]
    /\ mainSyms \in Seq(Entries)
    /\ pos \in 0 .. Slots /\ search \in 0 .. Slots /\ placeholded \in 0 .. pos
    /\ symbols \in [1 .. Slots -> Names \cup {NoName}]
    /\ plts \in Seq(Address) /\ Len(plts) = pos
    /\ slot \in [1 .. Slots -> Address]

\* Main names a function for placeholder n.
Defined(n) == \E k \in 1 .. Len(mainSyms) : mainSyms[k].num = n

\* Slot i leads to x, at once or through the stub that x got first.
Settles(i, x) == slot[i] = Fn(x) \/ \E j \in 1 .. i - 1 : slot[i] = Stub(j) /\ slot[j] = Fn(x)

\* Entry i is the name main gives to placeholder i, its slot leads there, and
\* at once if the name comes for the first time.
EntryRight(i) ==
    /\ \E k \in 1 .. Len(mainSyms) :
          /\ mainSyms[k].num = i
          /\ symbols[i] = Stored(mainSyms[k].name)
          /\ Settles(i, mainSyms[k].name)
    /\ symbols[i] # NoName /\ (\A j \in 1 .. i - 1 : symbols[j] # symbols[i]) =>
          slot[i] = Fn(symbols[i])

\* With the relocations in order: the loader counts on while main has names,
\* gives up at the first gap, or has used the nine names it can spell; so the
\* two arrays have the same index, and a name's first slot holds the function.
ArrayInv ==
    InOrder =>
        /\ \A i \in 1 .. pos : plts[i] = Stub(i)
        /\ \A i \in pos + 1 .. Slots : slot[i] = Stub(i)
        /\ \/ search = pos + 1 /\ placeholded = pos /\ pos <= Nameable
           \/ /\ search = 0 /\ placeholded < pos /\ placeholded < Nameable
              /\ ~Defined(placeholded + 1)
           \/ search = Slots /\ pos = Slots /\ placeholded = Nameable
        /\ \A i \in 1 .. placeholded : EntryRight(i)

RelocInv == RelocTypes /\ ArrayInv

-----------------------------------------------------------------------------
(* The lookups.                                                            *)

Values == Address \cup {Alias(x) : x \in Names}

LookTypes ==
    /\ program \in [Threads -> {"dlsym", "nss", "none"}]
    /\ name \in [Threads -> Names \cup {NoName}]
    /\ base \in [Threads -> Values \cup {FakeMap}]
    /\ pointers \in [Threads -> Seq(Values)]
    /\ functions \in [Modules -> Seq(Values)]
    /\ answer \in [Threads -> [name : Names \cup {NoName}, value : Values]]
    /\ fake_map \in Address
    /\ load_lock \in Threads \cup {NoThread}

\* A dlsym has the lock; lookups begin when the relocations are done; a thread
\* that loads a module has the next name of its list.
ThreadLook(t) ==
    /\ pc[t] = "dlsym" => program[t] = "dlsym" /\ load_lock = t /\ name[t] \in Names
    /\ pc[t] \in Loading => program[t] = "nss"
    /\ pc[t] \in {"look", "read"} => Len(pointers[t]) < Len(FunctionsOf[module[t]])
    /\ pc[t] = "read" => name[t] = FunctionsOf[module[t]][Len(pointers[t]) + 1]
    /\ ~Running => pc[t] = "idle" /\ answer[t] = NoCall

LookInv ==
    /\ LookTypes
    /\ \A t \in Threads : ThreadLook(t)
    /\ ~Running => \A m \in Modules : functions[m] = <<>>

\* What a thread is about to read, and what it has read.
ThreadRight(t) ==
    /\ pc[t] = "dlsym" => Right(name[t], Value(t)) \/ Clashes(name[t])
    /\ pc[t] = "read" => Right(name[t], Value(t))
    /\ pc[t] \in {"look", "read", "install"} =>
          \A i \in 1 .. Len(pointers[t]) : Right(FunctionsOf[module[t]][i], pointers[t][i])

AnswerRight(t) ==
    \/ answer[t] # NoCall /\ Clashes(answer[t].name)
    \/ Right(answer[t].name, answer[t].value)

RightInv ==
    InOrder /\ ~Racing =>
        /\ \A t \in Threads : ThreadRight(t) /\ AnswerRight(t)
        /\ \A m \in Modules : PointersRight(m)

\* The thread that installed a module does not load it again.
LoaderGone ==
    \A m \in Modules : state[m] = "loaded" =>
        \E t \in Threads : ~(module[t] = m /\ pc[t] \in Loading)

SInv == LoadInv /\ RelocInv /\ LookInv /\ RightInv /\ LoaderGone

-----------------------------------------------------------------------------

\* Min of a set of numbers is its least element.
LEMMA MinIsLeast ==
    ASSUME NEW S \in SUBSET Nat, S # {}
    PROVE  Min(S) \in S /\ \A m \in S : Min(S) <= m
<1>1. IsWellFoundedOn(OpToRel(<, Nat), Nat)
  BY NatLessThanWellFounded
<1>2. PICK n \in S : \A m \in S : ~(<<m, n>> \in OpToRel(<, Nat))
  BY <1>1, WFMin
<1>3. ASSUME NEW m \in S PROVE n <= m
  <2>1. <<m, n>> \in Nat \X Nat
    OBVIOUS
  <2>2. ~(m < n)
    BY <1>2, <2>1 DEF OpToRel
  <2> QED BY <2>2
<1>4. \E k \in S : \A m \in S : k <= m
  BY <1>3
<1> QED BY <1>4 DEF Min

\* A registered name is found at its first index.
LEMMA FirstRegistered ==
    ASSUME RelocTypes, NEW x, Registered(x) # {}
    PROVE  /\ Min(Registered(x)) \in 1 .. placeholded
           /\ symbols[Min(Registered(x))] = x
           /\ \A j \in 1 .. Min(Registered(x)) - 1 : symbols[j] # x
<1>1. Registered(x) \in SUBSET Nat /\ placeholded \in Nat
  BY DEF Registered, RelocTypes
<1> DEFINE n == Min(Registered(x))
<1>2. n \in Registered(x) /\ \A m \in Registered(x) : n <= m
  BY <1>1, MinIsLeast
<1> HIDE DEF n
<1>3. n \in 1 .. placeholded /\ symbols[n] = x
  BY <1>2 DEF Registered
<1>4. ASSUME NEW j \in 1 .. n - 1 PROVE symbols[j] # x
  <2>1. j \in 1 .. placeholded /\ ~(n <= j)
    BY <1>1, <1>3
  <2> QED BY <1>2, <2>1 DEF Registered
<1> QED BY <1>3, <1>4 DEF n

\* What a relocation writes is an address.
LEMMA ResolvedTyped ==
    ASSUME RelocTypes, NEW x \in Names
    PROVE  /\ Resolved(x) \in Address
           /\ Registered(x) # {} => RegisteredStub(x) \in Address
<1>1. Fn(x) \in Address /\ Null \in Address
  BY DEF Address
<1>2. ASSUME Registered(x) # {} PROVE RegisteredStub(x) \in Address
  <2>1. Min(Registered(x)) \in 1 .. Len(plts)
    BY <1>2, FirstRegistered DEF RelocTypes
  <2> QED BY <2>1 DEF RegisteredStub, RelocTypes
<1> QED BY <1>1, <1>2 DEF Resolved

\* The name main gives to the placeholder that is looked for.
LEMMA WantedName ==
    ASSUME RelocTypes, Wanted # {}
    PROVE  /\ Min(Wanted) \in 1 .. Len(mainSyms)
           /\ mainSyms[Min(Wanted)].num = search
           /\ mainSyms[Min(Wanted)].name \in Names
<1>1. Wanted \in SUBSET Nat
  BY DEF Wanted
<1>2. Min(Wanted) \in Wanted
  BY <1>1, MinIsLeast
<1>3. Min(Wanted) \in 1 .. Len(mainSyms) /\ mainSyms[Min(Wanted)].num = search
  BY <1>2 DEF Wanted
<1>4. mainSyms[Min(Wanted)] \in Entries
  BY <1>3 DEF RelocTypes
<1>5. mainSyms[Min(Wanted)].name \in Names
  BY <1>4 DEF Entries
<1> QED BY <1>3, <1>5

\* With the arrays in agreement a registered name's stub leads to it.
LEMMA StubLeads ==
    ASSUME RelocInv, InOrder, NEW x \in Names, Registered(x) # {}
    PROVE  LeadsTo(RegisteredStub(x)) = Fn(x)
<1> DEFINE n == Min(Registered(x))
<1>1. /\ n \in 1 .. placeholded /\ symbols[n] = x
      /\ \A j \in 1 .. n - 1 : symbols[j] # x
  BY FirstRegistered DEF RelocInv
<1> HIDE DEF n
<1>2. x # NoName
  BY PlaceholderAssumption
<1>3. slot[n] = Fn(x) /\ plts[n] = Stub(n)
  <2>1. n \in 1 .. pos
    BY <1>1 DEF RelocInv, RelocTypes
  <2> QED BY <1>1, <1>2, <2>1 DEF RelocInv, ArrayInv, EntryRight
<1>4. LeadsTo(Stub(n)) = Fn(x)
  BY <1>3 DEF LeadsTo, Through, Stub, Fn
<1> QED BY <1>3, <1>4 DEF RegisteredStub, n

\* Only what the arrays are made of matters to their invariant.
LEMMA ArraysKept ==
    ASSUME ArrayInv, UNCHANGED <<order, mainSyms, pos, search, symbols, placeholded, plts, slot>>
    PROVE  ArrayInv'
<1>1. /\ InOrder' <=> InOrder
      /\ \A i : Defined(i)' <=> Defined(i)
      /\ \A i, x : Settles(i, x)' <=> Settles(i, x)
  BY DEF InOrder, Defined, Settles
<1>2. \A i : EntryRight(i)' <=> EntryRight(i)
  BY <1>1 DEF EntryRight
<1> QED BY <1>1, <1>2 DEF ArrayInv

\* Functions, aliases and null are where they lead, and none of them is fake_map.
LEMMA Ends ==
    ASSUME NEW x
    PROVE  /\ Through(Fn(x)) = Fn(x) /\ Through(Alias(x)) = Alias(x) /\ Through(Null) = Null
           /\ Fn(x) # FakeMap /\ Alias(x) # FakeMap /\ Null # FakeMap
<1>1. Fn(x)[1] = "function" /\ Alias(x)[1] = "dsym" /\ Null[1] = "null" /\ FakeMap[1] = "fake_map"
  BY DEF Fn, Alias, Null, FakeMap
<1>2. "function" # "stub" /\ "dsym" # "stub" /\ "null" # "stub"
  OBVIOUS
<1>3. Through(Fn(x)) = Fn(x) /\ Through(Alias(x)) = Alias(x) /\ Through(Null) = Null
  BY <1>1, <1>2 DEF Through
<1>4. Fn(x) # FakeMap /\ Alias(x) # FakeMap /\ Null # FakeMap
  BY <1>1
<1> QED BY <1>3, <1>4

\* An empty list has nothing to be right about.
LEMMA NoPlaces == Len(<<>>) = 0 /\ 1 .. Len(<<>>) = {}
<1>1. Len(<<>>) = 0
  OBVIOUS
<1> QED BY <1>1

\* libc has one relocation for each placeholder.
LEMMA AllSlots == ASSUME RelocTypes PROVE Len(order) = Slots
BY DEF RelocTypes, Slots

-----------------------------------------------------------------------------

\* Nothing is relocated at first.
LEMMA RelocInitInv == Init => RelocInv
<1> SUFFICES ASSUME Init PROVE RelocInv
  OBVIOUS
<1>1. RelocTypes
  <2>1. order \in [1 .. Slots -> 1 .. Slots]
    BY PlaceholderAssumption DEF Init, RelocInit
  <2>2. mainSyms \in Seq(Entries)
    BY PlaceholderAssumption DEF Init, RelocInit, Entries
  <2>3. pos \in 0 .. Slots /\ search \in 0 .. Slots /\ placeholded \in 0 .. pos
    BY DEF Init, RelocInit, Slots
  <2>4. symbols \in [1 .. Slots -> Names \cup {NoName}]
    BY DEF Init, RelocInit
  <2>5. plts \in Seq(Address) /\ Len(plts) = pos
    BY DEF Init, RelocInit
  <2>6. slot \in [1 .. Slots -> Address]
    BY DEF Init, RelocInit, Address
  <2> QED BY <2>1, <2>2, <2>3, <2>4, <2>5, <2>6 DEF RelocTypes
<1>2. ArrayInv
  <2>1. pos = 0 /\ placeholded = 0 /\ search = 1 /\ slot = [n \in 1 .. Slots |-> Stub(n)]
    BY DEF Init, RelocInit
  <2> QED BY <2>1 DEF ArrayInv, Nameable
<1> QED BY <1>1, <1>2 DEF RelocInv

\* What elf_machine_rela does to the arrays.
LEMMA WriteStep ==
    ASSUME RelocTypes, NEW n \in 1 .. Slots, NEW value \in Address, pos < Slots,
           Write(n, value)
    PROVE  /\ pos' = pos + 1 /\ pos' \in 0 .. Slots
           /\ plts' \in Seq(Address) /\ Len(plts') = pos'
           /\ \A i \in 1 .. pos : plts'[i] = plts[i]
           /\ plts'[pos'] = slot[n]
           /\ slot' = [slot EXCEPT ![n] = value]
           /\ slot' \in [1 .. Slots -> Address]
<1>1. pos' = pos + 1 /\ slot' = [slot EXCEPT ![n] = value]
  BY DEF Write
<1>2. plts' = Append(plts, slot[n]) /\ slot[n] \in Address
  BY DEF Write, RelocTypes, Slots
<1>3. pos' \in 0 .. Slots /\ slot' \in [1 .. Slots -> Address]
  BY <1>1 DEF RelocTypes, Slots
<1>4. /\ plts' \in Seq(Address) /\ Len(plts') = pos'
      /\ \A i \in 1 .. pos : plts'[i] = plts[i]
      /\ plts'[pos'] = slot[n]
  BY <1>1, <1>2 DEF RelocTypes
<1> QED BY <1>1, <1>2, <1>3, <1>4

\* A relocation against placeholder n registers the name that main's k-th
\* symbol gives it, finds that the name is defined nowhere, or has no name.
Registers(n, k) ==
    /\ FirstDigit(n) = search /\ search \in 1 .. Nameable
    /\ mainSyms[k].num = search /\ mainSyms[k].name \in Names
    /\ Resolved(mainSyms[k].name) # Null
    /\ Register(n, mainSyms[k].name)

GivesUp ==
    failed' /\ UNCHANGED <<pos, search, symbols, placeholded, plts, slot>>

WritesBase(n) ==
    /\ FirstDigit(n) # search \/ Wanted = {}
    /\ search' = IF FirstDigit(n) = search THEN 0 ELSE search
    /\ Write(n, Base)
    /\ UNCHANGED <<failed, symbols, placeholded>>

Relocates(n) ==
    /\ n = order[pos + 1] /\ pos < Slots /\ ~failed
    /\ order' = order /\ mainSyms' = mainSyms
    /\ (\E k \in 1 .. Len(mainSyms) : Registers(n, k)) \/ GivesUp \/ WritesBase(n)

\* These are the cases of a relocation.
LEMMA RelocateCases ==
    ASSUME RelocTypes, Relocate
    PROVE  \E n \in 1 .. Slots : Relocates(n)
<1>1. pos < Slots /\ ~failed /\ order' = order /\ mainSyms' = mainSyms
  BY AllSlots DEF Relocate
<1>2. PICK n \in 1 .. Slots : n = order[pos + 1]
  BY <1>1 DEF RelocTypes, Slots
<1>3. CASE FirstDigit(n) = search /\ Wanted # {}
  <2>1. search \in 1 .. Nameable
    BY <1>2, <1>3 DEF FirstDigit, Nameable, Slots
  <2>2. PICK k \in 1 .. Len(mainSyms) :
             k = Min(Wanted) /\ mainSyms[k].num = search /\ mainSyms[k].name \in Names
    BY <1>3, WantedName
  <2>3. \/ Resolved(mainSyms[k].name) # Null /\ Register(n, mainSyms[k].name)
        \/ GivesUp
    BY <1>2, <1>3, <2>2 DEF Relocate, GivesUp
  <2> QED BY <1>1, <1>2, <1>3, <2>1, <2>2, <2>3 DEF Relocates, Registers
<1>4. CASE FirstDigit(n) # search \/ Wanted = {}
  <2>1. WritesBase(n)
    BY <1>2, <1>4 DEF Relocate, WritesBase
  <2> QED BY <1>1, <1>2, <2>1 DEF Relocates
<1> QED BY <1>3, <1>4

\* No relocation leaves the arrays' bounds.
LEMMA RelocateTypes ==
    ASSUME RelocTypes, Relocate
    PROVE  RelocTypes'
<1>1. PICK n \in 1 .. Slots : Relocates(n)
  BY RelocateCases
<1>0. pos < Slots /\ order' = order /\ mainSyms' = mainSyms
  BY <1>1 DEF Relocates
<1>2. ASSUME NEW k \in 1 .. Len(mainSyms), Registers(n, k)
      PROVE  RelocTypes'
  <2>0. mainSyms[k].name \in Names /\ search \in 1 .. Nameable
    BY <1>2 DEF Registers
  <2>1. Resolved(mainSyms[k].name) \in Address
    BY <2>0, ResolvedTyped
  <2>2. /\ pos' = pos + 1 /\ pos' \in 0 .. Slots
        /\ plts' \in Seq(Address) /\ Len(plts') = pos'
        /\ slot' \in [1 .. Slots -> Address]
    BY <1>0, <1>2, <2>1, WriteStep DEF Register, Registers
  <2>3. /\ search' = search + 1 /\ placeholded' = placeholded + 1
        /\ symbols' = [symbols EXCEPT ![search] = Stored(mainSyms[k].name)]
    BY <1>2 DEF Register, Registers
  <2>4. Stored(mainSyms[k].name) \in Names \cup {NoName}
    BY <2>0 DEF Stored
  <2>5. symbols' \in [1 .. Slots -> Names \cup {NoName}]
    BY <2>0, <2>3, <2>4 DEF RelocTypes, Nameable, Slots
  <2>6. search' \in 0 .. Slots /\ placeholded' \in 0 .. pos'
    BY <2>0, <2>2, <2>3 DEF RelocTypes, Nameable, Slots
  <2> QED BY <1>0, <2>2, <2>5, <2>6 DEF RelocTypes
<1>3. CASE GivesUp
  BY <1>0, <1>3 DEF RelocTypes, GivesUp
<1>4. CASE WritesBase(n)
  <2>1. Base \in Address
    BY DEF Address
  <2>2. /\ pos' = pos + 1 /\ pos' \in 0 .. Slots
        /\ plts' \in Seq(Address) /\ Len(plts') = pos'
        /\ slot' \in [1 .. Slots -> Address]
    BY <1>0, <1>4, <2>1, WriteStep DEF WritesBase
  <2>3. search' \in 0 .. Slots /\ placeholded' \in 0 .. pos' /\ symbols' = symbols
    BY <1>4, <2>2 DEF RelocTypes, Slots, WritesBase
  <2> QED BY <1>0, <2>2, <2>3 DEF RelocTypes
<1> QED BY <1>1, <1>2, <1>3, <1>4 DEF Relocates

\* What is registered already is not touched by the relocation of a later
\* placeholder.
LEMMA EntriesStay ==
    ASSUME RelocInv, InOrder, NEW value, mainSyms' = mainSyms,
           slot' = [slot EXCEPT ![pos + 1] = value],
           \A i \in 1 .. placeholded : symbols'[i] = symbols[i],
           NEW i \in 1 .. placeholded
    PROVE  EntryRight(i)'
<1>1. pos \in 0 .. Slots /\ placeholded \in 0 .. pos /\ DOMAIN slot = 1 .. Slots
  BY DEF RelocInv, RelocTypes
<1>2. \A j \in 1 .. i : j \in 1 .. placeholded /\ slot'[j] = slot[j] /\ symbols'[j] = symbols[j]
  BY <1>1 DEF Slots
<1>3. i \in 1 .. i /\ \A j \in 1 .. i - 1 : j \in 1 .. i
  BY <1>1
<1>4. PICK k \in 1 .. Len(mainSyms) :
           /\ mainSyms[k].num = i
           /\ symbols[i] = Stored(mainSyms[k].name)
           /\ Settles(i, mainSyms[k].name)
  BY DEF RelocInv, ArrayInv, EntryRight
<1>5. symbols'[i] = Stored(mainSyms[k].name)
  BY <1>2, <1>3, <1>4
<1>6. Settles(i, mainSyms[k].name)'
  BY <1>2, <1>3, <1>4 DEF Settles
<1>7. symbols[i] # NoName /\ (\A j \in 1 .. i - 1 : symbols[j] # symbols[i]) =>
          slot[i] = Fn(symbols[i])
  BY DEF RelocInv, ArrayInv, EntryRight
<1>8. symbols'[i] # NoName /\ (\A j \in 1 .. i - 1 : symbols'[j] # symbols'[i]) =>
          slot'[i] = Fn(symbols'[i])
  BY <1>2, <1>3, <1>7
<1> QED BY <1>4, <1>5, <1>6, <1>8 DEF EntryRight

\* The name that is registered gets the function, or the stub that leads to it.
LEMMA EntryAdded ==
    ASSUME RelocInv, InOrder, pos < Slots, mainSyms' = mainSyms,
           NEW n \in 1 .. Slots, n = pos + 1, search = n, placeholded = pos,
           NEW k \in 1 .. Len(mainSyms), Registers(n, k)
    PROVE  EntryRight(n)'
<1>0. RelocTypes /\ n - 1 = pos
  BY DEF RelocInv, RelocTypes, Slots
<1>1. PICK x \in Names : /\ x = mainSyms[k].name /\ x # NoName
                        /\ mainSyms[k].num = n /\ Resolved(x) # Null
  BY PlaceholderAssumption DEF Registers
<1>2. /\ slot' = [slot EXCEPT ![n] = Resolved(x)]
      /\ symbols' = [symbols EXCEPT ![n] = Stored(x)]
  BY <1>1 DEF Registers, Register, Write
<1>3. slot'[n] = Resolved(x) /\ symbols'[n] = Stored(x)
  BY <1>0, <1>2 DEF RelocTypes
<1>4. \A j \in 1 .. pos : slot'[j] = slot[j] /\ symbols'[j] = symbols[j]
  BY <1>0, <1>2 DEF RelocTypes, Slots
<1>5. Registered(x) = {} => Resolved(x) = Fn(x)
  BY <1>1 DEF Resolved
<1>6. Registered(x) # {} =>
        \E j \in 1 .. pos : Resolved(x) = Stub(j) /\ slot[j] = Fn(x) /\ symbols[j] = x
  <2> SUFFICES ASSUME Registered(x) # {}
               PROVE  \E j \in 1 .. pos :
                         Resolved(x) = Stub(j) /\ slot[j] = Fn(x) /\ symbols[j] = x
    OBVIOUS
  <2>1. PICK j \in 1 .. pos : /\ j = Min(Registered(x)) /\ symbols[j] = x
                              /\ \A i \in 1 .. j - 1 : symbols[i] # x
    BY <1>0, FirstRegistered
  <2>2. plts[j] = Stub(j) /\ EntryRight(j)
    BY <2>1 DEF RelocInv, ArrayInv
  <2>3. slot[j] = Fn(x)
    BY <1>1, <2>1, <2>2 DEF EntryRight
  <2>4. Resolved(x) = Stub(j)
    BY <2>1, <2>2 DEF Resolved, RegisteredStub
  <2> QED BY <2>1, <2>3, <2>4
<1>7. Settles(n, x)'
  <2>1. CASE Registered(x) = {}
    BY <1>3, <1>5, <2>1 DEF Settles
  <2>2. CASE Registered(x) # {}
    <3>1. PICK j \in 1 .. pos : Resolved(x) = Stub(j) /\ slot[j] = Fn(x)
      BY <1>6, <2>2
    <3>2. j \in 1 .. n - 1 /\ slot'[j] = Fn(x)
      BY <1>0, <1>4, <3>1 DEF RelocTypes
    <3> QED BY <1>3, <3>1, <3>2 DEF Settles
  <2> QED BY <2>1, <2>2
<1>8. ASSUME symbols'[n] # NoName,
             \A j \in 1 .. pos : symbols'[j] # symbols'[n]
      PROVE  slot'[n] = Fn(symbols'[n])
  <2>1. symbols'[n] = x
    BY <1>3, <1>8 DEF Stored
  <2>2. Registered(x) = {}
    BY <1>4, <1>6, <1>8, <2>1
  <2> QED BY <1>3, <1>5, <2>1, <2>2
<1> QED BY <1>0, <1>1, <1>3, <1>7, <1>8 DEF EntryRight

\* Each relocation keeps the arrays in agreement.
LEMMA RelocateArrays ==
    ASSUME RelocInv, Relocate
    PROVE  ArrayInv'
<1>1. PICK n \in 1 .. Slots : Relocates(n)
  BY RelocateCases DEF RelocInv
<1>2. RelocTypes /\ pos < Slots /\ order' = order /\ mainSyms' = mainSyms
  BY <1>1 DEF Relocates, RelocInv
<1>3. InOrder' = InOrder
  BY <1>2 DEF InOrder
<1> SUFFICES ASSUME InOrder PROVE ArrayInv'
  BY <1>3 DEF ArrayInv
<1>4. n = pos + 1
  <2>1. Len(order) = Slots
    BY <1>2, AllSlots
  <2>2. pos + 1 \in 1 .. Slots
    BY <1>2 DEF RelocTypes, Slots
  <2>3. pos + 1 \in 1 .. Len(order)
    BY <2>1, <2>2
  <2>4. n = order[pos + 1]
    BY <1>1 DEF Relocates
  <2> QED BY <2>3, <2>4 DEF InOrder
<1>5. /\ \A i \in 1 .. pos : plts[i] = Stub(i)
      /\ \A i \in pos + 1 .. Slots : slot[i] = Stub(i)
      /\ \/ search = pos + 1 /\ placeholded = pos /\ pos <= Nameable
         \/ /\ search = 0 /\ placeholded < pos /\ placeholded < Nameable
            /\ ~Defined(placeholded + 1)
  <2>1. pos # Slots
    BY <1>2 DEF RelocTypes, Slots
  <2> QED BY <2>1 DEF RelocInv, ArrayInv
<1>6. ASSUME NEW value \in Address, Write(n, value)
      PROVE  /\ pos' = pos + 1 /\ slot' = [slot EXCEPT ![n] = value]
             /\ \A i \in 1 .. pos' : plts'[i] = Stub(i)
             /\ \A i \in pos' + 1 .. Slots : slot'[i] = Stub(i)
  <2>1. /\ pos' = pos + 1
        /\ \A i \in 1 .. pos : plts'[i] = plts[i]
        /\ plts'[pos'] = slot[n]
        /\ slot' = [slot EXCEPT ![n] = value]
    BY <1>2, <1>6, WriteStep
  <2>2. slot[n] = Stub(n)
    BY <1>4, <1>5
  <2>3. ASSUME NEW i \in 1 .. pos' PROVE plts'[i] = Stub(i)
    BY <1>2, <1>4, <1>5, <2>1, <2>2 DEF RelocTypes
  <2>4. ASSUME NEW i \in pos' + 1 .. Slots PROVE slot'[i] = Stub(i)
    BY <1>2, <1>4, <1>5, <2>1 DEF RelocTypes, Slots
  <2> QED BY <2>1, <2>3, <2>4
<1>7. ASSUME NEW k \in 1 .. Len(mainSyms), Registers(n, k)
      PROVE  ArrayInv'
  <2>1. search = pos + 1 /\ placeholded = pos /\ search \in 1 .. Nameable
    BY <1>5, <1>7 DEF Registers, Nameable
  <2>2. PICK value \in Address : Write(n, value)
    BY <1>2, <1>7, ResolvedTyped DEF Registers, Register
  <2>3. /\ search' = search + 1 /\ placeholded' = placeholded + 1
        /\ symbols' = [symbols EXCEPT ![search] = Stored(mainSyms[k].name)]
    BY <1>7 DEF Registers, Register
  <2>4. /\ pos' = pos + 1 /\ slot' = [slot EXCEPT ![pos + 1] = value]
        /\ \A i \in 1 .. pos' : plts'[i] = Stub(i)
        /\ \A i \in pos' + 1 .. Slots : slot'[i] = Stub(i)
    BY <1>4, <1>6, <2>2
  <2>5. \A i \in 1 .. placeholded : symbols'[i] = symbols[i]
    BY <1>2, <2>1, <2>3 DEF RelocTypes, Slots
  <2>6. \A i \in 1 .. placeholded : EntryRight(i)'
    BY <1>2, <2>4, <2>5, EntriesStay
  <2>7. EntryRight(n)'
    BY <1>2, <1>4, <1>7, <2>1, EntryAdded
  <2>8. \A i \in 1 .. placeholded' : EntryRight(i)'
    BY <1>2, <1>4, <2>1, <2>3, <2>6, <2>7 DEF RelocTypes
  <2>9. search' = pos' + 1 /\ placeholded' = pos' /\ pos' <= Nameable
    BY <1>2, <2>1, <2>3, <2>4 DEF RelocTypes
  <2> QED BY <2>4, <2>8, <2>9 DEF ArrayInv
<1>8. CASE GivesUp
  <2>1. UNCHANGED <<pos, search, symbols, placeholded, plts, slot, order, mainSyms>>
    BY <1>2, <1>8 DEF GivesUp
  <2> QED BY <2>1, ArraysKept DEF RelocInv
<1>9. CASE WritesBase(n)
  <2>1. /\ search' = IF FirstDigit(n) = search THEN 0 ELSE search
        /\ symbols' = symbols /\ placeholded' = placeholded
        /\ FirstDigit(n) # search \/ Wanted = {}
    BY <1>9 DEF WritesBase
  <2>2. /\ pos' = pos + 1 /\ slot' = [slot EXCEPT ![pos + 1] = Base]
        /\ \A i \in 1 .. pos' : plts'[i] = Stub(i)
        /\ \A i \in pos' + 1 .. Slots : slot'[i] = Stub(i)
    <3>1. Base \in Address
      BY DEF Address
    <3> QED BY <1>4, <1>6, <1>9, <3>1 DEF WritesBase
  <2>3. \A i \in 1 .. placeholded : EntryRight(i)'
    BY <1>2, <2>1, <2>2, EntriesStay
  <2>4. Defined(placeholded + 1)' = Defined(placeholded + 1)
    BY <1>2, <2>1 DEF Defined
  <2>5. CASE search = pos + 1 /\ placeholded = pos /\ pos <= Nameable
    <3>1. CASE pos = Nameable
      BY <1>4, <2>1, <2>2, <2>3, <2>5, <3>1 DEF ArrayInv, FirstDigit, Nameable, Slots
    <3>2. CASE pos # Nameable
      <4>1. FirstDigit(n) = search
        BY <1>2, <1>4, <2>5, <3>2 DEF FirstDigit, Nameable, RelocTypes
      <4>2. ~Defined(placeholded + 1)
        BY <2>1, <2>5, <4>1 DEF Wanted, Defined
      <4>3. search' = 0 /\ placeholded' < pos' /\ placeholded' < Nameable
        BY <1>2, <2>1, <2>2, <2>5, <3>2, <4>1 DEF RelocTypes, Nameable
      <4> QED BY <2>1, <2>2, <2>3, <2>4, <4>2, <4>3 DEF ArrayInv
    <3> QED BY <3>1, <3>2
  <2>6. CASE /\ search = 0 /\ placeholded < pos /\ placeholded < Nameable
             /\ ~Defined(placeholded + 1)
    <3>1. FirstDigit(n) # 0
      BY DEF FirstDigit
    <3>2. search' = 0 /\ placeholded' < pos' /\ placeholded' < Nameable
      BY <1>2, <2>1, <2>2, <2>6, <3>1 DEF RelocTypes
    <3> QED BY <2>1, <2>2, <2>3, <2>4, <2>6, <3>2 DEF ArrayInv
  <2> QED BY <1>5, <2>5, <2>6
<1> QED BY <1>1, <1>7, <1>8, <1>9 DEF Relocates

\* Only the relocations change what they left.
LEMMA RelocKept ==
    ASSUME RelocInv, UNCHANGED relocVars
    PROVE  RelocInv'
<1>1. UNCHANGED <<order, mainSyms, pos, failed, search, symbols, placeholded, plts, slot>>
  BY DEF relocVars
<1>2. RelocTypes'
  BY <1>1 DEF RelocInv, RelocTypes
<1>3. ArrayInv'
  BY <1>1, ArraysKept DEF RelocInv
<1> QED BY <1>2, <1>3 DEF RelocInv

\* Every step keeps the arrays' invariant.
LEMMA RelocStep == RelocInv /\ [Next]_vars => RelocInv'
<1> SUFFICES ASSUME RelocInv, [Next]_vars PROVE RelocInv'
  OBVIOUS
<1>1. CASE Startup
  BY <1>1, RelocateTypes, RelocateArrays DEF Startup, RelocInv
<1>2. CASE UNCHANGED relocVars
  BY <1>2, RelocKept
<1> QED
  BY <1>1, <1>2 DEF Next, Continue, vars, Dlsym, DlsymReturn, NssLoad, OpenFails,
                    MarkFailed, Open, LookFails, Look, Read, Install, Close

\* The arrays keep their invariant.
THEOREM ArrayInvariant == Spec => []RelocInv
<1> QED BY RelocInitInv, RelocStep, PTL DEF Spec

\* Max of a set of numbers that has a greatest element.
LEMMA MaxIs ==
    ASSUME NEW S \in SUBSET Nat, NEW n \in S, \A m \in S : m <= n
    PROVE  Max(S) = n
<1>1. \A m \in S : n >= m
  OBVIOUS
<1>2. Max(S) \in S /\ \A m \in S : Max(S) >= m
  BY <1>1 DEF Max
<1>3. Max(S) \in Nat /\ n \in Nat /\ Max(S) >= n /\ n >= Max(S)
  BY <1>1, <1>2
<1> QED BY <1>3

\* The invariant gives the agreement when the last relocation is done.
LEMMA AgreementHolds == RelocInv => ArraysAgree
<1> SUFFICES ASSUME RelocInv, Running, InOrder
             PROVE  /\ placeholded = Consecutive
                    /\ \A i \in 1 .. placeholded :
                         \E k \in 1 .. Len(mainSyms) :
                            /\ mainSyms[k].num = i
                            /\ symbols[i] = Stored(mainSyms[k].name)
                            /\ LeadsTo(plts[i]) = Fn(mainSyms[k].name)
  BY DEF ArraysAgree
<1>1. RelocTypes /\ pos = Slots
  BY AllSlots DEF RelocInv, Running
<1>2. /\ placeholded \in 0 .. Nameable
      /\ placeholded < Nameable => ~Defined(placeholded + 1)
  <2>1. pos \in Nat /\ placeholded \in 0 .. pos
    BY <1>1 DEF RelocTypes, Slots
  <2>2. \/ placeholded = pos /\ pos <= Nameable /\ search = pos + 1
        \/ placeholded < Nameable /\ ~Defined(placeholded + 1)
        \/ placeholded = Nameable
    BY DEF RelocInv, ArrayInv
  <2>3. search \in 0 .. Slots
    BY <1>1 DEF RelocTypes
  <2>4. ~(search = pos + 1)
    BY <1>1, <2>3 DEF Slots
  <2> QED BY <2>1, <2>2, <2>4 DEF Nameable
<1>3. \A i \in 1 .. placeholded : EntryRight(i) /\ plts[i] = Stub(i)
  BY <1>1, <1>2 DEF RelocInv, ArrayInv, Nameable, Slots
<1>4. placeholded = Consecutive
  <2> DEFINE C == {n \in 1 .. Nameable : \A k \in 1 .. n : Defined(k)}
  <2>1. \A k \in 1 .. placeholded : Defined(k)
    BY <1>3 DEF EntryRight, Defined
  <2>2. placeholded \in {0} \cup C
    BY <1>2, <2>1 DEF Nameable
  <2>3. ASSUME NEW m \in {0} \cup C PROVE m <= placeholded
    <3> SUFFICES ASSUME ~(m <= placeholded) PROVE FALSE
      OBVIOUS
    <3>1. m \in 1 .. Nameable /\ \A k \in 1 .. m : Defined(k)
      BY <1>2
    <3>2. placeholded + 1 \in 1 .. m /\ placeholded < Nameable
      BY <1>2, <3>1 DEF Nameable
    <3> QED BY <1>2, <3>1, <3>2
  <2>4. {0} \cup C \in SUBSET Nat
    OBVIOUS
  <2>5. Max({0} \cup C) = placeholded
    BY <2>2, <2>3, <2>4, MaxIs
  <2> QED BY <2>5 DEF Consecutive, Defined
<1>5. ASSUME NEW i \in 1 .. placeholded
      PROVE  \E k \in 1 .. Len(mainSyms) :
                /\ mainSyms[k].num = i
                /\ symbols[i] = Stored(mainSyms[k].name)
                /\ LeadsTo(plts[i]) = Fn(mainSyms[k].name)
  <2>1. PICK k \in 1 .. Len(mainSyms) :
             /\ mainSyms[k].num = i
             /\ symbols[i] = Stored(mainSyms[k].name)
             /\ Settles(i, mainSyms[k].name)
    BY <1>3 DEF EntryRight
  <2>2. LeadsTo(Stub(i)) = Through(slot[i])
    BY DEF LeadsTo, Through, Stub
  <2>3. CASE slot[i] = Fn(mainSyms[k].name)
    <3>1. Through(slot[i]) = Fn(mainSyms[k].name)
      BY <2>3, Ends
    <3> QED BY <1>3, <2>1, <2>2, <3>1
  <2>4. ASSUME NEW j \in 1 .. i - 1, slot[i] = Stub(j), slot[j] = Fn(mainSyms[k].name)
        PROVE  LeadsTo(plts[i]) = Fn(mainSyms[k].name)
    <3>1. Through(slot[i]) = slot[j]
      BY <2>4 DEF Through, Stub
    <3> QED BY <1>3, <2>2, <2>4, <3>1
  <2> QED BY <2>1, <2>3, <2>4 DEF Settles
<1> QED BY <1>4, <1>5

\* Whatever placeholders the main program names, for any functions and any
\* order of its symbols: when libc's relocations come in the order in which
\* force_lemao mentions the placeholders, placeholder_symbols and
\* placeholder_plts agree on every consecutively numbered name up to nine.
THEOREM PlaceholdersAgree == Spec => []ArraysAgree
<1> QED BY ArrayInvariant, AgreementHolds, PTL

-----------------------------------------------------------------------------

\* What a lookup returned is an address or an alias.
LEMMA ValueTyped ==
    ASSUME LookTypes, NEW t \in Threads
    PROVE  Value(t) \in Values
<1>1. base[t] \in Values \cup {FakeMap} /\ fake_map \in Address
  BY DEF LookTypes
<1> QED BY <1>1 DEF Value, Values

\* What a lookup leaves in name, base and fake_map.
LEMMA LookupTyped ==
    ASSUME LookTypes, RelocTypes, NEW t \in Threads, NEW x \in Names,
           NEW direct \in Values, Lookup(t, x, direct)
    PROVE  /\ name' = [name EXCEPT ![t] = x]
           /\ name' \in [Threads -> Names \cup {NoName}]
           /\ base' \in [Threads -> Values \cup {FakeMap}]
           /\ \A u \in Threads : u # t => base'[u] = base[u]
           /\ fake_map' \in Address
<1>1. name' = [name EXCEPT ![t] = x] /\ name' \in [Threads -> Names \cup {NoName}]
  BY DEF Lookup, LookTypes
<1>2. PICK b \in Values \cup {FakeMap} : base' = [base EXCEPT ![t] = b]
  BY DEF Lookup
<1>3. fake_map' \in Address
  BY ResolvedTyped DEF Lookup, LookTypes
<1>4. base' \in [Threads -> Values \cup {FakeMap}] /\ \A u \in Threads : u # t => base'[u] = base[u]
  BY <1>2 DEF LookTypes
<1> QED BY <1>1, <1>3, <1>4

\* A thread that another one's step leaves alone.
LEMMA OtherThread ==
    ASSUME NEW u \in Threads, ThreadLook(u), pc'[u] = pc[u], name'[u] = name[u],
           module'[u] = module[u], pointers'[u] = pointers[u], answer'[u] = answer[u],
           program' = program, Running' = Running,
           pc[u] = "dlsym" => load_lock' = load_lock
    PROVE  ThreadLook(u)'
BY DEF ThreadLook

\* do_sym answers with an alias or not at all.
LEMMA DoSymTyped == ASSUME NEW x, NEW direct \in DoSym(x) PROVE direct \in Values
BY LookupAssumption DEF DoSym, Values, Address

\* The list of names of a module.
LEMMA NamesOf ==
    ASSUME NEW m \in Modules
    PROVE  /\ FunctionsOf[m] \in Seq(Names) /\ Len(FunctionsOf[m]) \in Nat \ {0}
           /\ \A i \in 1 .. Len(FunctionsOf[m]) : FunctionsOf[m][i] \in Names
<1>1. FunctionsOf[m] \in Seq(Names) /\ FunctionsOf[m] # <<>>
  BY LookupAssumption
<1> QED BY <1>1

\* Nobody has asked for anything before the program runs.
LEMMA LookInitInv == Init => LookInv
<1> SUFFICES ASSUME Init PROVE LookInv
  OBVIOUS
<1>1. LookTypes
  <2>1. Null \in Values /\ Null \in Address
    BY DEF Values, Address
  <2>2. program \in [Threads -> {"dlsym", "nss", "none"}]
    BY LookupAssumption DEF Init
  <2>3. /\ pointers \in [Threads -> Seq(Values)]
        /\ functions \in [Modules -> Seq(Values)]
    BY DEF Init
  <2>4. answer \in [Threads -> [name : Names \cup {NoName}, value : Values]]
    BY <2>1 DEF Init, NoCall
  <2>5. /\ name \in [Threads -> Names \cup {NoName}]
        /\ base \in [Threads -> Values \cup {FakeMap}]
        /\ fake_map \in Address
        /\ load_lock \in Threads \cup {NoThread}
    BY <2>1 DEF Init
  <2> QED BY <2>2, <2>3, <2>4, <2>5 DEF LookTypes
<1>2. ASSUME NEW t \in Threads PROVE ThreadLook(t)
  BY DEF Init, ThreadLook, Loading
<1>3. \A m \in Modules : functions[m] = <<>>
  BY DEF Init
<1> QED BY <1>1, <1>2, <1>3 DEF LookInv

\* A thread only works while the program runs.
LEMMA Busy ==
    ASSUME LookInv, NEW t \in Threads, pc[t] # "idle"
    PROVE  Running
BY DEF LookInv, ThreadLook

\* The loader is done before any thread begins.
LEMMA StartupLooks ==
    ASSUME RelocInv, LookInv, Startup
    PROVE  LookInv'
<1>1. ~Running
  BY DEF Startup, Relocate, Running
<1>2. /\ UNCHANGED <<program, pc, name, base, module, pointers, fake_map, load_lock, answer>>
      /\ functions' = functions
  BY DEF Startup, threadVars, nssVars
<1>3. LookTypes'
  BY <1>2 DEF LookInv, LookTypes
<1>4. ASSUME NEW t \in Threads PROVE ThreadLook(t)'
  BY <1>1, <1>2 DEF LookInv, ThreadLook, Loading
<1>5. \A m \in Modules : functions'[m] = <<>>
  BY <1>1, <1>2 DEF LookInv
<1> QED BY <1>3, <1>4, <1>5 DEF LookInv

\* The step of a thread that stays within its own state.
LEMMA ThreadStep ==
    ASSUME LookInv, NEW t \in Threads, Running, UNCHANGED relocVars, program' = program,
           LookTypes', ThreadLook(t)',
           \A u \in Threads : u # t =>
               /\ pc'[u] = pc[u] /\ name'[u] = name[u] /\ module'[u] = module[u]
               /\ pointers'[u] = pointers[u] /\ answer'[u] = answer[u]
               /\ pc[u] = "dlsym" => load_lock' = load_lock
    PROVE  LookInv'
<1>1. Running' = Running
  BY DEF relocVars, Running
<1>2. \A u \in Threads : ThreadLook(u)'
  <2> SUFFICES ASSUME NEW u \in Threads, u # t PROVE ThreadLook(u)'
    OBVIOUS
  <2> QED BY <1>1, OtherThread DEF LookInv
<1> QED BY <1>1, <1>2 DEF LookInv

\* dlsym takes the lock with the lookup and gives it back with the answer.
LEMMA DlsymLooks ==
    ASSUME LoadInv, RelocInv, LookInv, NEW t \in Threads,
           (\E x \in Names : Dlsym(t, x)) \/ DlsymReturn(t)
    PROVE  LookInv'
<1>0. LookTypes /\ RelocTypes /\ DOMAIN pc = Threads
  BY DEF LookInv, RelocInv, LoadInv, ThreadInv
<1>1. ASSUME NEW x \in Names, Dlsym(t, x) PROVE LookInv'
  <2>1. PICK direct \in DoSym(x) : Lookup(t, x, direct)
    BY <1>1 DEF Dlsym
  <2>2. direct \in Values
    BY DoSymTyped
  <2>3. /\ Running /\ UNCHANGED relocVars /\ load_lock = NoThread /\ load_lock' = t
        /\ program[t] = "dlsym" /\ program' = program /\ pc' = [pc EXCEPT ![t] = "dlsym"]
        /\ answer' = answer /\ module' = module /\ pointers' = pointers
        /\ functions' = functions
    BY <1>1 DEF Dlsym, nssVars
  <2>4. /\ name' = [name EXCEPT ![t] = x]
        /\ name' \in [Threads -> Names \cup {NoName}]
        /\ base' \in [Threads -> Values \cup {FakeMap}]
        /\ fake_map' \in Address
    BY <1>0, <2>1, <2>2, LookupTyped
  <2>5. LookTypes'
    BY <1>0, <2>3, <2>4 DEF LookTypes
  <2>6. Running'
    BY <2>3 DEF relocVars, Running
  <2>7. pc'[t] = "dlsym" /\ name'[t] = x
    BY <1>0, <2>3, <2>4 DEF LookTypes
  <2>8. ThreadLook(t)'
    BY <2>3, <2>6, <2>7 DEF ThreadLook, Loading
  <2>9. ASSUME NEW u \in Threads, u # t
        PROVE  /\ pc'[u] = pc[u] /\ name'[u] = name[u] /\ module'[u] = module[u]
               /\ pointers'[u] = pointers[u] /\ answer'[u] = answer[u]
               /\ pc[u] = "dlsym" => load_lock' = load_lock
    <3>1. pc[u] # "dlsym"
      BY <2>3, LookupAssumption DEF LookInv, ThreadLook
    <3> QED BY <1>0, <2>3, <2>4, <2>9, <3>1 DEF LookTypes
  <2> QED BY <2>3, <2>5, <2>8, <2>9, ThreadStep
<1>2. CASE DlsymReturn(t)
  <2>1. /\ pc[t] = "dlsym" /\ UNCHANGED relocVars /\ load_lock' = NoThread
        /\ program' = program /\ pc' = [pc EXCEPT ![t] = "idle"]
        /\ answer' = [answer EXCEPT ![t] = [name |-> name[t], value |-> Value(t)]]
        /\ name' = name /\ base' = base /\ fake_map' = fake_map
        /\ module' = module /\ pointers' = pointers /\ functions' = functions
    BY <1>2 DEF DlsymReturn, nssVars
  <2>2. Running
    BY <2>1, Busy
  <2>3. LookTypes'
    <3>1. [name |-> name[t], value |-> Value(t)] \in [name : Names \cup {NoName}, value : Values]
      BY <1>0, ValueTyped DEF LookTypes
    <3>2. answer' \in [Threads -> [name : Names \cup {NoName}, value : Values]]
      BY <1>0, <2>1, <3>1 DEF LookTypes
    <3> QED BY <1>0, <2>1, <3>2 DEF LookTypes
  <2>4. pc'[t] = "idle" /\ Running'
    BY <1>0, <2>1, <2>2 DEF relocVars, Running
  <2>5. ThreadLook(t)'
    BY <2>4 DEF ThreadLook, Loading
  <2>6. ASSUME NEW u \in Threads, u # t
        PROVE  /\ pc'[u] = pc[u] /\ name'[u] = name[u] /\ module'[u] = module[u]
               /\ pointers'[u] = pointers[u] /\ answer'[u] = answer[u]
               /\ pc[u] = "dlsym" => load_lock' = load_lock
    <3>1. pc[u] # "dlsym"
      <4>1. load_lock = t
        BY <2>1 DEF LookInv, ThreadLook
      <4>2. pc[u] = "dlsym" => load_lock = u
        BY DEF LookInv, ThreadLook
      <4> QED BY <2>6, <4>1, <4>2
    <3> QED BY <1>0, <2>1, <2>6, <3>1 DEF LookTypes
  <2> QED BY <2>1, <2>2, <2>3, <2>5, <2>6, ThreadStep
<1> QED BY <1>1, <1>2

\* A thread that begins to load a module, or leaves it, and one that opens it.
LEMMA LoadLooks ==
    ASSUME LoadInv, LookInv, NEW t \in Threads,
           \/ \E m \in Modules : NssLoad(t, m)
           \/ OpenFails(t) \/ MarkFailed(t) \/ Open(t) \/ LookFails(t) \/ Install(t) \/ Close(t)
    PROVE  LookInv'
<1>0. LookTypes /\ ThreadInv /\ ModuleInv
  BY DEF LookInv, LoadInv
<1>1. UNCHANGED <<relocVars, program, name, base, fake_map, load_lock, answer>>
  BY DEF NssLoad, OpenFails, MarkFailed, Open, LookFails, Install, Close
<1>2. Running
  BY Busy DEF NssLoad, OpenFails, MarkFailed, Open, LookFails, Install, Close
<1>3. Running'
  BY <1>1, <1>2 DEF relocVars, Running
<1>4. ASSUME NEW m \in Modules, NssLoad(t, m) PROVE LookInv'
  <2>1. /\ program[t] = "nss" /\ pc[t] = "idle" /\ pc' \in {pc, [pc EXCEPT ![t] = "open"]}
        /\ module' = [module EXCEPT ![t] = m] /\ pointers' = pointers /\ functions' = functions
    BY <1>4 DEF NssLoad, nssVars
  <2>2. LookTypes'
    BY <1>0, <1>1, <2>1 DEF LookTypes
  <2>3. pc'[t] \in {"idle", "open"}
    BY <1>0, <2>1 DEF ThreadInv
  <2>4. ThreadLook(t)'
    BY <1>1, <1>3, <2>1, <2>3 DEF ThreadLook, Loading
  <2>5. \A u \in Threads : u # t => pc'[u] = pc[u] /\ module'[u] = module[u]
    BY <1>0, <2>1 DEF ThreadInv
  <2> QED BY <1>1, <1>2, <2>1, <2>2, <2>4, <2>5, ThreadStep
<1>5. CASE OpenFails(t) \/ MarkFailed(t) \/ LookFails(t) \/ Close(t)
  <2>1. /\ pc[t] \in Loading
        /\ \E s \in {"failed", "close", "idle"} : pc' = [pc EXCEPT ![t] = s]
        /\ module' = module /\ pointers' = pointers /\ functions' = functions
    BY <1>5 DEF OpenFails, MarkFailed, LookFails, Close, Loading, nssVars
  <2>2. LookTypes'
    BY <1>0, <1>1, <2>1 DEF LookTypes
  <2>3. /\ pc'[t] \in {"failed", "close", "idle"}
        /\ \A u \in Threads : u # t => pc'[u] = pc[u]
    BY <1>0, <2>1 DEF ThreadInv
  <2>4. program[t] = "nss"
    BY <2>1 DEF LookInv, ThreadLook
  <2>5. ThreadLook(t)'
    BY <1>1, <1>3, <2>3, <2>4 DEF ThreadLook, Loading
  <2> QED BY <1>1, <1>2, <2>1, <2>2, <2>3, <2>5, ThreadStep
<1>6. CASE Open(t)
  <2>1. /\ pc[t] = "open" /\ pc' = [pc EXCEPT ![t] = "look"]
        /\ module' = module /\ pointers' = [pointers EXCEPT ![t] = <<>>]
        /\ functions' = functions
    BY <1>6 DEF Open
  <2>2. pointers' \in [Threads -> Seq(Values)] /\ pointers'[t] = <<>>
        /\ \A u \in Threads : u # t => pointers'[u] = pointers[u]
    BY <1>0, <2>1 DEF LookTypes
  <2>3. LookTypes'
    BY <1>0, <1>1, <2>1, <2>2 DEF LookTypes
  <2>4. pc'[t] = "look" /\ \A u \in Threads : u # t => pc'[u] = pc[u]
    BY <1>0, <2>1 DEF ThreadInv
  <2>5. program[t] = "nss" /\ module[t] \in Modules
    BY <1>0, <2>1 DEF ThreadInv, LookInv, ThreadLook, Loading
  <2>6. Len(pointers'[t]) < Len(FunctionsOf[module[t]])
    <3>1. Len(pointers'[t]) = 0
      BY <2>2, NoPlaces
    <3>2. Len(FunctionsOf[module[t]]) > 0
      BY <2>5, NamesOf
    <3> QED BY <3>1, <3>2
  <2>7. ThreadLook(t)'
    BY <1>1, <1>3, <2>1, <2>4, <2>5, <2>6 DEF ThreadLook, Loading
  <2> QED BY <1>1, <1>2, <2>1, <2>2, <2>3, <2>4, <2>7, ThreadStep
<1>7. CASE Install(t)
  <2>1. /\ pc[t] = "install" /\ \E s \in {"close", "idle"} : pc' = [pc EXCEPT ![t] = s]
        /\ module' = module /\ pointers' = pointers
        /\ functions' = functions \/ functions' = [functions EXCEPT ![module[t]] = pointers[t]]
    BY <1>7 DEF Install
  <2>2. functions' \in [Modules -> Seq(Values)]
    BY <1>0, <2>1 DEF LookTypes
  <2>3. LookTypes'
    BY <1>0, <1>1, <2>1, <2>2 DEF LookTypes
  <2>4. pc'[t] \in {"close", "idle"} /\ \A u \in Threads : u # t => pc'[u] = pc[u]
    BY <1>0, <2>1 DEF ThreadInv
  <2>5. program[t] = "nss"
    BY <2>1 DEF LookInv, ThreadLook, Loading
  <2>6. ThreadLook(t)'
    BY <1>1, <1>3, <2>4, <2>5 DEF ThreadLook, Loading
  <2> QED BY <1>1, <1>2, <2>1, <2>3, <2>4, <2>6, ThreadStep
<1> QED BY <1>4, <1>5, <1>6, <1>7

\* do_dlsym looks up the next name of the list, and module_load stores it.
LEMMA ReadLooks ==
    ASSUME LoadInv, RelocInv, LookInv, NEW t \in Threads, Look(t) \/ Read(t)
    PROVE  LookInv'
<1>0. LookTypes /\ ThreadInv /\ RelocTypes
  BY DEF LookInv, LoadInv, RelocInv
<1>1. /\ pc[t] \in {"look", "read"} /\ module' = module /\ functions' = functions
      /\ UNCHANGED <<relocVars, program, load_lock, answer>>
  BY DEF Look, Read, nssVars
<1>2. Running
  BY <1>1, Busy
<1>3. Running'
  BY <1>1, <1>2 DEF relocVars, Running
<1>4. /\ program[t] = "nss" /\ module[t] \in Modules
      /\ Len(pointers[t]) < Len(FunctionsOf[module[t]])
  BY <1>0, <1>1 DEF ThreadInv, LookInv, ThreadLook, Loading
<1>5. PICK n \in 1 .. Len(FunctionsOf[module[t]]) : n = Len(pointers[t]) + 1
  <2>1. pointers[t] \in Seq(Values)
    BY <1>0 DEF LookTypes
  <2>2. Len(pointers[t]) \in Nat
    BY <2>1
  <2>3. Len(FunctionsOf[module[t]]) \in Nat
    BY <1>4, NamesOf
  <2> QED BY <1>4, <2>2, <2>3
<1>6. PICK x \in Names : x = FunctionsOf[module[t]][n]
  BY <1>4, <1>5, NamesOf
<1>7. CASE Look(t)
  <2>1. /\ pc' = [pc EXCEPT ![t] = "read"] /\ pointers' = pointers
        /\ Lookup(t, x, IF x \in Found THEN Fn(x) ELSE Null)
    BY <1>5, <1>6, <1>7 DEF Look
  <2>2. (IF x \in Found THEN Fn(x) ELSE Null) \in Values
    BY DEF Values, Address
  <2>3. /\ name' = [name EXCEPT ![t] = x]
        /\ name' \in [Threads -> Names \cup {NoName}]
        /\ base' \in [Threads -> Values \cup {FakeMap}]
        /\ fake_map' \in Address
    BY <1>0, <2>1, <2>2, LookupTyped
  <2>4. LookTypes'
    BY <1>0, <1>1, <2>1, <2>3 DEF LookTypes
  <2>5. pc'[t] = "read" /\ name'[t] = x
    BY <1>0, <2>1, <2>3 DEF ThreadInv, LookTypes
  <2>6. \A u \in Threads : u # t => pc'[u] = pc[u] /\ name'[u] = name[u]
    BY <1>0, <2>1, <2>3 DEF ThreadInv, LookTypes
  <2>7. ThreadLook(t)'
    BY <1>1, <1>3, <1>4, <1>5, <1>6, <2>1, <2>5 DEF ThreadLook, Loading
  <2> QED BY <1>1, <1>2, <2>1, <2>4, <2>6, <2>7, ThreadStep
<1>8. CASE Read(t)
  <2>1. /\ pointers' = [pointers EXCEPT ![t] = Append(@, Value(t))]
        /\ pc' = [pc EXCEPT ![t] = IF n < Len(FunctionsOf[module[t]]) THEN "look" ELSE "install"]
        /\ name' = name /\ base' = base /\ fake_map' = fake_map
    BY <1>5, <1>8 DEF Read
  <2>2. pointers[t] \in Seq(Values) /\ Value(t) \in Values
    BY <1>0, ValueTyped DEF LookTypes
  <2>3. Append(pointers[t], Value(t)) \in Seq(Values) /\ Len(Append(pointers[t], Value(t))) = n
    BY <1>5, <2>2
  <2>4. /\ pointers' \in [Threads -> Seq(Values)] /\ Len(pointers'[t]) = n
        /\ \A u \in Threads : u # t => pointers'[u] = pointers[u]
    BY <1>0, <2>1, <2>3 DEF LookTypes
  <2>5. LookTypes'
    BY <1>0, <1>1, <2>1, <2>4 DEF LookTypes
  <2>6. pc'[t] = IF n < Len(FunctionsOf[module[t]]) THEN "look" ELSE "install"
    BY <1>0, <2>1 DEF ThreadInv
  <2>7. \A u \in Threads : u # t => pc'[u] = pc[u]
    BY <1>0, <2>1 DEF ThreadInv
  <2>8. ThreadLook(t)'
    BY <1>1, <1>3, <1>4, <2>4, <2>6 DEF ThreadLook, Loading
  <2> QED BY <1>1, <1>2, <2>1, <2>4, <2>5, <2>7, <2>8, ThreadStep
<1> QED BY <1>7, <1>8

\* Every step keeps the threads' invariant.
LEMMA LookStep == LoadInv /\ RelocInv /\ LookInv /\ [Next]_vars => LookInv'
<1> SUFFICES ASSUME LoadInv, RelocInv, LookInv, [Next]_vars PROVE LookInv'
  OBVIOUS
<1>1. CASE UNCHANGED vars
  <2>1. UNCHANGED <<pos, failed, order, program, pc, name, base, module, pointers, fake_map,
                    load_lock, answer, functions>>
    BY <1>1 DEF vars, relocVars, threadVars, nssVars
  <2>2. LookTypes'
    BY <2>1 DEF LookInv, LookTypes
  <2>3. \A t \in Threads : ThreadLook(t)'
    BY <2>1 DEF LookInv, ThreadLook, Running
  <2> QED BY <2>1, <2>2, <2>3 DEF LookInv, Running
<1> QED BY <1>1, StartupLooks, DlsymLooks, LoadLooks, ReadLooks DEF Next, Continue

-----------------------------------------------------------------------------

\* A thread that has asked for nothing has no wrong answer.
LEMMA NoCallRight == NoCall.name = NoName /\ Right(NoCall.name, NoCall.value)
<1>1. NoCall.name = NoName /\ NoCall.value = Null
  BY DEF NoCall
<1>2. LeadsTo(Null) = Null
  BY DEF LeadsTo, Through, Null
<1> QED BY <1>1, <1>2 DEF Right

\* Before the first lookup there is nothing to be wrong.
LEMMA RightInitInv == Init => RightInv
<1> SUFFICES ASSUME Init PROVE RightInv
  OBVIOUS
<1>1. \A t \in Threads : ThreadRight(t)
  BY DEF Init, ThreadRight
<1>2. \A t \in Threads : AnswerRight(t)
  <2>1. \A t \in Threads : answer[t] = NoCall
    BY DEF Init
  <2> QED BY <2>1, NoCallRight DEF AnswerRight
<1>3. \A m \in Modules : PointersRight(m)
  <2>1. \A m \in Modules : functions[m] = <<>>
    BY DEF Init
  <2> QED BY <2>1, NoPlaces DEF PointersRight
<1> QED BY <1>1, <1>2, <1>3 DEF RightInv

\* The relocations end before the first lookup.
LEMMA StartupRight ==
    ASSUME RelocInv, LookInv, Startup
    PROVE  RightInv'
<1>1. ~Running
  BY DEF Startup, Relocate, Running
<1>2. UNCHANGED <<pc, answer, functions>>
  BY DEF Startup, threadVars, nssVars
<1>3. \A t \in Threads : pc'[t] = "idle" /\ answer'[t] = NoCall
  BY <1>1, <1>2 DEF LookInv, ThreadLook
<1>4. \A m \in Modules : functions'[m] = <<>>
  BY <1>1, <1>2 DEF LookInv
<1>5. \A t \in Threads : ThreadRight(t)'
  BY <1>3 DEF ThreadRight
<1>6. \A t \in Threads : AnswerRight(t)'
  <2>1. LeadsTo(Null)' = Null
    BY DEF LeadsTo, Through, Null
  <2>2. NoCall.value = Null
    BY DEF NoCall
  <2> QED BY <1>3, <2>1, <2>2 DEF AnswerRight, Right
<1>7. \A m \in Modules : PointersRight(m)'
  BY <1>4, NoPlaces DEF PointersRight
<1> QED BY <1>5, <1>6, <1>7 DEF RightInv

\* A thread whose lookup another one's step leaves alone.
LEMMA OtherRight ==
    ASSUME NEW u \in Threads, ThreadRight(u), slot' = slot, pc'[u] = pc[u],
           name'[u] = name[u], base'[u] = base[u], module'[u] = module[u],
           pointers'[u] = pointers[u],
           pc[u] \in {"dlsym", "read"} => fake_map' = fake_map
    PROVE  ThreadRight(u)'
BY DEF ThreadRight, Value, Right, LeadsTo, Through, Clashes

\* An address leads where it did while the slots stay.
LEMMA DirectStays ==
    ASSUME slot' = slot, NEW v
    PROVE  LeadsTo(v)' = LeadsTo(v)
BY DEF LeadsTo, Through

\* Answers and installed pointers stay right when they stay.
LEMMA ResultsStay ==
    ASSUME slot' = slot
    PROVE  /\ \A u \in Threads : answer'[u] = answer[u] /\ AnswerRight(u) => AnswerRight(u)'
           /\ \A m \in Modules : functions'[m] = functions[m] /\ PointersRight(m)
                                    => PointersRight(m)'
<1>1. ASSUME NEW u \in Threads, answer'[u] = answer[u], AnswerRight(u) PROVE AnswerRight(u)'
  <2>1. LeadsTo(answer[u].value)' = LeadsTo(answer[u].value)
    BY <1>1 DEF LeadsTo, Through
  <2> QED BY <1>1, <2>1 DEF AnswerRight, Right, Clashes
<1>2. ASSUME NEW m \in Modules, functions'[m] = functions[m], PointersRight(m)
      PROVE  PointersRight(m)'
  <2>1. \A i : LeadsTo(functions[m][i])' = LeadsTo(functions[m][i])
    BY <1>2 DEF LeadsTo, Through
  <2> QED BY <1>2, <2>1 DEF PointersRight, Right
<1> QED BY <1>1, <1>2

\* What a lookup of x finds, in fake_map or not, is right.
LEMMA LookupRight ==
    ASSUME LookTypes, RelocInv, InOrder, slot' = slot, NEW t \in Threads, NEW x \in Names,
           NEW direct, Lookup(t, x, direct), direct \in {Fn(x), Null} \cup {Alias(y) : y \in Dsyms}
    PROVE  Value(t)' = direct \/ Right(x, Value(t))'
<1>1. CASE Registered(x) # {}
  <2>1. fake_map' = RegisteredStub(x) /\ base'[t] = FakeMap
    BY <1>1 DEF Lookup, LookTypes
  <2>2. Value(t)' = RegisteredStub(x)
    BY <2>1 DEF Value
  <2>3. LeadsTo(RegisteredStub(x)) = Fn(x)
    BY <1>1, StubLeads
  <2> QED BY <2>2, <2>3 DEF Right, LeadsTo, Through
<1>2. CASE Registered(x) = {}
  <2>1. base'[t] = direct
    BY <1>2 DEF Lookup, LookTypes
  <2>2. direct # FakeMap
    BY Ends
  <2> QED BY <2>1, <2>2 DEF Value
<1> QED BY <1>1, <1>2

\* What leads nowhere else is where it leads.
LEMMA Direct ==
    ASSUME NEW x
    PROVE  Right(x, Fn(x)) /\ Right(x, Alias(x)) /\ Right(x, Null)
BY Ends DEF Right, LeadsTo

\* The step of a thread that leaves the others' lookups alone.
LEMMA RightStep1 ==
    ASSUME RightInv, NEW t \in Threads, UNCHANGED relocVars, program' = program,
           InOrder /\ ~Racing =>
               /\ ThreadRight(t)' /\ AnswerRight(t)'
               /\ \A u \in Threads : u # t =>
                     /\ pc'[u] = pc[u] /\ name'[u] = name[u] /\ base'[u] = base[u]
                     /\ module'[u] = module[u] /\ pointers'[u] = pointers[u]
                     /\ answer'[u] = answer[u]
                     /\ pc[u] \in {"dlsym", "read"} => fake_map' = fake_map
               /\ \A m \in Modules : PointersRight(m)'
    PROVE  RightInv'
<1>1. slot' = slot /\ InOrder' = InOrder /\ Racing' = Racing
  BY DEF relocVars, InOrder, Racing
<1> SUFFICES ASSUME InOrder, ~Racing
             PROVE  /\ \A u \in Threads : ThreadRight(u)' /\ AnswerRight(u)'
                    /\ \A m \in Modules : PointersRight(m)'
  BY <1>1 DEF RightInv
<1>2. ASSUME NEW u \in Threads, u # t PROVE ThreadRight(u)' /\ AnswerRight(u)'
  <2>1. ThreadRight(u) /\ AnswerRight(u)
    BY DEF RightInv
  <2>2. ThreadRight(u)'
    BY <1>1, <1>2, <2>1, OtherRight
  <2>3. AnswerRight(u)'
    BY <1>1, <1>2, <2>1, ResultsStay
  <2> QED BY <2>2, <2>3
<1> QED BY <1>2

\* The lock keeps other dlsyms from fake_map, and with one a thread that takes
\* no lock would be racing.
LEMMA DlsymRight ==
    ASSUME LoadInv, RelocInv, LookInv, RightInv, NEW t \in Threads, NEW x \in Names, Dlsym(t, x)
    PROVE  RightInv'
<1>1. PICK direct \in DoSym(x) : Lookup(t, x, direct)
  BY DEF Dlsym
<1>2. /\ UNCHANGED relocVars /\ load_lock = NoThread /\ program[t] = "dlsym"
      /\ program' = program /\ pc' = [pc EXCEPT ![t] = "dlsym"]
      /\ answer' = answer /\ module' = module /\ pointers' = pointers
      /\ functions' = functions
  BY DEF Dlsym, nssVars
<1>3. LookTypes /\ RelocTypes /\ DOMAIN pc = Threads
  BY DEF LookInv, RelocInv, LoadInv, ThreadInv
<1>4. slot' = slot
  BY <1>2 DEF relocVars
<1>5. direct \in Values
  BY DoSymTyped
<1>6. name' = [name EXCEPT ![t] = x] /\ \A u \in Threads : u # t => base'[u] = base[u]
  BY <1>1, <1>3, <1>5, LookupTyped
<1>7. pc'[t] = "dlsym" /\ name'[t] = x
  BY <1>2, <1>3, <1>6 DEF LookTypes
<1>8. ASSUME InOrder, ~Racing
      PROVE  /\ ThreadRight(t)' /\ AnswerRight(t)'
             /\ \A u \in Threads : u # t =>
                   /\ pc'[u] = pc[u] /\ name'[u] = name[u] /\ base'[u] = base[u]
                   /\ module'[u] = module[u] /\ pointers'[u] = pointers[u]
                   /\ answer'[u] = answer[u]
                   /\ pc[u] \in {"dlsym", "read"} => fake_map' = fake_map
             /\ \A m \in Modules : PointersRight(m)'
  <2>1. Right(x, Value(t))' \/ Clashes(x)
    <3>1. direct \in {Fn(x), Null} \cup {Alias(y) : y \in Dsyms}
      BY DEF DoSym
    <3>2. Value(t)' = direct \/ Right(x, Value(t))'
      BY <1>1, <1>3, <1>4, <1>8, <3>1, LookupRight
    <3>3. CASE Value(t)' = direct
      <4>0. Right(x, Value(t))' <=> Right(x, direct)
        <5>1. LeadsTo(direct)' = LeadsTo(direct)
          BY <1>4, DirectStays
        <5>2. LeadsTo(Value(t))' = LeadsTo(direct)'
          BY <3>3 DEF LeadsTo, Through
        <5> QED BY <5>1, <5>2 DEF Right
      <4>1. CASE direct = Null
        BY <4>0, <4>1, Direct
      <4>2. ASSUME NEW y \in Dsyms, Stem[y] = Stem[x], direct = Alias(y)
            PROVE  Right(x, Value(t))' \/ Clashes(x)
        <5>1. CASE y = x
          BY <4>0, <4>2, <5>1, Direct
        <5>2. CASE y # x
          BY <4>2, <5>2 DEF Clashes
        <5> QED BY <5>1, <5>2
      <4> QED BY <4>1, <4>2 DEF DoSym
    <3> QED BY <3>2, <3>3
  <2>2. ThreadRight(t)'
    BY <1>7, <2>1 DEF ThreadRight, Clashes
  <2>3. AnswerRight(t)' /\ \A m \in Modules : PointersRight(m)'
    BY <1>2, <1>4, <1>8, ResultsStay DEF RightInv
  <2>4. ASSUME NEW u \in Threads, u # t
        PROVE  /\ pc'[u] = pc[u] /\ name'[u] = name[u] /\ base'[u] = base[u]
               /\ pc[u] \notin {"dlsym", "read"}
    <3>1. pc'[u] = pc[u] /\ name'[u] = name[u] /\ base'[u] = base[u]
      BY <1>2, <1>3, <1>6, <2>4 DEF LookTypes
    <3>2. pc[u] # "dlsym"
      BY <1>2, LookupAssumption DEF LookInv, ThreadLook
    <3>3. pc[u] # "read"
      BY <1>2, <1>8, <2>4 DEF LookInv, ThreadLook, Loading, Racing
    <3> QED BY <3>1, <3>2, <3>3
  <2> QED BY <1>2, <2>2, <2>3, <2>4
<1> QED BY <1>2, <1>8, RightStep1

\* Nobody else has written fake_map since the lookup.
LEMMA DlsymReturnRight ==
    ASSUME LoadInv, LookInv, RightInv, NEW t \in Threads, DlsymReturn(t)
    PROVE  RightInv'
<1>1. /\ pc[t] = "dlsym" /\ UNCHANGED relocVars
      /\ program' = program /\ pc' = [pc EXCEPT ![t] = "idle"]
      /\ answer' = [answer EXCEPT ![t] = [name |-> name[t], value |-> Value(t)]]
      /\ name' = name /\ base' = base /\ fake_map' = fake_map
      /\ module' = module /\ pointers' = pointers /\ functions' = functions
  BY DEF DlsymReturn, nssVars
<1>2. LookTypes /\ DOMAIN pc = Threads /\ slot' = slot
  BY <1>1 DEF LookInv, LoadInv, ThreadInv, relocVars
<1>3. ASSUME InOrder, ~Racing
      PROVE  /\ ThreadRight(t)' /\ AnswerRight(t)'
             /\ \A u \in Threads : u # t => pc'[u] = pc[u] /\ answer'[u] = answer[u]
             /\ \A m \in Modules : PointersRight(m)'
  <2>1. pc'[t] = "idle" /\ \A u \in Threads : u # t => pc'[u] = pc[u] /\ answer'[u] = answer[u]
    BY <1>1, <1>2 DEF LookTypes
  <2>2. ThreadRight(t)'
    BY <2>1 DEF ThreadRight
  <2>3. \A m \in Modules : PointersRight(m)'
    BY <1>1, <1>2, <1>3, ResultsStay DEF RightInv
  <2>4. Right(name[t], Value(t)) \/ Clashes(name[t])
    BY <1>1, <1>3 DEF RightInv, ThreadRight
  <2>5. name[t] \in Names
    BY <1>1 DEF LookInv, ThreadLook
  <2>6. answer'[t].name = name[t] /\ answer'[t].value = Value(t)
    BY <1>1, <1>2 DEF LookTypes
  <2>7. answer'[t] # NoCall
    <3>1. NoName \notin Names
      BY PlaceholderAssumption
    <3> QED BY <2>5, <2>6, <3>1, NoCallRight
  <2>8. AnswerRight(t)'
    BY <1>2, <2>4, <2>6, <2>7 DEF AnswerRight, Right, LeadsTo, Through, Clashes
  <2> QED BY <2>1, <2>2, <2>3, <2>8
<1> QED BY <1>1, <1>3, RightStep1

\* A thread that loads a module alone reads what it looked up.
LEMMA ReadRight ==
    ASSUME LoadInv, RelocInv, LookInv, RightInv, NEW t \in Threads, Look(t) \/ Read(t)
    PROVE  RightInv'
<1>1. /\ pc[t] \in {"look", "read"} /\ module' = module /\ functions' = functions
      /\ UNCHANGED <<relocVars, program, load_lock, answer>>
  BY DEF Look, Read, nssVars
<1>2. LookTypes /\ RelocTypes /\ ThreadInv /\ slot' = slot
  BY <1>1 DEF LookInv, LoadInv, RelocInv, relocVars
<1>3. /\ program[t] = "nss" /\ module[t] \in Modules
      /\ Len(pointers[t]) < Len(FunctionsOf[module[t]])
  BY <1>1, <1>2 DEF ThreadInv, LookInv, ThreadLook, Loading
<1>4. pointers[t] \in Seq(Values)
  BY <1>2 DEF LookTypes
<1>5. PICK n \in 1 .. Len(FunctionsOf[module[t]]) : n = Len(pointers[t]) + 1
  <2>1. PICK k \in Nat : k = Len(pointers[t])
    BY <1>4
  <2>2. PICK l \in Nat : l = Len(FunctionsOf[module[t]])
    BY <1>3, NamesOf
  <2>3. k + 1 \in 1 .. l
    <3>1. k < l
      BY <1>3, <2>1, <2>2
    <3> QED BY <3>1
  <2> QED BY <2>1, <2>2, <2>3
<1>6. PICK x \in Names : x = FunctionsOf[module[t]][n]
  BY <1>3, <1>5, NamesOf
<1>7. ASSUME InOrder, ~Racing
      PROVE  /\ AnswerRight(t)' /\ \A m \in Modules : PointersRight(m)'
             /\ \A i \in 1 .. Len(pointers[t]) :
                   Right(FunctionsOf[module[t]][i], pointers[t][i])
             /\ \A u \in Threads : u # t => pc[u] \notin {"dlsym", "read"}
  <2>1. AnswerRight(t)' /\ \A m \in Modules : PointersRight(m)'
    BY <1>1, <1>2, <1>7, ResultsStay DEF RightInv
  <2>2. \A i \in 1 .. Len(pointers[t]) : Right(FunctionsOf[module[t]][i], pointers[t][i])
    BY <1>1, <1>7 DEF RightInv, ThreadRight
  <2>3. ASSUME NEW u \in Threads, u # t PROVE pc[u] \notin {"dlsym", "read"}
    <3>1. program[u] = "none"
      BY <1>2, <1>3, <1>7, <2>3 DEF Racing, LookTypes
    <3> QED BY <3>1 DEF LookInv, ThreadLook, Loading
  <2> QED BY <2>1, <2>2, <2>3
<1>8. CASE Look(t)
  <2>1. /\ pc' = [pc EXCEPT ![t] = "read"] /\ pointers' = pointers
        /\ Lookup(t, x, IF x \in Found THEN Fn(x) ELSE Null)
    BY <1>5, <1>6, <1>8 DEF Look
  <2>2. PICK direct \in {Fn(x), Null} : Lookup(t, x, direct)
    BY <2>1
  <2>3. direct \in Values
    BY DEF Values, Address
  <2>4. name' = [name EXCEPT ![t] = x] /\ \A u \in Threads : u # t => base'[u] = base[u]
    BY <1>2, <2>2, <2>3, LookupTyped
  <2>5. /\ pc'[t] = "read" /\ name'[t] = x
        /\ \A u \in Threads : u # t => pc'[u] = pc[u] /\ name'[u] = name[u]
    BY <1>2, <2>1, <2>4 DEF LookTypes, ThreadInv
  <2>6. ASSUME InOrder, ~Racing PROVE ThreadRight(t)'
    <3>1. Value(t)' = direct \/ Right(x, Value(t))'
      BY <1>2, <2>2, <2>6, LookupRight
    <3>2. Right(x, Value(t))'
      <4>1. CASE Value(t)' = direct
        <5>1. Right(x, direct)
          BY <2>2, Direct
        <5>2. LeadsTo(direct)' = LeadsTo(direct)
          BY <1>2, DirectStays
        <5>3. LeadsTo(Value(t))' = LeadsTo(direct)'
          BY <4>1 DEF LeadsTo, Through
        <5> QED BY <5>1, <5>2, <5>3 DEF Right
      <4> QED BY <3>1, <4>1
    <3>3. \A i \in 1 .. Len(pointers'[t]) : Right(FunctionsOf[module[t]][i], pointers[t][i])'
      BY <1>1, <1>2, <1>7, <2>1, <2>6 DEF Right, LeadsTo, Through
    <3> QED BY <2>5, <3>2, <3>3 DEF ThreadRight
  <2> QED BY <1>1, <1>7, <2>1, <2>4, <2>5, <2>6, RightStep1
<1>9. CASE Read(t)
  <2>1. /\ pc[t] = "read" /\ pointers' = [pointers EXCEPT ![t] = Append(@, Value(t))]
        /\ pc' = [pc EXCEPT ![t] = IF n < Len(FunctionsOf[module[t]]) THEN "look" ELSE "install"]
        /\ name' = name /\ base' = base /\ fake_map' = fake_map
    BY <1>5, <1>9 DEF Read
  <2>2. pc'[t] \in {"look", "install"}
    BY <1>2, <2>1 DEF ThreadInv
  <2>3. /\ pointers'[t] = Append(pointers[t], Value(t))
        /\ \A u \in Threads : u # t => pc'[u] = pc[u] /\ pointers'[u] = pointers[u]
    BY <1>2, <2>1 DEF LookTypes, ThreadInv
  <2>4. /\ Len(pointers'[t]) = n /\ pointers'[t][n] = Value(t)
        /\ \A i \in 1 .. Len(pointers[t]) : pointers'[t][i] = pointers[t][i]
        /\ \A i \in 1 .. n : i = n \/ i \in 1 .. Len(pointers[t])
    <3>1. PICK k \in Nat : k = Len(pointers[t]) /\ n = k + 1
      BY <1>4, <1>5
    <3>2. /\ Len(Append(pointers[t], Value(t))) = Len(pointers[t]) + 1
          /\ Append(pointers[t], Value(t))[Len(pointers[t]) + 1] = Value(t)
          /\ \A i \in 1 .. Len(pointers[t]) : Append(pointers[t], Value(t))[i] = pointers[t][i]
      <4>1. Value(t) \in Values
        BY <1>2, ValueTyped
      <4>2. PICK f \in Seq(Values), v \in Values : f = pointers[t] /\ v = Value(t)
        BY <1>4, <4>1
      <4>3. /\ Len(Append(f, v)) = Len(f) + 1 /\ Append(f, v)[Len(f) + 1] = v
            /\ \A i \in 1 .. Len(f) : Append(f, v)[i] = f[i]
        BY <4>2, AppendProperties
      <4> QED BY <4>2, <4>3
    <3>3. /\ Len(pointers'[t]) = k + 1 /\ pointers'[t][k + 1] = Value(t)
          /\ \A i \in 1 .. k : pointers'[t][i] = pointers[t][i]
      BY <2>3, <3>1, <3>2
    <3>4. \A i \in 1 .. k + 1 : i = k + 1 \/ i \in 1 .. k
      OBVIOUS
    <3> QED BY <3>1, <3>3, <3>4
  <2>5. ASSUME InOrder, ~Racing PROVE ThreadRight(t)'
    <3>1. name[t] = x /\ Right(x, Value(t))
      BY <1>5, <1>6, <2>1, <2>5 DEF LookInv, ThreadLook, RightInv, ThreadRight
    <3>2. ASSUME NEW i \in 1 .. n
          PROVE  Right(FunctionsOf[module[t]][i], pointers[t][i])'
      <4>1. CASE i = n
        BY <1>1, <1>2, <1>6, <2>4, <3>1, <4>1 DEF Right, LeadsTo, Through
      <4>2. CASE i \in 1 .. Len(pointers[t])
        BY <1>1, <1>2, <1>7, <2>4, <2>5, <4>2 DEF Right, LeadsTo, Through
      <4> QED BY <2>4, <4>1, <4>2
    <3> QED BY <2>2, <2>4, <3>2 DEF ThreadRight
  <2> QED BY <1>1, <1>7, <2>1, <2>3, <2>5, RightStep1
<1> QED BY <1>8, <1>9

\* Loading begins with no pointers, and installs those it has.
LEMMA LoadRight ==
    ASSUME LoadInv, LookInv, RightInv, NEW t \in Threads,
           \/ \E m \in Modules : NssLoad(t, m)
           \/ OpenFails(t) \/ MarkFailed(t) \/ Open(t) \/ LookFails(t) \/ Install(t) \/ Close(t)
    PROVE  RightInv'
<1>1. UNCHANGED <<relocVars, program, name, base, fake_map, load_lock, answer>>
  BY DEF NssLoad, OpenFails, MarkFailed, Open, LookFails, Install, Close
<1>2. LookTypes /\ ThreadInv /\ ModuleInv /\ slot' = slot
  BY <1>1 DEF LookInv, LoadInv, relocVars
<1>3. pc' = pc \/ \E s \in {"open", "failed", "idle", "look", "close"} : pc' = [pc EXCEPT ![t] = s]
  BY DEF NssLoad, OpenFails, MarkFailed, Open, LookFails, Install, Close
<1>4. \A u \in Threads : u # t =>
        pc'[u] = pc[u] /\ module'[u] = module[u] /\ pointers'[u] = pointers[u]
  BY <1>2 DEF NssLoad, OpenFails, MarkFailed, Open, LookFails, Install, Close, ThreadInv, LookTypes
<1>5. \/ pc'[t] \in {"open", "failed", "idle", "close"}
      \/ pc'[t] = "look" /\ pointers'[t] = <<>>
  BY <1>2 DEF NssLoad, OpenFails, MarkFailed, Open, LookFails, Install, Close, ThreadInv, LookTypes
<1>6. ThreadRight(t)'
  <2>1. pc'[t] = "look" => 1 .. Len(pointers'[t]) = {}
    BY <1>5, NoPlaces
  <2> QED BY <1>5, <2>1 DEF ThreadRight
<1>7. ASSUME InOrder, ~Racing
      PROVE  AnswerRight(t)' /\ \A m \in Modules : PointersRight(m)'
  <2>1. AnswerRight(t)'
    BY <1>1, <1>2, <1>7, ResultsStay DEF RightInv
  <2>2. CASE functions' = functions
    BY <1>2, <1>7, <2>1, <2>2, ResultsStay DEF RightInv
  <2>3. CASE Install(t) /\ functions' = [functions EXCEPT ![module[t]] = pointers[t]]
    <3>1. PICK n \in Modules : n = module[t]
      BY <1>2, <2>3 DEF Install, ThreadInv
    <3>2. functions'[n] = pointers[t] /\ \A m \in Modules : m # n => functions'[m] = functions[m]
      BY <1>2, <2>3, <3>1 DEF LookTypes
    <3>3. \A i \in 1 .. Len(pointers[t]) : Right(FunctionsOf[n][i], pointers[t][i])
      BY <1>7, <2>3, <3>1 DEF RightInv, ThreadRight, Install
    <3>4. PointersRight(n)'
      BY <1>2, <3>2, <3>3 DEF PointersRight, Right, LeadsTo, Through
    <3>5. \A m \in Modules : m # n => PointersRight(m)'
      BY <1>2, <1>7, <3>2, ResultsStay DEF RightInv
    <3> QED BY <2>1, <3>4, <3>5
  <2>4. \/ functions' = functions
        \/ Install(t) /\ functions' = [functions EXCEPT ![module[t]] = pointers[t]]
    BY DEF NssLoad, OpenFails, MarkFailed, Open, LookFails, Install, Close, nssVars
  <2> QED BY <2>2, <2>3, <2>4
<1> QED BY <1>1, <1>4, <1>6, <1>7, RightStep1

\* Every step keeps what was looked up right.
LEMMA RightStep == LoadInv /\ RelocInv /\ LookInv /\ RightInv /\ [Next]_vars => RightInv'
<1> SUFFICES ASSUME LoadInv, RelocInv, LookInv, RightInv, [Next]_vars PROVE RightInv'
  OBVIOUS
<1>1. CASE UNCHANGED vars
  <2>1. UNCHANGED <<order, slot, program, pc, name, base, module, pointers, fake_map,
                    answer, functions>>
    BY <1>1 DEF vars, relocVars, threadVars, nssVars
  <2>2. InOrder' = InOrder /\ Racing' = Racing
    BY <2>1 DEF InOrder, Racing
  <2>3. ASSUME NEW u \in Threads, ThreadRight(u) PROVE ThreadRight(u)'
    BY <2>1, <2>3, OtherRight
  <2>4. /\ \A u \in Threads : AnswerRight(u) => AnswerRight(u)'
        /\ \A m \in Modules : PointersRight(m) => PointersRight(m)'
    BY <2>1, ResultsStay
  <2> QED BY <2>2, <2>3, <2>4 DEF RightInv
<1> QED BY <1>1, StartupRight, DlsymRight, DlsymReturnRight, LoadRight, ReadRight DEF Next, Continue

-----------------------------------------------------------------------------

\* A module that is loaded has been left by a thread, and none begins to load
\* it any more.
LEMMA GoneStep == LoadInv /\ LoaderGone /\ [Next]_vars => LoaderGone'
<1> SUFFICES ASSUME LoadInv, LoaderGone, [Next]_vars PROVE LoaderGone'
  OBVIOUS
<1>0. ThreadInv /\ ModuleInv
  BY DEF LoadInv
<1>1. ASSUME \A u \in Threads : pc'[u] \in Loading => pc[u] \in Loading /\ module'[u] = module[u],
             \A m \in Modules : state'[m] = "loaded" => state[m] = "loaded"
      PROVE  LoaderGone'
  BY <1>1 DEF LoaderGone
<1>2. CASE UNCHANGED vars \/ Startup
  <2>1. pc' = pc /\ module' = module /\ state' = state
    BY <1>2 DEF vars, Startup, threadVars, nssVars
  <2> QED BY <1>1, <2>1
<1>3. ASSUME NEW t \in Threads,
             \/ \E x \in Names : Dlsym(t, x)
             \/ DlsymReturn(t) \/ OpenFails(t) \/ LookFails(t) \/ Open(t) \/ Look(t) \/ Read(t)
             \/ Close(t) \/ (Install(t) /\ state[module[t]] = "loaded")
      PROVE  LoaderGone'
  <2>1. state' = state /\ module' = module
    BY <1>3 DEF Dlsym, DlsymReturn, OpenFails, LookFails, Open, Look, Read, Close, Install, nssVars
  <2>2. \E s : pc' = [pc EXCEPT ![t] = s] /\ (s \in Loading => pc[t] \in Loading)
    BY <1>3 DEF Dlsym, DlsymReturn, OpenFails, LookFails, Open, Look, Read, Close, Install, Loading
  <2>3. \A u \in Threads : pc'[u] \in Loading => pc[u] \in Loading
    BY <1>0, <2>2 DEF ThreadInv
  <2> QED BY <1>1, <2>1, <2>3
<1>4. ASSUME NEW t \in Threads, MarkFailed(t) PROVE LoaderGone'
  <2>1. /\ module' = module /\ pc' = [pc EXCEPT ![t] = "idle"]
        /\ state' = [state EXCEPT ![module[t]] = IF @ = "uninitialized" THEN "failed" ELSE @]
    BY <1>4 DEF MarkFailed
  <2>2. \A u \in Threads : pc'[u] \in Loading => pc[u] \in Loading
    BY <1>0, <2>1 DEF ThreadInv, Loading
  <2>3. \A m \in Modules : state'[m] = "loaded" => state[m] = "loaded"
    BY <1>0, <2>1 DEF ModuleInv
  <2> QED BY <1>1, <2>1, <2>2, <2>3
<1>5. ASSUME NEW t \in Threads, Install(t), state[module[t]] # "loaded" PROVE LoaderGone'
  <2>1. pc'[t] = "idle"
    BY <1>0, <1>5 DEF Install, ThreadInv
  <2> QED BY <2>1 DEF LoaderGone, Loading
<1>6. ASSUME NEW t \in Threads, NEW n \in Modules, NssLoad(t, n) PROVE LoaderGone'
  <2>1. /\ state[n] = "uninitialized" /\ state' = state
        /\ module' = [module EXCEPT ![t] = n]
    BY <1>6 DEF NssLoad, nssVars
  <2>2. ASSUME NEW m \in Modules, state'[m] = "loaded"
        PROVE  \E u \in Threads : ~(module'[u] = m /\ pc'[u] \in Loading)
    <3>1. m # n
      BY <2>1, <2>2
    <3>2. module'[t] = n
      BY <1>0, <2>1 DEF ThreadInv
    <3> QED BY <3>1, <3>2
  <2> QED BY <2>2 DEF LoaderGone
<1> QED BY <1>2, <1>3, <1>4, <1>5, <1>6 DEF Next, Continue

\* The whole invariant.
THEOREM LookupInvariant == Spec => []SInv
<1>1. Init => SInv
  <2>1. Init => LoaderGone
    BY DEF Init, LoaderGone
  <2> QED BY <2>1, LoadInitInv, RelocInitInv, LookInitInv, RightInitInv DEF SInv
<1>2. SInv /\ [Next]_vars => SInv'
  BY BalanceKept, RelocStep, LookStep, RightStep, GoneStep DEF SInv
<1> QED BY <1>1, <1>2, PTL DEF Spec

\* For any functions, threads and NSS modules: when the relocations are in
\* order and every lookup is under dl_load_lock, or in a single thread, what
\* dlsym answers and what module_load keeps leads to the function asked for,
\* although _dl_lookup_symbol_x answers through the one static fake_map.
THEOREM LookupsAreRight == Spec => []LookupsRight
<1>1. SInv => LookupsRight
  BY DEF SInv, RightInv, AnswerRight, LookupsRight
<1> QED BY <1>1, LookupInvariant, PTL

\* A module's library is open at most once for each thread: a thread that has
\* installed the pointers is not among those that are loading it.
LEMMA ReferencesBounded ==
    ASSUME LoadInv, LoaderGone, NEW m \in Modules
    PROVE  refs[m] \in 0 .. Cardinality(Threads)
<1>1. IsFiniteSet(Threads) /\ Holders(m) \subseteq Threads
  BY LookupAssumption DEF Holders
<1>2. refs[m] = (IF state[m] = "loaded" THEN 1 ELSE 0) + Cardinality(Holders(m))
  BY DEF LoadInv, ReferencesBalance
<1>3. /\ Cardinality(Threads) \in Nat /\ Cardinality(Holders(m)) \in Nat
      /\ Cardinality(Holders(m)) <= Cardinality(Threads)
  BY <1>1, FS_Subset, FS_CardinalityType
<1>4. CASE state[m] = "loaded"
  <2>1. PICK t \in Threads : ~(module[t] = m /\ pc[t] \in Loading)
    BY <1>4 DEF LoaderGone
  <2>2. Holders(m) \subseteq Threads \ {t}
    BY <2>1 DEF Holders, Loading
  <2>3. IsFiniteSet(Threads \ {t}) /\ Cardinality(Threads \ {t}) = Cardinality(Threads) - 1
    BY <1>1, FS_RemoveElement
  <2>4. Cardinality(Holders(m)) <= Cardinality(Threads) - 1
    BY <2>2, <2>3, FS_Subset
  <2>5. PICK c \in Nat, h \in Nat : c = Cardinality(Threads) /\ h = Cardinality(Holders(m))
    BY <1>3
  <2>6. refs[m] = 1 + h /\ h <= c - 1
    BY <1>2, <1>4, <2>4, <2>5
  <2> QED BY <2>5, <2>6
<1>5. CASE state[m] # "loaded"
  <2>1. refs[m] = 0 + Cardinality(Holders(m))
    BY <1>2, <1>5
  <2> QED BY <1>3, <2>1
<1> QED BY <1>4, <1>5

\* Every relocation stays within the ten elements of the loader's arrays, the
\* locks have at most one owner, and fake_map always holds an address.
THEOREM LookupTypeCorrect == Spec => []TypeOK
<1>1. SInv => TypeOK
  <2> SUFFICES ASSUME SInv PROVE TypeOK
    OBVIOUS
  <2>1. search \in 0 .. Slots /\ placeholded \in 0 .. Slots /\ Len(plts) = pos
    BY DEF SInv, RelocInv, RelocTypes, Slots
  <2>2. fake_map \in Address /\ {load_lock, list_lock} \subseteq Threads \cup {NoThread}
    BY DEF SInv, LookInv, LookTypes, LoadInv, ThreadInv
  <2>3. \A m \in Modules : refs[m] \in 0 .. Cardinality(Threads)
    BY ReferencesBounded DEF SInv
  <2> QED BY <2>1, <2>2, <2>3 DEF TypeOK
<1> QED BY <1>1, LookupInvariant, PTL
=============================================================================
