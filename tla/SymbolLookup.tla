----------------------------- MODULE SymbolLookup -----------------------------
(***************************************************************************)
(* Symbol lookups of a running program.  _dl_lookup_symbol_x answers for a *)
(* placeholder function by writing the stub's address into the static      *)
(* fake_map and returning a pointer to it; the caller reads the address    *)
(* from there afterwards.  dlsym does both under dl_load_lock and replaces *)
(* functions by the aliases dsym_* of the main program; libc's own         *)
(* __libc_dlsym, with which NSS loads its modules, takes no lock.          *)
(***************************************************************************)
EXTENDS Placeholders

CONSTANTS
    Dsyms,      \* names given to create_header.py as dsym_<name>
    Stem,       \* a name without its last character
    Threads,
    Programs,   \* what each thread may call: dlsym, NSS or neither
    Modules,    \* NSS modules
    FunctionsOf \* the names module_load looks up for each, in order

NoThread == "none"

ASSUME LookupAssumption ==
    /\ NoThread \notin Threads
    /\ Dsyms \subseteq Names
    /\ \A x, y \in Dsyms : Stem[x] = Stem[y] => x = y
    /\ IsFiniteSet(Threads)
    /\ Programs \subseteq [Threads -> {"dlsym", "nss", "none"}]
    /\ FunctionsOf \in [Modules -> Seq(Names) \ {<<>>}]

VARIABLES
    program,
    pc,         \* what a thread is doing
    name,       \* name it is looking up
    base,       \* the link map its lookup returned
    fake_map,   \* fake_map.l_addr
    load_lock,  \* owner of dl_load_lock
    answer,     \* what its last dlsym returned
    module,     \* NSS module it is loading
    pointers,   \* the pointers module_load has looked up so far
    state,      \* nss_module_state of every module
    functions,  \* nss_module.functions
    refs,       \* reference count of every module's library
    list_lock   \* owner of nss_module_list_lock, when kept while waiting

threadVars == <<pc, name, base, module, pointers>>
nssVars    == <<state, functions, refs, list_lock>>
vars == <<relocVars, program, threadVars, fake_map, load_lock, answer, nssVars>>

FakeMap  == <<"fake_map", 0>>
Alias(x) == <<"dsym", x>>
NoCall   == [name |-> NoName, value |-> Null]

Init ==
    /\ RelocInit
    /\ program \in Programs
    /\ pc = [t \in Threads |-> "idle"]
    /\ name = [t \in Threads |-> NoName]
    /\ base = [t \in Threads |-> Null]
    /\ fake_map = Null
    /\ load_lock = NoThread
    /\ answer = [t \in Threads |-> NoCall]
    /\ module = [t \in Threads |-> NoName]
    /\ pointers = [t \in Threads |-> <<>>]
    /\ state = [m \in Modules |-> "uninitialized"]
    /\ functions = [m \in Modules |-> <<>>]
    /\ refs = [m \in Modules |-> 0]
    /\ list_lock = NoThread

\* _dl_lookup_symbol_x; direct is what it returns if x has no stub.
Lookup(t, x, direct) ==
    /\ name' = [name EXCEPT ![t] = x]
    /\ IF Registered(x) # {}
         THEN fake_map' = RegisteredStub(x) /\ base' = [base EXCEPT ![t] = FakeMap]
         ELSE UNCHANGED fake_map /\ base' = [base EXCEPT ![t] = direct]

\* DL_SYMBOL_ADDRESS of what the lookup returned.
Value(t) == IF base[t] = FakeMap THEN fake_map ELSE base[t]

\* do_sym with a handle: a function is replaced by an alias, and there is no
\* answer without one or when malloc fails.  create_header.py and do_sym both
\* name the alias dsym_<stem>.
DoSym(x) ==
    {Null} \cup (IF x \in Found THEN {Alias(y) : y \in {z \in Dsyms : Stem[z] = Stem[x]}}
                ELSE {})

-----------------------------------------------------------------------------
(* dlsym.                                                                  *)

\* Mutant: dl_load_lock is not taken.
DlsymUnlocked(t, x) ==
    /\ Running
    /\ program[t] = "dlsym" /\ pc[t] = "idle"
    /\ \E direct \in DoSym(x) : Lookup(t, x, direct)
    /\ pc' = [pc EXCEPT ![t] = "dlsym"]
    /\ UNCHANGED <<relocVars, program, load_lock, answer, module, pointers, nssVars>>

Dlsym(t, x) ==
    /\ Running
    /\ program[t] = "dlsym" /\ pc[t] = "idle"
    /\ load_lock = NoThread
    /\ load_lock' = t
    /\ \E direct \in DoSym(x) : Lookup(t, x, direct)
    /\ pc' = [pc EXCEPT ![t] = "dlsym"]
    /\ UNCHANGED <<relocVars, program, answer, module, pointers, nssVars>>

DlsymReturn(t) ==
    /\ pc[t] = "dlsym"
    /\ answer' = [answer EXCEPT ![t] = [name |-> name[t], value |-> Value(t)]]
    /\ load_lock' = NoThread
    /\ pc' = [pc EXCEPT ![t] = "idle"]
    /\ UNCHANGED <<relocVars, program, name, base, fake_map, module, pointers, nssVars>>

-----------------------------------------------------------------------------
(* __nss_module_load.                                                      *)

\* The state is read without a lock.  When __asprintf fails, nothing is done.
NssLoad(t, m) ==
    /\ Running
    /\ program[t] = "nss" /\ pc[t] = "idle"
    /\ state[m] = "uninitialized"
    /\ module' = [module EXCEPT ![t] = m]
    /\ pc' \in {pc, [pc EXCEPT ![t] = "open"]}
    /\ UNCHANGED <<relocVars, program, name, base, fake_map, load_lock, answer,
                   pointers, nssVars>>

\* __libc_dlopen and __libc_dlclose wait for dl_load_lock, take it and give it
\* back; module_load waits for nss_module_list_lock before it sets a state.
LoadLockFree == load_lock = NoThread
ListLockFree == list_lock = NoThread

\* __libc_dlopen returns NULL.
OpenFails(t) ==
    /\ pc[t] = "open" /\ LoadLockFree
    /\ pc' = [pc EXCEPT ![t] = "failed"]
    /\ UNCHANGED <<relocVars, program, name, base, fake_map, load_lock, answer,
                   module, pointers, nssVars>>

\* Mutant: the state is not read again under the lock.
MarkFailedBlindly(t) ==
    /\ pc[t] = "failed" /\ ListLockFree
    /\ state' = [state EXCEPT ![module[t]] = "failed"]
    /\ pc' = [pc EXCEPT ![t] = "idle"]
    /\ UNCHANGED <<relocVars, program, name, base, fake_map, load_lock, answer,
                   module, pointers, functions, refs, list_lock>>

MarkFailed(t) ==
    /\ pc[t] = "failed" /\ ListLockFree
    /\ state' = [state EXCEPT ![module[t]] = IF @ = "uninitialized" THEN "failed" ELSE @]
    /\ pc' = [pc EXCEPT ![t] = "idle"]
    /\ UNCHANGED <<relocVars, program, name, base, fake_map, load_lock, answer,
                   module, pointers, functions, refs, list_lock>>

Open(t) ==
    /\ pc[t] = "open" /\ LoadLockFree
    /\ refs' = [refs EXCEPT ![module[t]] = @ + 1]
    /\ pointers' = [pointers EXCEPT ![t] = <<>>]
    /\ pc' = [pc EXCEPT ![t] = "look"]
    /\ UNCHANGED <<relocVars, program, name, base, fake_map, load_lock, answer,
                   module, state, functions, list_lock>>

\* Mutant: the library is not closed.
LookFailsLeaks(t) ==
    /\ pc[t] = "look"
    /\ pc' = [pc EXCEPT ![t] = "idle"]
    /\ UNCHANGED <<relocVars, program, name, base, fake_map, load_lock, answer,
                   module, pointers, nssVars>>

\* __asprintf fails.
LookFails(t) ==
    /\ pc[t] = "look"
    /\ pc' = [pc EXCEPT ![t] = "close"]
    /\ UNCHANGED <<relocVars, program, name, base, fake_map, load_lock, answer,
                   module, pointers, nssVars>>

\* do_dlsym, called by __libc_dlsym.
Look(t) ==
    /\ pc[t] = "look"
    /\ LET x == FunctionsOf[module[t]][Len(pointers[t]) + 1]
       IN Lookup(t, x, IF x \in Found THEN Fn(x) ELSE Null)
    /\ pc' = [pc EXCEPT ![t] = "read"]
    /\ UNCHANGED <<relocVars, program, load_lock, answer, module, pointers, nssVars>>

\* __libc_dlsym reads the address, and module_load stores it.
Read(t) ==
    /\ pc[t] = "read"
    /\ pointers' = [pointers EXCEPT ![t] = Append(@, Value(t))]
    /\ pc' = [pc EXCEPT ![t] = IF Len(pointers[t]) + 1 < Len(FunctionsOf[module[t]])
                                 THEN "look" ELSE "install"]
    /\ UNCHANGED <<relocVars, program, name, base, fake_map, load_lock, answer,
                   module, nssVars>>

\* Mutant: the state is not checked again under the lock.
InstallAgain(t) ==
    /\ pc[t] = "install" /\ ListLockFree
    /\ functions' = [functions EXCEPT ![module[t]] = pointers[t]]
    /\ state' = [state EXCEPT ![module[t]] = "loaded"]
    /\ pc' = [pc EXCEPT ![t] = "idle"]
    /\ UNCHANGED <<relocVars, program, name, base, fake_map, load_lock, answer,
                   module, pointers, refs, list_lock>>

\* The pointers are installed under nss_module_list_lock, once; a thread that
\* comes too late keeps this lock while it waits for the other to close.
Install(t) ==
    /\ pc[t] = "install" /\ ListLockFree
    /\ IF state[module[t]] # "loaded"
         THEN /\ functions' = [functions EXCEPT ![module[t]] = pointers[t]]
              /\ state' = [state EXCEPT ![module[t]] = "loaded"]
              /\ pc' = [pc EXCEPT ![t] = "idle"]
              /\ UNCHANGED <<refs, list_lock>>
         ELSE /\ list_lock' = t
              /\ pc' = [pc EXCEPT ![t] = "close"]
              /\ UNCHANGED <<functions, state, refs>>
    /\ UNCHANGED <<relocVars, program, name, base, fake_map, load_lock, answer,
                   module, pointers>>

\* Mutant: nss_module_list_lock is not given back.
CloseKeepsLock(t) ==
    /\ pc[t] = "close" /\ LoadLockFree
    /\ refs' = [refs EXCEPT ![module[t]] = @ - 1]
    /\ pc' = [pc EXCEPT ![t] = "idle"]
    /\ UNCHANGED <<relocVars, program, name, base, fake_map, load_lock, answer,
                   module, pointers, state, functions, list_lock>>

\* __libc_dlclose, from either place, and the return of module_load.
Close(t) ==
    /\ pc[t] = "close" /\ LoadLockFree
    /\ refs' = [refs EXCEPT ![module[t]] = @ - 1]
    /\ list_lock' = IF list_lock = t THEN NoThread ELSE list_lock
    /\ pc' = [pc EXCEPT ![t] = "idle"]
    /\ UNCHANGED <<relocVars, program, name, base, fake_map, load_lock, answer,
                   module, pointers, state, functions>>

Continue(t) ==
    \/ DlsymReturn(t)
    \/ OpenFails(t) \/ MarkFailed(t)
    \/ Open(t)
    \/ LookFails(t) \/ Look(t)
    \/ Read(t)
    \/ Install(t)
    \/ Close(t)

Startup ==
    Relocate /\ UNCHANGED <<program, threadVars, fake_map, load_lock, answer, nssVars>>

Next ==
    \/ Startup
    \/ \E t \in Threads :
          \/ \E x \in Names : Dlsym(t, x)
          \/ \E m \in Modules : NssLoad(t, m)
          \/ Continue(t)

\* Threads that have begun a lookup are scheduled.
Spec == Init /\ [][Next]_vars /\ \A t \in Threads : WF_vars(Continue(t))

-----------------------------------------------------------------------------
(* Correctness.                                                            *)

TypeOK ==
    /\ search \in 0 .. Slots /\ placeholded \in 0 .. Slots
    /\ Len(plts) = pos
    /\ fake_map \in Address
    /\ {load_lock, list_lock} \subseteq Threads \cup {NoThread}
    /\ \A m \in Modules : refs[m] \in 0 .. Cardinality(Threads)

\* A lookup of x may give an address that leads to x, x's alias, or NULL.
Right(x, v) == LeadsTo(v) \in {Fn(x), Alias(x), Null}

\* A thread that takes no lock runs beside another.
Racing == \E t, u \in Threads : t # u /\ program[t] = "nss" /\ program[u] # "none"

PointersRight(m) ==
    \A i \in 1 .. Len(functions[m]) : Right(FunctionsOf[m][i], functions[m][i])

\* The alias of another function has the name that x's would have.
Clashes(x) == \E y \in Dsyms \ {x} : Stem[y] = Stem[x]

\* With the relocations in order and every lookup under the lock, or in a
\* single thread, what dlsym answers and what NSS keeps leads to the function
\* that was asked for, although all lookups share fake_map, and unless dlsym
\* is asked for a function that differs from an aliased one in its last letter.
LookupsRight ==
    InOrder /\ ~Racing =>
        /\ \A t \in Threads :
              \/ answer[t] # NoCall /\ Clashes(answer[t].name)
              \/ Right(answer[t].name, answer[t].value)
        /\ \A m \in Modules : PointersRight(m)

\* nss_module.c says that loading a module looks up all the interface APIs
\* and caches the results: a cached pointer leads to the API it is for.
CachedPointersRight == InOrder => \A m \in Modules : PointersRight(m)

\* The threads that have the library of a module open and are not done.
Holders(m) == {t \in Threads : module[t] = m /\ pc[t] \in {"look", "read", "install", "close"}}

\* A module's library has one reference for its installed pointers and one
\* for each thread that is loading it, so it is never unloaded under either.
ReferencesBalance ==
    \A m \in Modules :
        refs[m] = (IF state[m] = "loaded" THEN 1 ELSE 0) + Cardinality(Holders(m))

\* Whatever threads race to load a module, or fail to, the pointers other
\* threads already use do not change (module_load's double-checked locking).
LoadedIsFinal ==
    [][\A m \in Modules : state[m] = "loaded" =>
         state'[m] = "loaded" /\ functions'[m] = functions[m]]_vars

\* Every lookup, and every loading of a module, comes to an end, although a
\* thread that is too late waits for dl_load_lock with nss_module_list_lock in
\* its hands.  Nothing makes the locks fair: a thread may wait for ever, but
\* only while others take dl_load_lock and give it back again and again.
LookupsEnd ==
    \A t \in Threads :
        \/ []<>(pc[t] = "idle")
        \/ []<>LoadLockFree /\ []<>(load_lock \notin {NoThread, t})

=============================================================================
