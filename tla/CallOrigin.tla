----------------------------- MODULE CallOrigin -----------------------------
(***************************************************************************)
(* The pass BitMasks: which form an indirect call gets.  The forms are the *)
(* calls of IndirectCall: the masked call, the call that asks the callback *)
(* table when the target is outside, the call that always asks.            *)
(*                                                                         *)
(* reportStructOriginOfIndirCalls tries a few shapes of code and then      *)
(* resolveChainForAllowedStruct, a depth first search through the operands *)
(* of loads, phis, selects and address computations, for a structure that  *)
(* may hold callbacks.  The search keeps one set of visited values and     *)
(* gives up below a depth.  Values are nodes; a node is marked when one of *)
(* the tests on the value itself (its type, a debug record, the type of    *)
(* the field it is loaded from) finds such a structure.                    *)
(***************************************************************************)
EXTENDS Naturals, Sequences, FiniteSets

CONSTANTS
    Nodes, Root,
    Cases,      \* what the called operand may be computed from, and the
                \* circumstances of the call
    MaxDepth    \* maxDepth

ASSUME ChainAssumption ==
    /\ Root \in Nodes /\ IsFiniteSet(Nodes) /\ MaxDepth \in Nat
    /\ \A c \in Cases :
          /\ c.chain \in [operands : [Nodes -> Seq(Nodes)], marked : SUBSET Nodes]
          /\ c.call \in [speedtest : BOOLEAN, loader : BOOLEAN, finiFile : BOOLEAN,
                         fn : {"exempt", "tsd", "fini", "libc", "other"},
                         annotated : BOOLEAN, global : BOOLEAN,
                         shape : {"function", "match", "rtld", "unknown"}]

VARIABLES
    chain, call,
    stack,      \* the recursion: values with the operand to look at next
    visited,
    origin,     \* what reportStructOriginOfIndirCalls returns; 3 before
    form        \* what the call becomes

vars == <<chain, call, stack, visited, origin, form>>

Init ==
    /\ \E c \in Cases : chain = c.chain /\ call = c.call
    /\ stack = <<>>
    /\ visited = {}
    /\ origin = 3
    /\ form = "pending"

-----------------------------------------------------------------------------

\* Returns of run() before the functions are looked at, and the functions it
\* passes over: in the loader only dl-call_fini.c is instrumented.
Skipped ==
    \/ call.speedtest
    \/ call.loader /\ ~call.finiFile
    \/ call.fn = "exempt"

\* Calls in glibc that never stay in it.
SpecialForm ==
    CASE call.fn = "tsd"                 -> "threadkey_callback_table"
      [] call.fn = "fini" /\ call.loader -> "fini_callback_table"
      [] call.fn = "libc"                -> "callback_table"
      [] OTHER                           -> "none"

Decide ==
    /\ form = "pending" /\ origin = 3 /\ stack = <<>>
    /\ \/ Skipped /\ form' = "untouched"
       \/ ~Skipped /\ SpecialForm # "none" /\ form' = SpecialForm
    /\ UNCHANGED <<chain, call, stack, visited, origin>>

\* reportStructOriginOfIndirCalls, up to the search.
Report ==
    /\ form = "pending" /\ origin = 3 /\ stack = <<>>
    /\ ~Skipped /\ SpecialForm = "none"
    /\ \/ /\ call.shape # "unknown"
          /\ origin' = CASE call.shape = "function" -> 0
                         [] call.shape = "match"    -> 1
                         [] call.shape = "rtld"     -> 2
          /\ UNCHANGED <<stack, visited>>
       \/ /\ call.shape = "unknown"
          /\ visited' = {Root}
          /\ IF Root \in chain.marked
             THEN origin' = 1 /\ UNCHANGED stack
             ELSE stack' = <<[node |-> Root, next |-> 1]>> /\ UNCHANGED origin
    /\ UNCHANGED <<chain, call, form>>

Top   == stack[Len(stack)]
Depth == Len(stack) - 1

\* Mutants: one operand too deep, one too few, and no set of visited values.
CutLate(v)   == Depth > MaxDepth \/ v \in visited
CutEarly(v)  == Depth + 1 >= MaxDepth \/ v \in visited
CutDepth(v)  == Depth + 1 > MaxDepth

\* The recursive call returns 0 at once.
Cut(v) == Depth + 1 > MaxDepth \/ v \in visited

\* The recursive call for the next operand.
Descend ==
    /\ stack # <<>>
    /\ Top.next <= Len(chain.operands[Top.node])
    /\ LET v    == chain.operands[Top.node][Top.next]
           here == [stack EXCEPT ![Len(stack)].next = @ + 1]
       IN \/ /\ Cut(v)
             /\ stack' = here
             /\ UNCHANGED <<visited, origin>>
          \/ /\ ~Cut(v)
             /\ visited' = visited \cup {v}
             /\ IF v \in chain.marked
                THEN stack' = <<>> /\ origin' = 1
                ELSE /\ stack' = Append(here, [node |-> v, next |-> 1])
                     /\ UNCHANGED origin
    /\ UNCHANGED <<chain, call, form>>

\* No operand is left: 0, to the caller or, from the root, to the pass.
Return ==
    /\ stack # <<>>
    /\ Top.next > Len(chain.operands[Top.node])
    /\ stack' = SubSeq(stack, 1, Len(stack) - 1)
    /\ origin' = IF Len(stack) = 1 THEN 0 ELSE origin
    /\ UNCHANGED <<chain, call, visited, form>>

\* Mutant: the global variables are consulted instead of the annotation.
OrdinaryFormGlobals ==
    IF origin = 2 THEN "untouched"
    ELSE IF origin = 1 \/ (origin = 0 /\ call.global) THEN "maybe" ELSE "plain"

\* A call through _rtld_global_ro is left alone.  A call in an annotated
\* function, from such a structure or from a listed global variable asks.
OrdinaryForm ==
    IF origin = 2 THEN "untouched"
    ELSE IF call.annotated \/ origin = 1 \/ (origin = 0 /\ call.global)
         THEN "maybe" ELSE "plain"

Instrument ==
    /\ form = "pending" /\ origin # 3
    /\ form' = OrdinaryForm
    /\ UNCHANGED <<chain, call, stack, visited, origin>>

Next == Decide \/ Report \/ Descend \/ Return \/ Instrument

Spec == Init /\ [][Next]_vars

-----------------------------------------------------------------------------

\* The recursion holds a path of distinct values.
TypeOK ==
    /\ \A i \in DOMAIN stack :
          /\ stack[i].node \in visited
          /\ stack[i].next \in 1 .. Len(chain.operands[stack[i].node]) + 1
          /\ \A j \in DOMAIN stack : stack[i].node = stack[j].node => i = j
    /\ visited \subseteq Nodes
    /\ origin \in 0 .. 3
    /\ form \in {"pending", "untouched", "plain", "maybe", "callback_table",
                 "fini_callback_table", "threadkey_callback_table"}

\* A path from the called operand is the sequence of the values after it.
At(q, i) == IF i = 0 THEN Root ELSE q[i]

IsPath(q) ==
    /\ \A i \in DOMAIN q : \E k \in DOMAIN chain.operands[At(q, i - 1)] :
          chain.operands[At(q, i - 1)][k] = q[i]
    /\ \A i, j \in DOMAIN q : q[i] = q[j] => i = j

\* Paths without repetition.
Paths ==
    {q \in UNION {[1 .. n -> Nodes \ {Root}] : n \in 0 .. Cardinality(Nodes) - 1} :
        IsPath(q)}

PathsTo(v) == {q \in Paths : At(q, Len(q)) = v}

Near(v) == \E q \in PathsTo(v) : Len(q) <= MaxDepth

\* The value is near on every path, or no path is shorter than another.
Settled(v) ==
    \/ \A q \in PathsTo(v) : Len(q) <= MaxDepth
    \/ \A p, q \in PathsTo(v) : Len(p) = Len(q)

\* The search finds only structures the called operand is computed from in at
\* most MaxDepth steps.
ChainSound ==
    call.shape = "unknown" /\ origin = 1 => \E v \in chain.marked : Near(v)

\* It finds every such structure, loops through phis included, unless a value
\* is reached first on a path that is cut and later on a short one: the visited
\* set is shared, and the second visit is refused.
ChainComplete ==
    call.shape = "unknown" /\ origin = 0 /\ (\A v \in Nodes : Settled(v)) =>
        \A v \in chain.marked : ~Near(v)

\* An instrumented call keeps to its library only if nothing says that it may
\* be given a callback, and is left as it was only by one of the exceptions.
AsksWhenItMust ==
    /\ form = "plain" =>
          /\ ~call.annotated /\ ~call.global /\ call.shape # "match"
          /\ \/ call.shape = "function"
             \/ \E v \in Nodes : ~Settled(v)
             \/ \A v \in chain.marked : ~Near(v)
    /\ form = "untouched" =>
          call.speedtest \/ call.loader \/ call.fn = "exempt" \/ call.shape = "rtld"

=============================================================================
