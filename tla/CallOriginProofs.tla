--------------------------- MODULE CallOriginProofs ---------------------------
(***************************************************************************)
(* The bounded search of the pass BitMasks, for every graph of values and  *)
(* every depth: what it finds is near, and what is near it finds, unless a *)
(* value is reached both on a path that is cut and on a short one.         *)
(***************************************************************************)
EXTENDS CallOrigin, Integers, FiniteSetTheorems, SequenceTheorems, WellFoundedInduction, TLAPS

Ops(u) == chain.operands[u]

\* u hands its value on from v, in a load, a phi, a select or an address.
Operand(u, v) == \E k \in DOMAIN Ops(u) : Ops(u)[k] = v

\* A path that is just too long leads to w.
Far(w) == \E q \in PathsTo(w) : Len(q) = MaxDepth + 1

Forms == {"pending", "untouched", "plain", "maybe", "callback_table",
          "fini_callback_table", "threadkey_callback_table"}

\* A call of the recursion.
Frames == [node : Nodes, next : Nat \ {0}]

Types ==
    /\ chain \in [operands : [Nodes -> Seq(Nodes)], marked : SUBSET Nodes]
    /\ call \in [speedtest : BOOLEAN, loader : BOOLEAN, finiFile : BOOLEAN,
                 fn : {"exempt", "tsd", "fini", "libc", "other"},
                 annotated : BOOLEAN, global : BOOLEAN,
                 shape : {"function", "match", "rtld", "unknown"}]
    /\ stack \in Seq(Frames)
    /\ visited \subseteq Nodes
    /\ origin \in 0 .. 3
    /\ form \in Forms

\* The recursion holds a path from the root, no longer than allowed.
StackInv ==
    /\ stack # <<>> => stack[1].node = Root
    /\ Len(stack) <= MaxDepth + 1
    /\ \A i \in 1 .. Len(stack) :
          /\ stack[i].node \in visited
          /\ stack[i].next <= Len(Ops(stack[i].node)) + 1
          /\ i > 1 => Operand(stack[i - 1].node, stack[i].node)
    /\ \A i, j \in 1 .. Len(stack) : stack[i].node = stack[j].node => i = j

\* The operand number k of u has been looked at.
Seen(u, k) == \A i \in 1 .. Len(stack) : stack[i].node = u => k < stack[i].next

\* Operands that have been looked at were visited then, or cut, and those are
\* far; nothing visited is marked.
ExploredInv ==
    origin # 1 =>
        /\ visited \cap chain.marked = {}
        /\ \A u \in visited : \A k \in DOMAIN Ops(u) :
              Seen(u, k) => Ops(u)[k] \in visited \/ Far(Ops(u)[k])

\* Where the pass is.
PhaseInv ==
    /\ stack # <<>> => origin = 3 /\ form = "pending" /\ call.shape = "unknown"
    /\ origin = 3 /\ stack = <<>> => visited = {}
    /\ origin # 3 /\ call.shape = "unknown" => origin \in {0, 1} /\ Root \in visited
    /\ origin = 0 => call.shape \in {"function", "unknown"}
    /\ origin = 2 => call.shape = "rtld"
    /\ call.shape = "match" => origin \in {1, 3}

\* What the form of a call says about it.
FormInv ==
    /\ form = "plain" => origin = 0 /\ ~call.annotated /\ ~call.global
    /\ form = "untouched" => Skipped \/ origin = 2

IInv == Types /\ StackInv /\ ExploredInv /\ PhaseInv /\ FormInv /\ ChainSound

-----------------------------------------------------------------------------

\* A set of numbers that is not empty has a least element.
LEMMA Least ==
    ASSUME NEW S \in SUBSET Nat, S # {}
    PROVE  \E n \in S : \A m \in S : n <= m
<1>1. IsWellFoundedOn(OpToRel(<, Nat), Nat)
  BY NatLessThanWellFounded
<1>2. PICK n \in S : \A m \in S : ~(<<m, n>> \in OpToRel(<, Nat))
  BY <1>1, WFMin
<1>3. ASSUME NEW m \in S PROVE n <= m
  <2>1. <<m, n>> \in Nat \X Nat
    OBVIOUS
  <2>2. ~(m < n)
    BY <1>2, <2>1 DEF OpToRel
  <2> QED BY <2>2
<1> QED BY <1>3

\* A sequence of values that repeats none is a path if each value is an
\* operand of the one before: no such sequence is too long for Paths.
LEMMA PathIsPath ==
    ASSUME NEW n \in Nat, NEW q \in [1 .. n -> Nodes \ {Root}], IsPath(q)
    PROVE  q \in Paths /\ Len(q) = n
<1>1. IsFiniteSet(Nodes \ {Root}) /\ Cardinality(Nodes \ {Root}) = Cardinality(Nodes) - 1
  BY ChainAssumption, FS_RemoveElement
<1>2. q \in Injection(1 .. n, Nodes \ {Root})
  BY DEF IsPath, Injection, IsInjective
<1>3. Cardinality(1 .. n) <= Cardinality(Nodes \ {Root})
  BY <1>1, <1>2, FS_Injection
<1>4. Cardinality(1 .. n) = n
  <2>1. Cardinality(1 .. n) = IF 1 > n THEN 0 ELSE n - 1 + 1
    BY FS_Interval
  <2> QED BY <2>1
<1>5. Cardinality(Nodes) \in Nat
  BY ChainAssumption, FS_CardinalityType
<1>6. n \in 0 .. Cardinality(Nodes) - 1
  BY <1>1, <1>3, <1>4, <1>5
<1>7. Len(q) = n
  OBVIOUS
<1> QED BY <1>6, <1>7 DEF Paths

\* What is on the stack are values with a number of an operand.
LEMMA StackTypes ==
    ASSUME Types
    PROVE  /\ Len(stack) \in Nat
           /\ stack # <<>> => Len(stack) \in Nat \ {0}
           /\ \A i \in 1 .. Len(stack) :
                 /\ stack[i] \in Frames
                 /\ stack[i].node \in Nodes
                 /\ stack[i].next \in Nat \ {0}
                 /\ Ops(stack[i].node) \in Seq(Nodes)
<1>1. stack \in Seq(Frames)
  BY DEF Types
<1>2. ASSUME NEW i \in 1 .. Len(stack)
      PROVE  /\ stack[i] \in Frames
             /\ stack[i].node \in Nodes
             /\ stack[i].next \in Nat \ {0}
             /\ Ops(stack[i].node) \in Seq(Nodes)
  <2>1. stack[i] \in Frames
    BY <1>1
  <2>2. stack[i].node \in Nodes /\ stack[i].next \in Nat \ {0}
    BY <2>1 DEF Frames
  <2>3. chain.operands \in [Nodes -> Seq(Nodes)]
    BY DEF Types
  <2> QED BY <2>1, <2>2, <2>3 DEF Ops
<1>3. Len(stack) \in Nat /\ (stack # <<>> => Len(stack) \in Nat \ {0})
  BY <1>1
<1> QED BY <1>2, <1>3

\* The values on the stack, and an operand of the last one that is not among
\* them, are a path to that operand.
LEMMA StackIsPath ==
    ASSUME Types, StackInv, stack # <<>>, NEW v \in Nodes, Operand(Top.node, v),
           \A i \in 1 .. Len(stack) : stack[i].node # v
    PROVE  \E q \in PathsTo(v) : Len(q) = Len(stack)
<1> DEFINE n == Len(stack)
           q == [i \in 1 .. n |-> IF i = n THEN v ELSE stack[i + 1].node]
<1>1. n \in Nat \ {0} /\ \A i \in 1 .. n : stack[i].node \in Nodes
  BY StackTypes
<1>2. stack[1].node = Root
  BY DEF StackInv
<1>3. \A i \in 1 .. n : At(q, i - 1) = stack[i].node
  BY <1>1, <1>2 DEF At
<1>4. q \in [1 .. n -> Nodes \ {Root}]
  <2>1. ASSUME NEW i \in 1 .. n PROVE q[i] \in Nodes \ {Root}
    <3>1. CASE i = n
      BY <1>1, <1>2, <3>1
    <3>2. CASE i < n
      <4>1. i + 1 \in 1 .. n /\ 1 \in 1 .. n /\ i + 1 # 1
        BY <1>1, <3>2
      <4>2. stack[i + 1].node # stack[1].node
        BY <4>1 DEF StackInv
      <4> QED BY <1>1, <1>2, <3>2, <4>1, <4>2
    <3> QED BY <1>1, <3>1, <3>2
  <2> QED BY <2>1
<1>5. ASSUME NEW i \in DOMAIN q PROVE Operand(At(q, i - 1), q[i])
  <2>1. CASE i = n
    BY <1>1, <1>3, <2>1 DEF Top
  <2>2. CASE i < n
    <3>1. i + 1 \in 1 .. n /\ i + 1 > 1 /\ i + 1 - 1 = i
      BY <1>1, <2>2
    <3>2. Operand(stack[i].node, stack[i + 1].node)
      BY <3>1 DEF StackInv
    <3> QED BY <1>1, <1>3, <2>2, <3>2
  <2> QED BY <1>1, <2>1, <2>2
<1>6. ASSUME NEW i \in DOMAIN q, NEW j \in DOMAIN q, q[i] = q[j] PROVE i = j
  <2>1. CASE i < n /\ j < n
    <3>1. i + 1 \in 1 .. n /\ j + 1 \in 1 .. n
      BY <1>1, <2>1
    <3>2. stack[i + 1].node = stack[j + 1].node
      BY <1>6, <2>1
    <3> QED BY <3>1, <3>2 DEF StackInv
  <2>2. CASE i = n /\ j < n
    <3>1. j + 1 \in 1 .. n /\ stack[j + 1].node = v
      BY <1>1, <1>6, <2>2
    <3> QED BY <3>1
  <2>3. CASE i < n /\ j = n
    <3>1. i + 1 \in 1 .. n /\ stack[i + 1].node = v
      BY <1>1, <1>6, <2>3
    <3> QED BY <3>1
  <2> QED BY <1>1, <2>1, <2>2, <2>3
<1>7. IsPath(q)
  BY <1>5, <1>6 DEF IsPath, Operand, Ops
<1>8. q \in Paths /\ Len(q) = n
  BY <1>1, <1>4, <1>7, PathIsPath
<1>9. At(q, Len(q)) = v
  <2>1. q[n] = v /\ n # 0
    BY <1>1
  <2> HIDE DEF q
  <2> QED BY <1>8, <2>1 DEF At
<1> QED BY <1>8, <1>9 DEF PathsTo

\* A step that leaves the graph alone leaves its paths alone.
LEMMA PathsStay ==
    ASSUME chain' = chain
    PROVE  /\ \A w : PathsTo(w)' = PathsTo(w)
           /\ \A w : Far(w)' <=> Far(w)
           /\ \A w : Near(w)' <=> Near(w)
<1>1. Paths' = Paths
  BY DEF Paths, IsPath, At
<1>2. \A w : PathsTo(w)' = PathsTo(w)
  BY <1>1 DEF PathsTo, At
<1> QED BY <1>2 DEF Far, Near

\* The next operand is looked at and the search stays where it is: it was
\* visited before, or the stack with it is a path that is too long.
LEMMA CutStep ==
    ASSUME IInv, Descend, Cut(Ops(Top.node)[Top.next]),
           stack' = [stack EXCEPT ![Len(stack)].next = @ + 1],
           UNCHANGED <<visited, origin>>
    PROVE  IInv'
<1> DEFINE n == Len(stack)
           v == Ops(Top.node)[Top.next]
<1>0. UNCHANGED <<chain, call, visited, origin, form>>
  BY DEF Descend
<1>1. n \in Nat \ {0} /\ Top = stack[n] /\ Top.next <= Len(Ops(Top.node))
  BY StackTypes DEF IInv, Descend, Top, Ops
<1>2. /\ \A i \in 1 .. n : stack[i] \in Frames /\ stack[i].node \in Nodes
                            /\ stack[i].next \in Nat \ {0}
      /\ Ops(Top.node) \in Seq(Nodes) /\ Top.next \in Nat \ {0}
  BY <1>1, StackTypes DEF IInv
<1>3. v \in Nodes /\ Operand(Top.node, v)
  BY <1>1, <1>2 DEF Operand
<1>4. Len(stack') = n /\ stack' \in Seq(Frames)
  <2>1. stack \in Seq(Frames)
    BY DEF IInv, Types
  <2>2. [stack[n] EXCEPT !.next = @ + 1] \in Frames
    BY <1>1, <1>2 DEF Frames
  <2> QED BY <1>1, <2>1, <2>2
<1>5. \A i \in 1 .. n :
         /\ stack'[i].node = stack[i].node
         /\ stack'[i].next = IF i = n THEN stack[i].next + 1 ELSE stack[i].next
  <2>1. ASSUME NEW i \in 1 .. n, i # n
        PROVE  stack'[i] = stack[i]
    BY <2>1, <1>1
  <2>2. stack'[n] = [stack[n] EXCEPT !.next = @ + 1]
    <3>1. stack \in Seq(Frames)
      BY DEF IInv, Types
    <3> QED BY <1>1, <3>1
  <2>3. stack[n] \in Frames
    BY <1>1, <1>2
  <2>4. stack'[n].node = stack[n].node /\ stack'[n].next = stack[n].next + 1
    BY <2>2, <2>3 DEF Frames
  <2> QED BY <2>1, <2>4
<1>6. Types'
  BY <1>0, <1>4 DEF IInv, Types
<1>7. StackInv'
  <2>1. stack' # <<>> /\ stack'[1].node = Root
    BY <1>1, <1>4, <1>5 DEF IInv, StackInv
  <2>2. ASSUME NEW i \in 1 .. n
        PROVE  /\ stack'[i].node \in visited
               /\ stack'[i].next <= Len(Ops(stack'[i].node)) + 1
               /\ i > 1 => Operand(stack'[i - 1].node, stack'[i].node)
    <3>1. /\ stack[i].node \in visited
          /\ stack[i].next <= Len(Ops(stack[i].node)) + 1
          /\ i > 1 => Operand(stack[i - 1].node, stack[i].node)
      BY DEF IInv, StackInv
    <3>2. i > 1 => i - 1 \in 1 .. n
      BY <1>1
    <3> QED BY <1>1, <1>2, <1>5, <3>1, <3>2
  <2>3. \A i, j \in 1 .. n : stack'[i].node = stack'[j].node => i = j
    BY <1>5 DEF IInv, StackInv
  <2>4. n <= MaxDepth + 1
    BY DEF IInv, StackInv
  <2> QED BY <1>0, <1>4, <2>1, <2>2, <2>3, <2>4 DEF StackInv, Operand, Ops
<1>8. ExploredInv'
  <2>1. SUFFICES ASSUME origin # 1, NEW u \in visited, NEW k \in DOMAIN Ops(u), Seen(u, k)'
                 PROVE  Ops(u)[k] \in visited \/ Far(Ops(u)[k])
    BY <1>0, PathsStay DEF ExploredInv, IInv, Ops
  <2>2. CASE Seen(u, k)
    BY <2>1, <2>2 DEF IInv, ExploredInv
  <2>3. CASE ~Seen(u, k)
    <3>1. PICK i \in 1 .. n : stack[i].node = u /\ ~(k < stack[i].next)
      BY <2>3 DEF Seen
    <3>2. k < stack'[i].next
      BY <1>4, <1>5, <2>1, <3>1 DEF Seen
    <3>3. u \in Nodes /\ Ops(u) \in Seq(Nodes)
      BY <3>1, StackTypes DEF IInv
    <3>4. i = n /\ k = stack[n].next
      BY <1>1, <1>2, <1>5, <3>1, <3>2, <3>3
    <3>5. Ops(u)[k] = v /\ Top.node = u
      BY <1>1, <3>1, <3>4
    <3>6. CASE v \in visited
      BY <3>5, <3>6
    <3>7. CASE v \notin visited
      <4>1. \A j \in 1 .. Len(stack) : stack[j].node # v
        BY <3>7 DEF IInv, StackInv
      <4>2. n + 1 > MaxDepth + 1 /\ n <= MaxDepth + 1
        BY <3>7, <1>1, ChainAssumption DEF Cut, Depth, IInv, StackInv
      <4>3. PICK q \in PathsTo(v) : Len(q) = n
        BY <1>1, <1>3, <4>1, StackIsPath DEF IInv
      <4> QED BY <1>1, <3>5, <4>2, <4>3, ChainAssumption DEF Far
    <3> QED BY <3>6, <3>7
  <2> QED BY <2>2, <2>3
<1>9. PhaseInv' /\ FormInv' /\ ChainSound'
  BY <1>0, <1>1, <1>4, PathsStay DEF IInv, PhaseInv, FormInv, ChainSound, Skipped
<1> QED BY <1>6, <1>7, <1>8, <1>9 DEF IInv

\* What a sequence is with one more element.
LEMMA AppendFacts ==
    ASSUME NEW S, NEW s \in Seq(S), NEW x \in S
    PROVE  /\ Append(s, x) \in Seq(S) /\ Len(Append(s, x)) = Len(s) + 1
           /\ Append(s, x)[Len(s) + 1] = x
           /\ \A i \in 1 .. Len(s) : Append(s, x)[i] = s[i]
BY AppendProperties

\* What a sequence is without its last element.
LEMMA FrontFacts ==
    ASSUME NEW S, NEW s \in Seq(S), Len(s) > 0
    PROVE  /\ SubSeq(s, 1, Len(s) - 1) \in Seq(S)
           /\ Len(SubSeq(s, 1, Len(s) - 1)) = Len(s) - 1
           /\ \A i \in 1 .. Len(s) - 1 : SubSeq(s, 1, Len(s) - 1)[i] = s[i]
<1> DEFINE t == SubSeq(s, 1, Len(s) - 1)
<1>1. 1 \in Int /\ Len(s) - 1 \in Int /\ \A i \in 1 .. Len(s) - 1 : s[i] \in S
  OBVIOUS
<1>2. /\ t \in Seq(S)
      /\ Len(t) = IF 1 <= Len(s) - 1 THEN Len(s) - 1 - 1 + 1 ELSE 0
      /\ \A i \in 1 .. Len(s) - 1 - 1 + 1 : t[i] = s[1 + i - 1]
  BY <1>1, SubSeqProperties
<1> HIDE DEF t
<1>3. Len(s) \in Nat /\ Len(s) - 1 - 1 + 1 = Len(s) - 1
  OBVIOUS
<1>4. \A i \in 1 .. Len(s) - 1 : t[i] = s[i]
  <2>1. \A i \in 1 .. Len(s) - 1 : 1 + i - 1 = i
    OBVIOUS
  <2> QED BY <1>2, <1>3, <2>1
<1>5. Len(t) = Len(s) - 1
  <2>1. (IF 1 <= Len(s) - 1 THEN Len(s) - 1 - 1 + 1 ELSE 0) = Len(s) - 1
    <3> DEFINE n == Len(s)
    <3>1. n \in Nat /\ n > 0
      OBVIOUS
    <3> HIDE DEF n
    <3>2. (IF 1 <= n - 1 THEN n - 1 - 1 + 1 ELSE 0) = n - 1
      BY <3>1
    <3> QED BY <3>2 DEF n
  <2> QED BY <1>2, <2>1
<1> QED BY <1>2, <1>4, <1>5 DEF t

\* The call for v on top of the stack.
Pushes(v) ==
    stack' = Append([stack EXCEPT ![Len(stack)].next = @ + 1], [node |-> v, next |-> 1])

\* The search goes on from an operand that was not visited yet: the path grows,
\* and nothing of the new value has been looked at.
LEMMA PushStep ==
    ASSUME IInv, Descend,
           NEW v, v = Ops(Top.node)[Top.next], ~Cut(v), v \notin chain.marked,
           Pushes(v), visited' = visited \cup {v}, UNCHANGED origin
    PROVE  IInv'
<1> DEFINE n == Len(stack)
<1>0. UNCHANGED <<chain, call, origin, form>>
  BY DEF Descend
<1>1. n \in Nat \ {0} /\ Top = stack[n] /\ Top.next <= Len(Ops(Top.node))
  BY StackTypes DEF IInv, Descend, Top, Ops
<1>2. /\ \A i \in 1 .. n : stack[i] \in Frames /\ stack[i].node \in Nodes
                            /\ stack[i].next \in Nat \ {0}
                            /\ Ops(stack[i].node) \in Seq(Nodes)
      /\ Ops(Top.node) \in Seq(Nodes) /\ Top.next \in Nat \ {0}
  BY <1>1, StackTypes DEF IInv
<1>3. v \in Nodes /\ Operand(Top.node, v) /\ Ops(v) \in Seq(Nodes)
  <2>1. v \in Nodes /\ Operand(Top.node, v)
    BY <1>1, <1>2 DEF Operand
  <2> QED BY <2>1 DEF IInv, Types, Ops
<1>4. v \notin visited /\ n <= MaxDepth
  BY <1>1, ChainAssumption DEF Cut, Depth
<1>5. /\ stack' \in Seq(Frames)
      /\ Len(stack') = n + 1
      /\ stack'[n + 1] = [node |-> v, next |-> 1]
      /\ \A i \in 1 .. n :
            /\ stack'[i].node = stack[i].node
            /\ stack'[i].next = IF i = n THEN stack[i].next + 1 ELSE stack[i].next
  <2> DEFINE here == [stack EXCEPT ![n].next = @ + 1]
             top  == [node |-> v, next |-> 1]
  <2>1. stack \in Seq(Frames)
    BY DEF IInv, Types
  <2>0. stack[n] \in Frames
    BY <1>1, <1>2
  <2>2. stack[n] \in Frames /\ [stack[n] EXCEPT !.next = @ + 1] \in Frames
    BY <2>0 DEF Frames
  <2>3. here \in Seq(Frames) /\ Len(here) = n
    BY <1>1, <2>1, <2>2
  <2>4. top \in Frames
    BY <1>3 DEF Frames
  <2>5. ASSUME NEW i \in 1 .. n, i # n PROVE here[i] = stack[i]
    BY <1>1, <2>1, <2>5
  <2>6. here[n] = [stack[n] EXCEPT !.next = @ + 1]
    BY <1>1, <2>1
  <2>7. here[n].node = stack[n].node /\ here[n].next = stack[n].next + 1
    BY <2>2, <2>6 DEF Frames
  <2>8. \A i \in 1 .. n :
            /\ here[i].node = stack[i].node
            /\ here[i].next = IF i = n THEN stack[i].next + 1 ELSE stack[i].next
    BY <2>5, <2>7
  <2>9. stack' = Append(here, top)
    BY DEF Pushes
  <2> HIDE DEF here, top
  <2>10. /\ stack' \in Seq(Frames) /\ Len(stack') = n + 1 /\ stack'[n + 1] = top
         /\ \A i \in 1 .. n : stack'[i] = here[i]
    <3>1. /\ Append(here, top) \in Seq(Frames) /\ Len(Append(here, top)) = Len(here) + 1
          /\ Append(here, top)[Len(here) + 1] = top
          /\ \A i \in 1 .. Len(here) : Append(here, top)[i] = here[i]
      BY <2>3, <2>4, AppendFacts
    <3> HIDE DEF n
    <3> QED BY <2>3, <2>9, <3>1
  <2> QED BY <2>8, <2>10 DEF top
<1>6. stack'[n + 1].node = v /\ stack'[n + 1].next = 1
  BY <1>5
<1>7. Types'
  BY <1>0, <1>3, <1>5 DEF IInv, Types
<1>8. StackInv'
  <2>1. stack' # <<>> /\ stack'[1].node = Root
    BY <1>1, <1>5 DEF IInv, StackInv
  <2>2. ASSUME NEW i \in 1 .. n + 1
        PROVE  /\ stack'[i].node \in visited'
               /\ stack'[i].next <= Len(Ops(stack'[i].node)) + 1
               /\ i > 1 => Operand(stack'[i - 1].node, stack'[i].node)
    <3>1. CASE i = n + 1
      <4>1. Len(Ops(v)) \in Nat
        BY <1>3
      <4>2. Operand(stack'[n].node, v)
        BY <1>1, <1>3, <1>5
      <4>3. i - 1 = n
        BY <1>1, <3>1
      <4>4. stack'[i].node = v /\ stack'[i].next = 1 /\ v \in visited'
        BY <1>6, <3>1
      <4>5. 1 <= Len(Ops(v)) + 1
        BY <4>1
      <4> QED BY <4>2, <4>3, <4>4, <4>5
    <3>2. CASE i \in 1 .. n
      <4>1. /\ stack[i].node \in visited
            /\ stack[i].next <= Len(Ops(stack[i].node)) + 1
            /\ i > 1 => Operand(stack[i - 1].node, stack[i].node)
        BY <3>2 DEF IInv, StackInv
      <4>2. i > 1 => i - 1 \in 1 .. n
        BY <1>1
      <4>3. stack'[i].next <= Len(Ops(stack'[i].node)) + 1
        <5>1. /\ stack'[i].node = stack[i].node
              /\ stack'[i].next = IF i = n THEN stack[i].next + 1 ELSE stack[i].next
          BY <1>5, <3>2
        <5>2. i = n => stack[i].next <= Len(Ops(stack[i].node))
          BY <1>1
        <5>3. PICK x \in Nat, y \in Nat : x = stack[i].next /\ y = Len(Ops(stack[i].node))
          <6>1. stack[i].next \in Nat \ {0} /\ Ops(stack[i].node) \in Seq(Nodes)
            BY <1>2, <3>2
          <6>2. Len(Ops(stack[i].node)) \in Nat
            BY <6>1
          <6> QED BY <6>1, <6>2
        <5>4. IF i = n THEN x <= y ELSE x <= y + 1
          BY <4>1, <5>2, <5>3
        <5> QED BY <5>1, <5>3, <5>4
      <4> QED BY <1>5, <3>2, <4>1, <4>2, <4>3
    <3>3. i = n + 1 \/ i \in 1 .. n
      BY <1>1
    <3> QED BY <3>1, <3>2, <3>3
  <2>3. ASSUME NEW i \in 1 .. n + 1, NEW j \in 1 .. n + 1,
               stack'[i].node = stack'[j].node
        PROVE  i = j
    <3>1. \A l \in 1 .. n : stack'[l].node # v
      BY <1>4, <1>5 DEF IInv, StackInv
    <3>2. CASE i \in 1 .. n /\ j \in 1 .. n
      BY <1>5, <2>3, <3>2 DEF IInv, StackInv
    <3> QED BY <1>1, <1>6, <2>3, <3>1, <3>2
  <2>4. Len(stack') <= MaxDepth + 1
    BY <1>1, <1>4, <1>5, ChainAssumption
  <2>5. \A u : Ops(u)' = Ops(u)
    BY <1>0 DEF Ops
  <2>6. \A u, w : Operand(u, w)' <=> Operand(u, w)
    BY <2>5 DEF Operand
  <2> QED BY <1>5, <2>1, <2>2, <2>3, <2>4, <2>5, <2>6 DEF StackInv
<1>9. ExploredInv'
  <2>0. stack # <<>>
    BY DEF Descend
  <2>1. origin # 1
    BY <2>0 DEF IInv, PhaseInv
  <2>2. visited' \cap chain.marked = {}
    BY <2>1 DEF IInv, ExploredInv
  <2>3. ASSUME NEW u \in visited', NEW k \in DOMAIN Ops(u), Seen(u, k)'
        PROVE  Ops(u)[k] \in visited' \/ Far(Ops(u)[k])
    <3>1. CASE u = v
      <4>0. n + 1 \in 1 .. Len(stack') /\ Ops(u) \in Seq(Nodes)
        <5>1. n + 1 \in 1 .. n + 1
          BY <1>1
        <5> QED BY <1>3, <1>5, <3>1, <5>1
      <4>1. k < 1 /\ k \in Nat \ {0}
        BY <1>6, <2>3, <3>1, <4>0 DEF Seen
      <4> QED BY <4>1
    <3>2. CASE u # v /\ Seen(u, k)
      BY <2>1, <2>3, <3>2 DEF IInv, ExploredInv
    <3>3. CASE u # v /\ ~Seen(u, k)
      <4>1. PICK i \in 1 .. n : stack[i].node = u /\ ~(k < stack[i].next)
        BY <3>3 DEF Seen
      <4>2. k < stack'[i].next
        BY <1>1, <1>5, <2>3, <4>1 DEF Seen
      <4>3. k \in Nat
        BY <1>2, <2>3, <4>1
      <4>4. i = n /\ k = stack[n].next
        BY <1>1, <1>2, <1>5, <4>1, <4>2, <4>3
      <4> QED BY <1>1, <4>1, <4>4
    <3> QED BY <3>1, <3>2, <3>3
  <2> QED BY <1>0, <2>2, <2>3, PathsStay DEF ExploredInv, Ops
<1>10. PhaseInv' /\ FormInv' /\ ChainSound'
  <2>0. stack # <<>>
    BY DEF Descend
  <2>1. stack # <<>> /\ origin = 3 /\ stack' # <<>>
    BY <1>1, <1>5, <2>0 DEF IInv, PhaseInv
  <2> QED BY <1>0, <2>1 DEF IInv, PhaseInv, FormInv, ChainSound, Skipped
<1> QED BY <1>7, <1>8, <1>9, <1>10 DEF IInv

\* The operand is a structure that may hold callbacks: the stack shows a path
\* to it that is not too long.
LEMMA FoundStep ==
    ASSUME IInv, Descend,
           NEW v, v = Ops(Top.node)[Top.next], ~Cut(v), v \in chain.marked,
           stack' = <<>>, visited' = visited \cup {v}, origin' = 1
    PROVE  IInv'
<1> DEFINE n == Len(stack)
<1>0. UNCHANGED <<chain, call, form>>
  BY DEF Descend
<1>1. n \in Nat \ {0} /\ Top = stack[n] /\ Top.next <= Len(Ops(Top.node))
  BY StackTypes DEF IInv, Descend, Top, Ops
<1>2. Ops(Top.node) \in Seq(Nodes) /\ Top.next \in Nat \ {0}
  BY <1>1, StackTypes DEF IInv
<1>3. v \in Nodes /\ Operand(Top.node, v)
  BY <1>1, <1>2 DEF Operand
<1>4. v \notin visited /\ n <= MaxDepth
  BY <1>1, ChainAssumption DEF Cut, Depth
<1>5. Near(v)
  <2>1. \A j \in 1 .. Len(stack) : stack[j].node # v
    BY <1>4 DEF IInv, StackInv
  <2>2. PICK q \in PathsTo(v) : Len(q) = n
    BY <1>1, <1>3, <2>1, StackIsPath DEF IInv
  <2> QED BY <1>4, <2>2 DEF Near
<1>6. Types' /\ StackInv'
  BY <1>0, <1>3, ChainAssumption DEF IInv, Types, StackInv
<1>7. stack # <<>> /\ origin = 3 /\ form = "pending" /\ call.shape = "unknown"
  BY DEF IInv, PhaseInv, Descend
<1>8. Root \in visited
  BY <1>1, <1>7 DEF IInv, StackInv
<1>9. ExploredInv' /\ PhaseInv' /\ FormInv'
  BY <1>0, <1>7, <1>8 DEF IInv, ExploredInv, PhaseInv, FormInv
<1>10. ChainSound'
  BY <1>0, <1>5, PathsStay DEF ChainSound
<1> QED BY <1>6, <1>9, <1>10 DEF IInv

\* The search returns from a value: all of its operands have been looked at.
LEMMA ReturnStep ==
    ASSUME IInv, Return
    PROVE  IInv'
<1> DEFINE n == Len(stack)
<1>0. UNCHANGED <<chain, call, visited, form>>
  BY DEF Return
<1>1. /\ stack # <<>> /\ n \in Nat \ {0} /\ Top = stack[n] /\ Top.next > Len(Ops(Top.node))
      /\ origin = 3 /\ form = "pending" /\ call.shape = "unknown"
  BY StackTypes DEF IInv, PhaseInv, Return, Top, Ops
<1>2. /\ stack' \in Seq(Frames) /\ Len(stack') = n - 1
      /\ \A i \in 1 .. n - 1 : stack'[i] = stack[i]
  <2>1. stack \in Seq(Frames) /\ stack' = SubSeq(stack, 1, n - 1)
    BY DEF IInv, Types, Return
  <2>2. 1 \in 1 .. n + 1 /\ n - 1 \in 0 .. n
    BY <1>1
  <2> QED BY <1>1, <2>1, <2>2, FrontFacts
<1>3. origin' \in {0, 3} /\ (origin' = 0 <=> n = 1)
  BY <1>1 DEF Return
<1>4. stack' = <<>> <=> n = 1
  BY <1>1, <1>2
<1>5. Root \in visited
  BY <1>1 DEF IInv, StackInv
<1>6. Types'
  BY <1>0, <1>2, <1>3 DEF IInv, Types
<1>7. StackInv'
  <2>1. stack' # <<>> => stack'[1].node = Root
    <3>1. stack' # <<>> => 1 \in 1 .. n - 1
      <4>1. n # 1 => n - 1 >= 1
        BY <1>1
      <4>2. n # 1 => 1 \in 1 .. n - 1
        BY <1>1, <4>1
      <4> QED BY <1>4, <4>2
    <3> QED BY <1>1, <1>2, <3>1 DEF IInv, StackInv
  <2>2. Len(stack') <= MaxDepth + 1
    BY <1>1, <1>2, ChainAssumption DEF IInv, StackInv
  <2>3. ASSUME NEW i \in 1 .. n - 1
        PROVE  /\ stack'[i].node \in visited
               /\ stack'[i].next <= Len(Ops(stack'[i].node)) + 1
               /\ i > 1 => Operand(stack'[i - 1].node, stack'[i].node)
    <3>1. i \in 1 .. n /\ (i > 1 => i - 1 \in 1 .. n - 1)
      BY <1>1
    <3> QED BY <1>2, <3>1 DEF IInv, StackInv
  <2>4. \A i, j \in 1 .. n - 1 : stack'[i].node = stack'[j].node => i = j
    <3>1. \A i \in 1 .. n - 1 : i \in 1 .. n
      BY <1>1
    <3> QED BY <1>2, <3>1 DEF IInv, StackInv
  <2>5. \A u : Ops(u)' = Ops(u)
    BY <1>0 DEF Ops
  <2>6. \A u, w : Operand(u, w)' <=> Operand(u, w)
    BY <2>5 DEF Operand
  <2> QED BY <1>0, <1>2, <2>1, <2>2, <2>3, <2>4, <2>5, <2>6 DEF StackInv
<1>8. ExploredInv'
  <2>1. ASSUME NEW u \in visited, NEW k \in DOMAIN Ops(u), Seen(u, k)'
        PROVE  Seen(u, k)
    <3>1. SUFFICES ASSUME NEW i \in 1 .. n, stack[i].node = u PROVE k < stack[i].next
      BY DEF Seen
    <3>2. CASE i \in 1 .. n - 1
      BY <1>2, <2>1, <3>1, <3>2 DEF Seen
    <3>3. CASE i = n
      <4>1. Ops(u) \in Seq(Nodes) /\ stack[i].next \in Nat
        BY <3>1, StackTypes DEF IInv
      <4>2. k \in Nat /\ k <= Len(Ops(u)) /\ Len(Ops(u)) \in Nat
        BY <4>1
      <4> QED BY <1>1, <3>1, <3>3, <4>1, <4>2
    <3> QED BY <1>1, <3>2, <3>3
  <2>2. visited \cap chain.marked = {}
    BY <1>1 DEF IInv, ExploredInv
  <2>3. ASSUME NEW u \in visited, NEW k \in DOMAIN Ops(u), Seen(u, k)'
        PROVE  Ops(u)[k] \in visited \/ Far(Ops(u)[k])
    BY <1>1, <2>1, <2>3 DEF IInv, ExploredInv
  <2> QED BY <1>0, <2>2, <2>3, PathsStay DEF ExploredInv, Ops
<1>9. PhaseInv' /\ FormInv' /\ ChainSound'
  BY <1>0, <1>1, <1>3, <1>4, <1>5 DEF IInv, PhaseInv, FormInv, ChainSound
<1> QED BY <1>6, <1>7, <1>8, <1>9 DEF IInv

\* The called operand itself: it is marked, or the search starts from it.
LEMMA ReportStep ==
    ASSUME IInv, Report
    PROVE  IInv'
<1>0. /\ UNCHANGED <<chain, call, form>>
      /\ form = "pending" /\ origin = 3 /\ stack = <<>> /\ visited = {}
  BY DEF Report, IInv, PhaseInv
<1>1. CASE call.shape # "unknown"
  <2>1. call.shape \in {"function", "match", "rtld"}
    BY <1>1 DEF IInv, Types
  <2>2. UNCHANGED <<stack, visited>>
    BY <1>1 DEF Report
  <2>3. /\ call.shape = "function" => origin' = 0
        /\ call.shape = "match" => origin' = 1
        /\ call.shape = "rtld" => origin' = 2
    BY <1>1, <2>1 DEF Report
  <2>4. Types' /\ StackInv'
    BY <1>0, <2>1, <2>2, <2>3, ChainAssumption DEF IInv, Types, StackInv
  <2>5. ExploredInv' /\ PhaseInv' /\ FormInv' /\ ChainSound'
    BY <1>0, <1>1, <2>1, <2>2, <2>3 DEF ExploredInv, PhaseInv, FormInv, ChainSound
  <2> QED BY <2>4, <2>5 DEF IInv
<1>2. CASE call.shape = "unknown" /\ Root \in chain.marked
  <2>1. visited' = {Root} /\ origin' = 1 /\ stack' = <<>>
    BY <1>0, <1>2 DEF Report
  <2>2. Types' /\ StackInv'
    BY <1>0, <2>1, ChainAssumption DEF IInv, Types, StackInv
  <2>3. Near(Root)
    <3>1. <<>> \in [1 .. 0 -> Nodes \ {Root}] /\ IsPath(<<>>)
      BY DEF IsPath
    <3>2. <<>> \in Paths /\ Len(<<>>) = 0
      BY <3>1, PathIsPath
    <3>3. <<>> \in PathsTo(Root)
      BY <3>2 DEF PathsTo, At
    <3> QED BY <3>2, <3>3, ChainAssumption DEF Near
  <2>4. ChainSound'
    BY <1>0, <1>2, <2>3, PathsStay DEF ChainSound
  <2>5. ExploredInv' /\ PhaseInv' /\ FormInv'
    BY <1>0, <1>2, <2>1 DEF ExploredInv, PhaseInv, FormInv
  <2> QED BY <2>2, <2>4, <2>5 DEF IInv
<1>3. CASE call.shape = "unknown" /\ Root \notin chain.marked
  <2> DEFINE f == [node |-> Root, next |-> 1]
  <2>1. visited' = {Root} /\ origin' = 3 /\ stack' = <<f>>
    BY <1>0, <1>3 DEF Report
  <2>2. f \in Frames /\ f.node = Root /\ f.next = 1
    BY ChainAssumption DEF Frames
  <2>3. Ops(Root) \in Seq(Nodes) /\ Ops(Root)' = Ops(Root)
    BY <1>0, ChainAssumption DEF IInv, Types, Ops
  <2> HIDE DEF f
  <2>4. Types'
    BY <1>0, <2>1, <2>2, ChainAssumption DEF IInv, Types
  <2>5. Len(stack') = 1 /\ stack'[1].node = Root /\ stack'[1].next = 1 /\ stack' # <<>>
    BY <2>1, <2>2
  <2>6. StackInv'
    <3>1. \A i \in 1 .. Len(stack') : i = 1
      BY <2>5
    <3>2. 1 <= Len(Ops(Root)) + 1 /\ 1 <= MaxDepth + 1
      BY <2>3, ChainAssumption
    <3> QED BY <2>1, <2>3, <2>5, <3>1, <3>2 DEF StackInv
  <2>7. ExploredInv'
    <3>1. ASSUME NEW u \in visited', NEW k \in DOMAIN Ops(u)', Seen(u, k)' PROVE FALSE
      <4>1. u = Root /\ k < 1
        BY <2>1, <2>5, <3>1 DEF Seen
      <4>2. k \in 1 .. Len(Ops(Root))
        BY <2>3, <3>1, <4>1
      <4> QED BY <2>3, <4>1, <4>2
    <3> QED BY <1>0, <1>3, <2>1, <3>1 DEF ExploredInv
  <2>8. PhaseInv' /\ FormInv' /\ ChainSound'
    BY <1>0, <1>3, <2>1, <2>5 DEF PhaseInv, FormInv, ChainSound
  <2> QED BY <2>4, <2>6, <2>7, <2>8 DEF IInv
<1> QED BY <1>1, <1>2, <1>3

\* The form is chosen when the search is over, or without one.
LEMMA FormStep ==
    ASSUME IInv, Decide \/ Instrument
    PROVE  IInv'
<1>0. UNCHANGED <<chain, call, stack, visited, origin>>
  BY DEF Decide, Instrument
<1>1. form' \in Forms /\ FormInv'
  <2>1. CASE Decide
    <3>1. SpecialForm \in {"threadkey_callback_table", "fini_callback_table",
                           "callback_table", "none"}
      BY DEF SpecialForm
    <3>2. \/ Skipped /\ form' = "untouched"
          \/ form' \in Forms \ {"plain", "untouched"}
      BY <2>1, <3>1 DEF Decide, Forms
    <3> QED BY <1>0, <3>2 DEF FormInv, Forms, Skipped
  <2>2. CASE Instrument
    <3>1. origin \in 0 .. 3 /\ origin # 3 /\ form' = OrdinaryForm
      BY <2>2 DEF Instrument, IInv, Types
    <3>2. \/ form' = "untouched" /\ origin = 2
          \/ form' = "maybe"
          \/ form' = "plain" /\ origin = 0 /\ ~call.annotated /\ ~call.global
      BY <3>1 DEF OrdinaryForm
    <3> QED BY <1>0, <3>2 DEF FormInv, Forms, Skipped
  <2> QED BY <2>1, <2>2
<1>2. Types' /\ StackInv'
  <2>1. \A u : Ops(u)' = Ops(u)
    BY <1>0 DEF Ops
  <2>2. \A u, w : Operand(u, w)' <=> Operand(u, w)
    BY <2>1 DEF Operand
  <2>3. Types'
    BY <1>0, <1>1 DEF IInv, Types
  <2>4. StackInv'
    BY <1>0, <2>1, <2>2 DEF IInv, StackInv
  <2> QED BY <2>3, <2>4
<1>3. ExploredInv'
  BY <1>0, PathsStay DEF IInv, ExploredInv, Seen, Ops
<1>4. PhaseInv' /\ ChainSound'
  <2>1. stack = <<>>
    BY DEF Decide, Instrument, IInv, PhaseInv
  <2> QED BY <1>0, <2>1, PathsStay DEF IInv, PhaseInv, ChainSound
<1> QED BY <1>1, <1>2, <1>3, <1>4 DEF IInv

\* In every state of the search, for every graph and depth: the recursion holds
\* a path, what it left behind is visited or far, and what it found is near.
THEOREM Invariance == Spec => []IInv
<1>1. Init => IInv
  <2> SUFFICES ASSUME Init PROVE IInv
    OBVIOUS
  <2>1. Types
    BY ChainAssumption DEF Init, Types, Forms
  <2> QED BY <2>1, ChainAssumption
      DEF Init, IInv, StackInv, ExploredInv, PhaseInv, FormInv, ChainSound
<1>2. IInv /\ [Next]_vars => IInv'
  <2> SUFFICES ASSUME IInv, [Next]_vars PROVE IInv'
    OBVIOUS
  <2>1. CASE Decide \/ Instrument
    BY <2>1, FormStep
  <2>2. CASE Report
    BY <2>2, ReportStep
  <2>3. CASE Return
    BY <2>3, ReturnStep
  <2>4. CASE Descend
    <3> DEFINE v == Ops(Top.node)[Top.next]
    <3>1. CASE Cut(v)
      BY <2>4, <3>1, CutStep DEF Descend, Ops
    <3>2. CASE ~Cut(v) /\ v \in chain.marked
      BY <2>4, <3>2, FoundStep DEF Descend, Ops
    <3>3. CASE ~Cut(v) /\ v \notin chain.marked
      BY <2>4, <3>3, PushStep DEF Descend, Ops, Pushes
    <3> QED BY <3>1, <3>2, <3>3
  <2>5. CASE UNCHANGED vars
    <3>1. Types' /\ StackInv' /\ PhaseInv' /\ FormInv'
      BY <2>5 DEF vars, IInv, Types, StackInv, Operand, Ops, PhaseInv, FormInv, Skipped
    <3>2. ExploredInv' /\ ChainSound'
      BY <2>5, PathsStay DEF vars, IInv, ExploredInv, Seen, Ops, ChainSound
    <3> QED BY <3>1, <3>2 DEF IInv
  <2> QED BY <2>1, <2>2, <2>3, <2>4, <2>5 DEF Next
<1> QED BY <1>1, <1>2, PTL DEF Spec

\* The recursion of resolveChainForAllowedStruct holds a path of distinct
\* visited values, each with an operand of it to look at next.
THEOREM TypeCorrect == Spec => []TypeOK
<1>1. IInv => TypeOK
  <2> SUFFICES ASSUME IInv PROVE TypeOK
    OBVIOUS
  <2>1. DOMAIN stack = 1 .. Len(stack)
    BY DEF IInv, Types
  <2>2. ASSUME NEW i \in DOMAIN stack
        PROVE  /\ stack[i].node \in visited
               /\ stack[i].next \in 1 .. Len(Ops(stack[i].node)) + 1
               /\ \A j \in DOMAIN stack : stack[i].node = stack[j].node => i = j
    BY <2>1, StackTypes DEF IInv, StackInv
  <2> QED BY <2>2 DEF IInv, Types, Forms, Ops, TypeOK
<1> QED BY <1>1, Invariance, PTL

\* What the search finds is at most MaxDepth steps from the called operand.
THEOREM SearchSound == Spec => []ChainSound
<1>1. IInv => ChainSound
  BY DEF IInv
<1> QED BY <1>1, Invariance, PTL

\* The beginning of a path is a path.
LEMMA PrefixIsPath ==
    ASSUME NEW q \in Paths, NEW m \in 1 .. Len(q)
    PROVE  \E p \in PathsTo(q[m]) : Len(p) = m
<1> DEFINE p == [i \in 1 .. m |-> q[i]]
<1>1. PICK n \in 0 .. Cardinality(Nodes) - 1 : q \in [1 .. n -> Nodes \ {Root}]
  BY DEF Paths
<1>2. Cardinality(Nodes) \in Nat
  BY ChainAssumption, FS_CardinalityType
<1>3. n \in Nat /\ Len(q) = n /\ m \in 1 .. n /\ m \in Nat
  BY <1>1, <1>2
<1>4. p \in [1 .. m -> Nodes \ {Root}]
  BY <1>1, <1>3
<1>5. IsPath(p)
  <2>1. IsPath(q)
    BY DEF Paths
  <2>2. \A i \in 1 .. m : i \in DOMAIN q /\ p[i] = q[i] /\ At(p, i - 1) = At(q, i - 1)
    BY <1>1, <1>3 DEF At
  <2>3. DOMAIN p = 1 .. m
    OBVIOUS
  <2> HIDE DEF p
  <2> QED BY <2>1, <2>2, <2>3 DEF IsPath
<1>6. p \in Paths /\ Len(p) = m
  BY <1>3, <1>4, <1>5, PathIsPath
<1>7. At(p, m) = q[m]
  BY <1>3 DEF At
<1> HIDE DEF p
<1> QED BY <1>6, <1>7 DEF PathsTo

\* If the search is over and found nothing, everything on a short path has been
\* visited: the first value that was not would have been cut on a longer path.
LEMMA NearIsVisited ==
    ASSUME IInv, call.shape = "unknown", origin = 0, \A v \in Nodes : Settled(v),
           NEW w \in Nodes, Near(w)
    PROVE  w \in visited
<1>1. PICK q \in PathsTo(w) : Len(q) <= MaxDepth
  BY DEF Near
<1>2. PICK n \in 0 .. Cardinality(Nodes) - 1 : q \in [1 .. n -> Nodes \ {Root}]
  BY DEF Paths, PathsTo
<1>3. n \in Nat /\ Len(q) = n /\ IsPath(q) /\ q \in Paths /\ At(q, n) = w
  BY <1>2, ChainAssumption, FS_CardinalityType DEF Paths, PathsTo
<1> DEFINE S == {i \in 0 .. n : At(q, i) \notin visited}
<1>4. SUFFICES S = {}
  BY <1>3
<1>5. SUFFICES ASSUME S # {} PROVE FALSE
  OBVIOUS
<1>6. PICK m \in S : \A l \in S : m <= l
  <2>1. S \in SUBSET Nat
    BY <1>3
  <2> HIDE DEF S
  <2> QED BY <1>5, <2>1, Least
<1>7. stack = <<>> /\ Root \in visited
  BY DEF IInv, PhaseInv
<1>8. m \in 1 .. n
  BY <1>3, <1>6, <1>7 DEF At
<1>9. At(q, m - 1) \in visited
  <2>1. m - 1 \in 0 .. n /\ ~(m <= m - 1)
    BY <1>3, <1>8
  <2> QED BY <1>6, <2>1
<1>10. q[m] \notin visited /\ q[m] \in Nodes
  BY <1>2, <1>3, <1>6, <1>8 DEF At
<1>11. PICK k \in DOMAIN Ops(At(q, m - 1)) : Ops(At(q, m - 1))[k] = q[m]
  BY <1>2, <1>3, <1>8 DEF IsPath, Ops
<1>12. Seen(At(q, m - 1), k)
  BY <1>7 DEF Seen
<1>13. Far(q[m])
  BY <1>9, <1>10, <1>11, <1>12 DEF IInv, ExploredInv
<1>14. PICK f \in PathsTo(q[m]) : Len(f) = MaxDepth + 1
  BY <1>13 DEF Far
<1>15. PICK p \in PathsTo(q[m]) : Len(p) = m
  BY <1>3, <1>8, PrefixIsPath
<1>16. m <= MaxDepth /\ m \in Nat
  BY <1>1, <1>3, <1>8, ChainAssumption
<1> QED BY <1>10, <1>14, <1>15, <1>16, ChainAssumption DEF Settled

\* When no value is reached both on a path that is cut and on one that is not,
\* the search misses no structure that is near.
THEOREM SearchComplete == Spec => []ChainComplete
<1>1. IInv => ChainComplete
  <2> SUFFICES ASSUME IInv, call.shape = "unknown", origin = 0, \A v \in Nodes : Settled(v),
                      NEW w \in chain.marked, Near(w)
               PROVE  FALSE
    BY DEF ChainComplete
  <2>1. w \in Nodes
    BY DEF IInv, Types
  <2>2. w \in visited
    BY <2>1, NearIsVisited
  <2> QED BY <2>2 DEF IInv, ExploredInv
<1> QED BY <1>1, Invariance, PTL

\* A call is left without the callback table only when nothing says that it
\* needs it, and without a mask only by one of the exceptions of the pass.
THEOREM FormRight == Spec => []AsksWhenItMust
<1>1. IInv => AsksWhenItMust
  <2> SUFFICES ASSUME IInv PROVE AsksWhenItMust
    OBVIOUS
  <2>1. ASSUME form = "plain"
        PROVE  /\ ~call.annotated /\ ~call.global /\ call.shape # "match"
               /\ \/ call.shape = "function"
                  \/ \E v \in Nodes : ~Settled(v)
                  \/ \A v \in chain.marked : ~Near(v)
    <3>1. origin = 0 /\ ~call.annotated /\ ~call.global
      BY <2>1 DEF IInv, FormInv
    <3>2. call.shape \in {"function", "unknown"}
      BY <3>1 DEF IInv, PhaseInv
    <3>3. ASSUME call.shape = "unknown", \A v \in Nodes : Settled(v),
                 NEW w \in chain.marked, Near(w)
          PROVE  FALSE
      <4>1. w \in Nodes
        BY DEF IInv, Types
      <4>2. w \in visited
        BY <3>1, <3>3, <4>1, NearIsVisited
      <4> QED BY <3>1, <4>2 DEF IInv, ExploredInv
    <3> QED BY <3>1, <3>2, <3>3
  <2>2. ASSUME form = "untouched"
        PROVE  call.speedtest \/ call.loader \/ call.fn = "exempt" \/ call.shape = "rtld"
    BY <2>2 DEF IInv, FormInv, PhaseInv, Skipped
  <2> QED BY <2>1, <2>2 DEF AsksWhenItMust
<1> QED BY <1>1, Invariance, PTL
=============================================================================
