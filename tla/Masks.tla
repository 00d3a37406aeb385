-------------------------------- MODULE Masks --------------------------------
(***************************************************************************)
(* The arithmetic of the masks.  A machine word is the set of its one      *)
(* bits, so that | is union and & is intersection.                         *)
(*                                                                         *)
(* An instrumented indirect call goes to (target | or_mask) & and_mask.    *)
(* The loader sets or_mask of an object to the common prefix of the first  *)
(* and the last address of its code, and and_mask to the last address.     *)
(***************************************************************************)
EXTENDS Naturals

CONSTANT Width      \* bits of a word

ASSUME WidthAssumption == Width \in Nat \ {0}

Bit == 0 .. Width - 1

Word == SUBSET Bit

\* The address an instrumented call of t goes to.
Masked(t, or_mask, and_mask) == (t \cup or_mask) \cap and_mask

\* common_prefix_len: the bits of a above the highest bit in which b differs.
CommonPrefix(a, b) ==
    {i \in a : \A j \in Bit : j >= i => (j \in a <=> j \in b)}

\* R_X86_64_ORMASK and R_X86_64_ANDMASK: an object loaded without mitigation
\* gets masks that change nothing.
OrMask(to_mitigate, l_exec_start) == IF to_mitigate THEN l_exec_start ELSE {}

AndMask(to_mitigate, l_exec_end) == IF to_mitigate THEN l_exec_end ELSE Bit

\* The order of words as numbers.
Less(a, b) ==
    \E i \in Bit : /\ i \in b /\ i \notin a
                   /\ \A j \in Bit : j > i => (j \in a <=> j \in b)

AtMost(a, b) == a = b \/ Less(a, b)

\* The words an object's calls can reach: those that agree with the masks
\* wherever the masks agree.
Window(or_mask, and_mask) ==
    {w \in Word : or_mask \subseteq w /\ w \subseteq and_mask}

\* b ends in ones below the highest bit in which it differs from a.
EndsInOnes(a, b) ==
    \A d \in Bit :
        (\E h \in Bit : h >= d /\ ~(h \in a <=> h \in b)) => d \in b

=============================================================================
