----------------------------- MODULE IndirectCall -----------------------------
(***************************************************************************)
(* The indirect calls of a whole program: each was given one of three      *)
(* forms by the BitMasks pass.  A plain call goes to the masked target.  A *)
(* call that may be a callback goes to its target if masking leaves it     *)
(* alone, and through the pad of its library otherwise.  A few calls of    *)
(* libc and ld.so always use a pad.  This module composes the masks        *)
(* (Masks) and the pads (CallbackTable) and maps them to CallPolicy.       *)
(***************************************************************************)
EXTENDS CallbackTable, Masks

CONSTANTS
    AddrOf,     \* address of every target
    MaskOf,     \* or_mask and and_mask of the library a tag stands for
    PadOnly     \* tags that are not a library: FINI and THREADKEY

ASSUME AddressAssumption == AddrOf \in [Targets -> Word]

ASSUME MaskAssumption ==
    /\ MaskOf \in [Tags -> [or : Word, and : Word]]
    /\ \A g \in Tags : MaskOf[g].or \subseteq MaskOf[g].and

VARIABLE dest   \* address the last completed call went to

callVars == <<vars, dest>>

CallInit == Init /\ dest = {}

MaskOfTable(t) == MaskOf[tables[t].tag]

MaskedTarget(t, target) ==
    Masked(AddrOf[target], MaskOfTable(t).or, MaskOfTable(t).and)

\* Mutant: only or_mask is applied.
PlainCallOrOnly(t, target) ==
    /\ pc = "idle"
    /\ tables[t].tag \notin PadOnly
    /\ dest' = AddrOf[target] \cup MaskOfTable(t).or
    /\ UNCHANGED vars

\* instrumentNormalCase.
PlainCall(t, target) ==
    /\ pc = "idle"
    /\ tables[t].tag \notin PadOnly
    /\ dest' = MaskedTarget(t, target)
    /\ UNCHANGED vars

\* The comparison of the target with its masked value, and the two blocks
\* between which it chooses.
MaybeCall(t, target) ==
    /\ pc = "idle"
    /\ tables[t].tag \notin PadOnly
    /\ IF AddrOf[target] = MaskedTarget(t, target)
         THEN dest' = AddrOf[target] /\ UNCHANGED vars
         ELSE Call(t, target) /\ UNCHANGED dest

\* always_callback_table.
AlwaysCall(t, target) == Call(t, target) /\ UNCHANGED dest

PadStep ==
    \/ (FiniPad \/ Loop \/ PassPad) /\ UNCHANGED dest
    \/ Jump /\ dest' = AddrOf[r11]

CallNext ==
    \/ PadStep
    \/ \E t \in 1 .. Len(tables), target \in Targets :
          PlainCall(t, target) \/ MaybeCall(t, target) \/ AlwaysCall(t, target)

CallSpec == CallInit /\ [][CallNext]_callVars

\* A thread that has entered a pad keeps executing it.
FairCallSpec == CallSpec /\ WF_callVars(PadStep)

-----------------------------------------------------------------------------
(* The policy that masks, tables and command line amount to.               *)

PolicyOf ==
    [t \in 1 .. Len(tables) |->
        [window       |-> Window(MaskOfTable(t).or, MaskOfTable(t).and),
         grants       |-> {x \in Targets :
                             \/ \E i \in 1 .. Len(Cells(t)) : Cells(t)[i] = x
                             \/ DsoOf[x] \in LibcLibs
                             \/ tables[t].tag = Fini /\ DsoOf[x] \in FiniLibs},
         unrestricted |-> Len(Cells(t)) = 0]]

StateOf ==
    CASE pc = "idle" -> "none"
      [] pc \in {"fini", "loop", "pass"} -> "asked"
      [] pc = "jump" -> "granted"
      [] pc = "hlt"  -> "refused"

Policy == INSTANCE CallPolicy
            WITH policy <- PolicyOf, state <- StateOf, caller <- own, target <- r11

\* Masked calls, pads and tables together implement CallPolicy: a call stays
\* in its caller's window, or the pad grants or refuses it as the table and
\* the command line of create_header.py say; only the pads of empty tables
\* are not bound by this.
ImplementsPolicy == Policy!Spec

\* Every pad whose table has entries answers, and makes the calls it grants:
\* the scan loop ends, and with ImplementsPolicy this is Policy!FairSpec.
AnswersCalls == Policy!Fairness

=============================================================================
