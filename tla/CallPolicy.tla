------------------------------ MODULE CallPolicy ------------------------------
(***************************************************************************)
(* What Platypus promises about indirect calls, whatever the masks, tables *)
(* and pads that implement it.  A call either stays in the window of its   *)
(* caller, without being asked for, or it is asked for, and then it is     *)
(* granted or refused according to a policy that was fixed when the        *)
(* program was linked.                                                     *)
(***************************************************************************)
EXTENDS Naturals

CONSTANTS
    Targets,    \* functions a caller may ask for
    AddrOf      \* their addresses

VARIABLES
    policy,     \* per caller: its window, the targets granted, and whether
                \* the caller is unrestricted
    state,      \* of the call in progress
    caller,
    target,
    dest        \* address the last completed call went to

vars == <<policy, state, caller, target, dest>>

Init == state = "none"

\* A call that stays inside: one to the window goes to its target.
Inside(c, t) ==
    /\ state = "none"
    /\ dest' \in policy[c].window
    /\ AddrOf[t] \in policy[c].window => dest' = AddrOf[t]
    /\ UNCHANGED <<policy, state, caller, target>>

Ask(c, t) ==
    /\ state = "none"
    /\ state' = "asked"
    /\ caller' = c
    /\ target' = t
    /\ UNCHANGED <<policy, dest>>

Granted == target \in policy[caller].grants

Grant ==
    /\ state = "asked"
    /\ Granted \/ policy[caller].unrestricted
    /\ state' = "granted"
    /\ UNCHANGED <<policy, caller, target, dest>>

Refuse ==
    /\ state = "asked"
    /\ ~Granted
    /\ state' = "refused"
    /\ UNCHANGED <<policy, caller, target, dest>>

Go ==
    /\ state = "granted"
    /\ state' = "none"
    /\ dest' = AddrOf[target]
    /\ UNCHANGED <<policy, caller, target>>

Next ==
    \/ \E c \in DOMAIN policy, t \in Targets : Inside(c, t) \/ Ask(c, t)
    \/ Grant
    \/ Refuse
    \/ Go

Spec == Init /\ [][Next]_vars

\* A restricted caller gets an answer, and a granted call is made.
Answer == (Grant \/ Refuse) /\ ~policy[caller].unrestricted

Fairness == WF_vars(Answer) /\ WF_vars(Go)

FairSpec == Spec /\ Fairness

=============================================================================
