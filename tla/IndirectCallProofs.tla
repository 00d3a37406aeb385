-------------------------- MODULE IndirectCallProofs --------------------------
(***************************************************************************)
(* For every number of libraries, all tables, masks and command lines: a   *)
(* pad whose table has entries lets exactly the calls through that it      *)
(* should and reads nothing beyond the end of its table, and the three     *)
(* forms of indirect calls implement CallPolicy.                           *)
(***************************************************************************)
EXTENDS IndirectCall, MasksProofs

USE DEF FiniLibs, LibcLibs

-----------------------------------------------------------------------------
(* The pads.                                                               *)

\* A call in progress has a caller and a target.
Calling ==
    pc # "idle" => own \in 1 .. Len(tables) /\ r11 \in Targets

\* The scan of a table with entries is at an entry, and has passed no cell
\* that holds the target.
Scanning ==
    pc = "loop" /\ Filled =>
        /\ rax[1] = own
        /\ rax[2] \in 1 .. Len(Cells(own))
        /\ \A i \in 1 .. rax[2] - 1 : Cells(own)[i] # r11

\* The second test is only made if it exists, after a scan without success.
Passing ==
    pc = "pass" => /\ LibcLibs # {}
                   /\ ~InOwnTable
                   /\ Filled => rax[1] = own /\ rax[2] <= Len(Cells(own)) + 1

\* A call of FINI that went past its entry point did not pass there.
NotFini ==
    pc \in {"loop", "pass"} /\ tables[own].tag = Fini =>
        DsoOf[r11] \notin FiniLibs

\* The registers before and after the second test.
Registers ==
    /\ pc \in {"loop", "pass"} /\ tables[own].tag # Fini => regs = ArgRegs
    /\ pc = "fini" => tables[own].tag = Fini

IInv ==
    /\ TypeOK
    /\ Calling
    /\ Scanning
    /\ Passing
    /\ NotFini
    /\ Registers
    /\ JumpsAllowed
    /\ HaltsRightly
    /\ ArgumentsKept

\* No call is under way at the start.
LEMMA InitIInv == Init => IInv
  <1> SUFFICES ASSUME Init PROVE IInv
    OBVIOUS
  <1>1. tables \in Seq(Table) /\ libs \in [fini : SUBSET Dsos, libc : SUBSET Dsos]
    BY LayoutAssumption DEF Init
  <1>2. TypeOK
    BY <1>1 DEF Init, TypeOK
  <1> QED
    BY <1>2 DEF Init, IInv, Calling, Scanning, Passing, NotFini, Registers,
                JumpsAllowed, HaltsRightly, ArgumentsKept

\* What the state of a call in progress consists of.
LEMMA CallTypes ==
    ASSUME TypeOK, own \in 1 .. Len(tables)
    PROVE  /\ Len(tables) \in Nat
           /\ tables[own] \in Table
           /\ Cells(own) \in Seq(Targets)
           /\ Len(Cells(own)) \in Nat
  <1>1. tables \in Seq(Table)
    BY DEF TypeOK
  <1>2. Len(tables) \in Nat /\ tables[own] \in Table
    BY <1>1
  <1>3. Cells(own) \in Seq(Targets)
    BY <1>2 DEF Cells, Table
  <1> QED
    BY <1>2, <1>3

\* An instrumented call enters the pad of a table.
LEMMA CallIInv ==
    ASSUME IInv, NEW t \in 1 .. Len(tables), NEW target \in Targets,
           Call(t, target)
    PROVE  IInv'
  <1>a. tables' = tables /\ libs' = libs /\ own' = t /\ r11' = target /\ regs' = ArgRegs
    BY DEF Call
  <1>b. tables \in Seq(Table)
    BY DEF IInv, TypeOK
  <1>c. Len(tables) \in Nat /\ t \in Nat /\ tables[t] \in Table
    BY <1>b
  <1>d. Len(tables[t].cells) \in Nat
    BY <1>c DEF Table
  <1>1. /\ tables' = tables /\ libs' = libs /\ own' = t /\ r11' = target /\ regs' = ArgRegs
        /\ Len(tables) \in Nat /\ t \in Nat
        /\ tables[t] \in Table
        /\ Len(tables[t].cells) \in Nat
    BY <1>a, <1>c, <1>d
  <1>2. \/ pc' = "fini" /\ rax' = rax /\ tables[t].tag = Fini
        \/ /\ pc' = "loop" /\ rax' = <<t, 1>>
           /\ ~(tables[t].tag = Fini /\ FiniLibs # {})
    BY DEF Call
  <1>3. TypeOK'
    BY <1>1, <1>2 DEF IInv, TypeOK
  <1>4. Calling' /\ Passing' /\ JumpsAllowed' /\ HaltsRightly' /\ ArgumentsKept'
    BY <1>1, <1>2 DEF Calling, Passing, JumpsAllowed, HaltsRightly, ArgumentsKept
  <1>5. Scanning'
    BY <1>1, <1>2 DEF Scanning, Filled, Cells
  <1>6. NotFini' /\ Registers'
    BY <1>1, <1>2 DEF NotFini, Registers
  <1> QED
    BY <1>3, <1>4, <1>5, <1>6 DEF IInv

\* The special entry point of FINI.
LEMMA FiniPadIInv ==
    ASSUME IInv, FiniPad
    PROVE  IInv'
  <1>1. /\ pc = "fini" /\ tables' = tables /\ libs' = libs /\ own' = own /\ r11' = r11
        /\ regs' = {}
        /\ own \in 1 .. Len(tables) /\ r11 \in Targets
        /\ tables[own].tag = Fini
    BY DEF FiniPad, IInv, Calling, Registers
  <1>2. \/ pc' = "jump" /\ rax' = rax /\ DsoOf[r11] \in FiniLibs
        \/ pc' = "loop" /\ rax' = <<own, 1>> /\ DsoOf[r11] \notin FiniLibs
    BY DEF FiniPad, ShouldPassthrough
  <1>3. Len(Cells(own)) \in Nat /\ own \in Nat
    BY <1>1, CallTypes DEF IInv, TypeOK
  <1>4. TypeOK' /\ Calling' /\ Passing' /\ HaltsRightly' /\ NotFini'
    BY <1>1, <1>2, <1>3 DEF IInv, TypeOK, Calling, Passing, HaltsRightly, NotFini
  <1>5. Scanning'
    BY <1>1, <1>2, <1>3 DEF Scanning, Filled, Cells
  <1>6. JumpsAllowed' /\ Registers' /\ ArgumentsKept'
    BY <1>1, <1>2 DEF JumpsAllowed, Passes, Registers, ArgumentsKept
  <1> QED
    BY <1>4, <1>5, <1>6 DEF IInv

\* The pad that asks libc_should_passthrough.
LEMMA PassPadIInv ==
    ASSUME IInv, PassPad
    PROVE  IInv'
  <1>1. /\ pc = "pass" /\ tables' = tables /\ libs' = libs /\ own' = own /\ r11' = r11
        /\ rax' = rax /\ regs' = regs \cap Kept
        /\ own \in 1 .. Len(tables) /\ r11 \in Targets
        /\ ~InOwnTable
    BY DEF PassPad, IInv, Calling, Passing
  <1>2. \/ pc' = "jump" /\ DsoOf[r11] \in LibcLibs
        \/ pc' = "hlt" /\ DsoOf[r11] \notin LibcLibs
    BY DEF PassPad, ShouldPassthrough
  <1>3. InOwnTable' = InOwnTable /\ Filled' = Filled
    BY <1>1 DEF InOwnTable, Filled, Cells
  <1>4. TypeOK' /\ Calling' /\ Passing' /\ Scanning' /\ NotFini' /\ Registers'
    BY <1>1, <1>2 DEF IInv, TypeOK, Calling, Passing, Scanning, NotFini, Registers
  <1>5. JumpsAllowed' /\ HaltsRightly'
    BY <1>1, <1>2, <1>3 DEF IInv, JumpsAllowed, HaltsRightly, Passes, NotFini
  <1>6. ArgumentsKept'
    BY <1>1, <1>2, <1>3 DEF IInv, ArgumentsKept, Registers, Kept, ArgRegs
  <1> QED
    BY <1>4, <1>5, <1>6 DEF IInv

\* One round of the loop over the table.
LEMMA LoopIInv ==
    ASSUME IInv, Loop
    PROVE  IInv'
  <1>1. /\ pc = "loop" /\ tables' = tables /\ libs' = libs /\ own' = own /\ r11' = r11
        /\ regs' = regs
        /\ own \in 1 .. Len(tables) /\ r11 \in Targets
    BY DEF Loop, IInv, Calling
  <1>2. /\ Len(tables) \in Nat /\ own \in Nat
        /\ Len(Cells(own)) \in Nat
        /\ rax \in Nat \X Nat
    BY <1>1, CallTypes DEF IInv, TypeOK
  <1>3. InOwnTable' = InOwnTable /\ Filled' = Filled /\ Passes' = Passes
    BY <1>1 DEF InOwnTable, Filled, Passes, Cells
  <1>4. PICK here \in Contents(rax), next \in Contents(Following(rax)) :
          IF here = r11
            THEN pc' = "jump" /\ UNCHANGED rax
            ELSE /\ rax' = Following(rax)
                 /\ pc' = IF next # Zero THEN "loop"
                          ELSE IF LibcLibs # {} THEN "pass" ELSE "hlt"
    BY DEF Loop
  <1>5. Following(rax) \in Nat \X Nat
    BY <1>2 DEF Following, Beyond
  <1>6. TypeOK' /\ Calling'
    BY <1>1, <1>4, <1>5 DEF IInv, TypeOK, Calling
  <1>7. NotFini' /\ Registers'
    BY <1>1, <1>4 DEF IInv, NotFini, Registers
  <1>8. ArgumentsKept'
    BY <1>1, <1>4 DEF IInv, ArgumentsKept, Registers, ArgRegs
  <1>9. CASE ~Filled
    <2>1. ~InOwnTable
      BY <1>2, <1>9 DEF Filled, InOwnTable
    <2>2. Scanning' /\ JumpsAllowed'
      BY <1>3, <1>9 DEF Scanning, JumpsAllowed
    <2>3. Passing'
      BY <1>1, <1>3, <1>4, <1>9, <2>1 DEF Passing
    <2>4. HaltsRightly'
      BY <1>1, <1>3, <1>4, <2>1 DEF HaltsRightly, Passes, IInv, NotFini
    <2> QED
      BY <1>6, <1>7, <1>8, <2>2, <2>3, <2>4 DEF IInv
  <1>10. CASE Filled
    <2>1. /\ rax[1] = own
          /\ rax[2] \in 1 .. Len(Cells(own))
          /\ \A i \in 1 .. rax[2] - 1 : Cells(own)[i] # r11
      BY <1>1, <1>10 DEF IInv, Scanning
    <2>2. here = Cells(own)[rax[2]]
      BY <1>1, <1>2, <2>1 DEF Contents, Beyond
    <2>3. Following(rax) = <<own, rax[2] + 1>>
      BY <1>1, <1>2, <2>1 DEF Following, Beyond
    <2>4. CASE here = r11
      <3>1. pc' = "jump"
        BY <1>4, <2>4
      <3>2. InOwnTable
        BY <2>1, <2>2, <2>4 DEF InOwnTable
      <3> QED
        BY <1>3, <1>6, <1>7, <1>8, <3>1, <3>2
           DEF IInv, Scanning, Passing, JumpsAllowed, HaltsRightly
    <2>5. CASE here # r11
      <3>1. \A i \in 1 .. rax[2] : Cells(own)[i] # r11
        BY <1>2, <2>1, <2>2, <2>5
      <3>2. rax' = <<own, rax[2] + 1>>
        BY <1>4, <2>3, <2>5
      <3>3. next = Zero <=> rax[2] = Len(Cells(own))
        <4>1. Cells(own) \in Seq(Targets)
          BY <1>1, CallTypes DEF IInv
        <4>2. CASE rax[2] = Len(Cells(own))
          BY <1>1, <1>2, <2>1, <2>3, <4>2 DEF Contents, Beyond
        <4>3. CASE rax[2] < Len(Cells(own))
          <5>1. next = Cells(own)[rax[2] + 1]
            BY <1>1, <1>2, <2>1, <2>3, <4>3 DEF Contents, Beyond
          <5>2. next \in Targets
            BY <1>2, <2>1, <4>1, <4>3, <5>1
          <5> QED
            BY <4>3, <5>2, <1>2, <2>1, TargetAssumption
        <4> QED
          BY <1>2, <2>1, <4>2, <4>3
      <3>4. CASE rax[2] = Len(Cells(own))
        <4>1. ~InOwnTable
          BY <3>1, <3>4 DEF InOwnTable
        <4>2. pc' = IF LibcLibs # {} THEN "pass" ELSE "hlt"
          BY <1>4, <2>5, <3>3, <3>4
        <4>3. Scanning' /\ JumpsAllowed'
          BY <4>2 DEF Scanning, JumpsAllowed
        <4>4. Len(Cells(own)') = Len(Cells(own))
          BY <1>1 DEF Cells
        <4>5. Passing'
          BY <1>1, <1>2, <1>3, <3>2, <3>4, <4>1, <4>2, <4>4 DEF Passing, Cells
        <4>6. HaltsRightly'
          BY <1>1, <1>3, <4>1, <4>2 DEF HaltsRightly, Passes, IInv, NotFini
        <4> QED
          BY <1>6, <1>7, <1>8, <4>3, <4>5, <4>6 DEF IInv
      <3>5. CASE rax[2] < Len(Cells(own))
        <4>1. pc' = "loop"
          BY <1>2, <1>4, <2>1, <2>5, <3>3, <3>5
        <4>2. Scanning'
          BY <1>1, <1>2, <2>1, <3>1, <3>2, <3>5 DEF Scanning, Cells
        <4> QED
          BY <1>6, <1>7, <1>8, <4>1, <4>2
             DEF IInv, Passing, JumpsAllowed, HaltsRightly
      <3> QED
        BY <1>2, <2>1, <3>4, <3>5
    <2> QED
      BY <2>4, <2>5
  <1> QED
    BY <1>9, <1>10

\* Every step keeps the invariant.
LEMMA NextIInv == IInv /\ [Next]_vars => IInv'
  <1> SUFFICES ASSUME IInv, [Next]_vars PROVE IInv'
    OBVIOUS
  <1>1. ASSUME NEW t \in 1 .. Len(tables), NEW target \in Targets,
               Call(t, target)
        PROVE  IInv'
    BY <1>1, CallIInv
  <1>2. CASE Jump
    BY <1>2 DEF Jump, IInv, TypeOK, Calling, Scanning, Passing, NotFini,
                Registers, JumpsAllowed, HaltsRightly, ArgumentsKept
  <1>3. CASE UNCHANGED vars
    BY <1>3 DEF vars, IInv, TypeOK, Calling, Scanning, Passing, NotFini,
                Registers, JumpsAllowed, HaltsRightly, ArgumentsKept,
                InOwnTable, Passes, Filled, Cells
  <1> QED
    BY <1>1, <1>2, <1>3, FiniPadIInv, LoopIInv, PassPadIInv DEF Next, Step

\* The invariant of the scan of the callback table holds always
\* (emit_callback_functions).
THEOREM InductiveInvariant == Spec => []IInv
  BY InitIInv, NextIInv, PTL DEF Spec

\* Type correctness of the pads' state.
THEOREM TypeCorrect == Spec => []TypeOK
  <1>1. IInv => TypeOK
    BY DEF IInv
  <1> QED
    BY <1>1, InductiveInvariant, PTL

\* The pads of tables with entries jump only where the table or the command
\* line of create_header.py allows.
THEOREM OnlyAllowedJumps == Spec => []JumpsAllowed
  <1>1. IInv => JumpsAllowed
    BY DEF IInv
  <1> QED
    BY <1>1, InductiveInvariant, PTL

\* No call that the table or the command line allows reaches hlt, for tables
\* with and without entries.
THEOREM NoWrongHalt == Spec => []HaltsRightly
  <1>1. IInv => HaltsRightly
    BY DEF IInv
  <1> QED
    BY <1>1, InductiveInvariant, PTL

\* The scan of a table with entries stays inside the table.
THEOREM ScanStaysInTable == Spec => []StaysInTable
  <1>1. IInv => StaysInTable
    BY CallTypes DEF IInv, StaysInTable, Scanning, Passing, Calling
  <1> QED
    BY <1>1, InductiveInvariant, PTL

\* Callbacks of libraries other than through FINI find their arguments.
THEOREM CallbackArguments == Spec => []ArgumentsKept
  <1>1. IInv => ArgumentsKept
    BY DEF IInv
  <1> QED
    BY <1>1, InductiveInvariant, PTL

-----------------------------------------------------------------------------
(* The pads do not notice the calls that are made without them, and all    *)
(* calls together refine the policy.                                       *)

\* The pads do not notice the calls that are made without them.
LEMMA PadsInside == CallSpec => Spec
  <1>1. CallInit => Init
    BY DEF CallInit
  <1>2. [CallNext]_callVars => [Next]_vars
    BY DEF CallNext, callVars, PadStep, PlainCall, MaybeCall, AlwaysCall, Next, Step
  <1> QED
    BY <1>1, <1>2, PTL DEF CallSpec, Spec

\* What the policy allows depends on the tables and the libraries only.
LEMMA PolicyFixed ==
    ASSUME tables' = tables, libs' = libs
    PROVE  PolicyOf' = PolicyOf
  BY DEF PolicyOf, MaskOfTable, Cells

\* What PolicyOf says of one caller.
LEMMA PolicyEntry ==
    ASSUME NEW t \in 1 .. Len(tables)
    PROVE  /\ t \in DOMAIN PolicyOf
           /\ PolicyOf[t].window = Window(MaskOfTable(t).or, MaskOfTable(t).and)
           /\ \A x \in Targets :
                x \in PolicyOf[t].grants <=>
                    \/ \E i \in 1 .. Len(Cells(t)) : Cells(t)[i] = x
                    \/ DsoOf[x] \in LibcLibs
                    \/ tables[t].tag = Fini /\ DsoOf[x] \in FiniLibs
           /\ PolicyOf[t].unrestricted = (Len(Cells(t)) = 0)
  BY DEF PolicyOf

\* The policy grants what the pads allow.
LEMMA GrantedIsAllowed ==
    ASSUME IInv, pc # "idle"
    PROVE  /\ Policy!Granted <=> InOwnTable \/ Passes
           /\ PolicyOf[own].unrestricted <=> ~Filled
  <1>1. own \in 1 .. Len(tables) /\ r11 \in Targets
    BY DEF IInv, Calling
  <1>2. Len(Cells(own)) \in Nat
    BY <1>1, CallTypes DEF IInv
  <1>3. PolicyOf[own].unrestricted <=> ~Filled
    <2>1. PolicyOf[own].unrestricted = (Len(Cells(own)) = 0)
      BY <1>1, PolicyEntry
    <2>2. Len(Cells(own)) = 0 <=> ~Filled
      BY <1>2 DEF Filled
    <2> QED
      BY <2>1, <2>2
  <1>4. r11 \in PolicyOf[own].grants <=> InOwnTable \/ Passes
    BY <1>1, PolicyEntry DEF InOwnTable, Passes
  <1> QED
    BY <1>3, <1>4 DEF Policy!Granted

\* The masks of a library are words, one inside the other.
LEMMA TableMasks ==
    ASSUME TypeOK, NEW t \in 1 .. Len(tables)
    PROVE  /\ MaskOfTable(t).or \in Word /\ MaskOfTable(t).and \in Word
           /\ MaskOfTable(t).or \subseteq MaskOfTable(t).and
  <1>1. tables[t] \in Table
    BY DEF TypeOK
  <1>2. tables[t].tag \in Tags
    BY <1>1 DEF Table
  <1> QED
    BY <1>2, MaskAssumption DEF MaskOfTable

\* Calls that do not use a pad stay inside.
LEMMA InsideCalls ==
    ASSUME IInv, NEW t \in 1 .. Len(tables), NEW x \in Targets,
           pc = "idle", UNCHANGED vars, dest' = MaskedTarget(t, x)
    PROVE  Policy!Inside(t, x)
  <1>1. AddrOf[x] \in Word
    BY AddressAssumption
  <1>2. /\ MaskOfTable(t).or \in Word /\ MaskOfTable(t).and \in Word
        /\ MaskOfTable(t).or \subseteq MaskOfTable(t).and
    BY TableMasks DEF IInv
  <1>3. MaskedTarget(t, x) \in PolicyOf[t].window
    BY <1>1, <1>2, MaskedInWindow, PolicyEntry DEF MaskedTarget
  <1>4. AddrOf[x] \in PolicyOf[t].window => MaskedTarget(t, x) = AddrOf[x]
    BY <1>1, <1>2, WindowFixed, PolicyEntry DEF MaskedTarget
  <1>5. PolicyOf' = PolicyOf /\ pc' = pc /\ own' = own /\ r11' = r11
    BY PolicyFixed DEF vars
  <1>6. StateOf = "none" /\ StateOf' = StateOf
    BY <1>5 DEF StateOf
  <1> QED
    BY <1>3, <1>4, <1>5, <1>6 DEF Policy!Inside

\* Entering a pad asks for the target.
LEMMA PadAsks ==
    ASSUME NEW t \in 1 .. Len(tables), NEW x \in Targets,
           Call(t, x), dest' = dest
    PROVE  Policy!Ask(t, x)
  <1>1. /\ pc = "idle" /\ tables' = tables /\ libs' = libs
        /\ own' = t /\ r11' = x
        /\ pc' \in {"fini", "loop"}
    BY DEF Call
  <1>2. StateOf = "none" /\ StateOf' = "asked"
    BY <1>1 DEF StateOf
  <1> QED
    BY <1>1, <1>2, PolicyFixed DEF Policy!Ask

\* A step of a pad before the jump decides, or looks at another cell.
LEMMA PadAnswers ==
    ASSUME IInv, FiniPad \/ Loop \/ PassPad, dest' = dest
    PROVE  Policy!Grant \/ Policy!Refuse \/ UNCHANGED Policy!vars
  <1>1. /\ pc \in {"fini", "loop", "pass"}
        /\ tables' = tables /\ libs' = libs /\ own' = own /\ r11' = r11
        /\ pc' \in {"loop", "pass", "jump", "hlt"}
    BY DEF FiniPad, Loop, PassPad
  <1>2. IInv'
    BY FiniPadIInv, LoopIInv, PassPadIInv
  <1>3. StateOf = "asked" /\ PolicyOf' = PolicyOf
    BY <1>1, PolicyFixed DEF StateOf
  <1>4. InOwnTable' = InOwnTable /\ Passes' = Passes /\ Filled' = Filled
    BY <1>1 DEF InOwnTable, Passes, Filled, Cells
  <1>5. /\ Policy!Granted <=> InOwnTable \/ Passes
        /\ PolicyOf[own].unrestricted <=> ~Filled
    BY <1>1, GrantedIsAllowed
  <1>6. CASE pc' \in {"loop", "pass"}
    <2>1. StateOf' = "asked"
      BY <1>6 DEF StateOf
    <2> QED
      BY <1>1, <1>3, <2>1 DEF Policy!vars
  <1>7. CASE pc' = "jump"
    <2>1. StateOf' = "granted"
      BY <1>7 DEF StateOf
    <2>2. ~Filled \/ InOwnTable \/ Passes
      BY <1>2, <1>4, <1>7 DEF IInv, JumpsAllowed
    <2> QED
      BY <1>1, <1>3, <1>5, <2>1, <2>2 DEF Policy!Grant
  <1>8. CASE pc' = "hlt"
    <2>1. StateOf' = "refused"
      BY <1>8 DEF StateOf
    <2>2. ~InOwnTable /\ ~Passes
      BY <1>2, <1>4, <1>8 DEF IInv, HaltsRightly
    <2> QED
      BY <1>1, <1>3, <1>5, <2>1, <2>2 DEF Policy!Refuse
  <1> QED
    BY <1>1, <1>6, <1>7, <1>8

\* The jump of a pad makes the call.
LEMMA PadGoes ==
    ASSUME Jump, dest' = AddrOf[r11]
    PROVE  Policy!Go
  <1>1. /\ pc = "jump" /\ pc' = "idle"
        /\ tables' = tables /\ libs' = libs /\ own' = own /\ r11' = r11
    BY DEF Jump
  <1>2. StateOf = "granted" /\ StateOf' = "none"
    BY <1>1 DEF StateOf
  <1> QED
    BY <1>1, <1>2, PolicyFixed DEF Policy!Go

\* A step of the instrumented call is a step of the policy, or none.
LEMMA CallStep == IInv /\ [CallNext]_callVars => [Policy!Next]_(Policy!vars)
  <1> SUFFICES ASSUME IInv, [CallNext]_callVars
               PROVE  Policy!Next \/ UNCHANGED Policy!vars
    OBVIOUS
  <1>1. CASE PadStep
    BY <1>1, PadAnswers, PadGoes DEF PadStep, Policy!Next
  <1>2. ASSUME NEW t \in 1 .. Len(tables), NEW x \in Targets,
               PlainCall(t, x) \/ MaybeCall(t, x) \/ AlwaysCall(t, x)
        PROVE  Policy!Next
    <2>1. t \in DOMAIN PolicyOf
      BY PolicyEntry
    <2>2. \/ pc = "idle" /\ UNCHANGED vars /\ dest' = MaskedTarget(t, x)
          \/ Call(t, x) /\ dest' = dest
      BY <1>2 DEF PlainCall, MaybeCall, AlwaysCall
    <2>3. Policy!Inside(t, x) \/ Policy!Ask(t, x)
      BY <2>2, InsideCalls, PadAsks
    <2> QED
      BY <2>1, <2>3 DEF Policy!Next
  <1>3. CASE UNCHANGED callVars
    <2>1. /\ tables' = tables /\ libs' = libs /\ pc' = pc /\ own' = own
          /\ r11' = r11 /\ dest' = dest
      BY <1>3 DEF callVars, vars
    <2>2. StateOf' = StateOf /\ PolicyOf' = PolicyOf
      BY <2>1, PolicyFixed DEF StateOf
    <2> QED
      BY <2>1, <2>2 DEF Policy!vars
  <1> QED
    BY <1>1, <1>2, <1>3 DEF CallNext

\* Masked calls, pads and tables implement the policy: every call of every
\* library stays in its window or is answered as its table says.
THEOREM CallsImplementPolicy == CallSpec => ImplementsPolicy
  <1>1. CallInit => Policy!Init
    BY DEF CallInit, Init, Policy!Init, StateOf
  <1> QED
    BY <1>1, PadsInside, InductiveInvariant, CallStep, PTL
       DEF CallSpec, ImplementsPolicy, Policy!Spec

=============================================================================
