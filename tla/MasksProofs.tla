----------------------------- MODULE MasksProofs -----------------------------
(***************************************************************************)
(* What masking does to every target, for words of every width.            *)
(***************************************************************************)
EXTENDS Masks, TLAPS

\* A masked call ends in the window of the masks, whatever its target was
\* (instrumentNormalCase, and the masking PLT stubs).
THEOREM MaskedInWindow ==
    ASSUME NEW t \in Word, NEW o \in Word, NEW e \in Word, o \subseteq e
    PROVE  Masked(t, o, e) \in Window(o, e)
  BY DEF Masked, Window, Word

\* Exactly the targets of the window are left as they are.
THEOREM WindowFixed ==
    ASSUME NEW t \in Word, NEW o \in Word, NEW e \in Word, o \subseteq e
    PROVE  Masked(t, o, e) = t <=> t \in Window(o, e)
  BY DEF Masked, Window, Word

\* Masking twice is masking once: a pointer masked by a PLT stub that passes
\* it on and again at the call goes to the same place.
THEOREM MaskedTwice ==
    ASSUME NEW t \in Word, NEW o \in Word, NEW e \in Word, o \subseteq e
    PROVE  Masked(Masked(t, o, e), o, e) = Masked(t, o, e)
  BY DEF Masked

\* Without mitigation, calls go where the program says.
THEOREM Unmitigated ==
    ASSUME NEW t \in Word, NEW s \in Word, NEW e \in Word
    PROVE  Masked(t, OrMask(FALSE, s), AndMask(FALSE, e)) = t
  BY DEF Masked, OrMask, AndMask, Word

\* Two objects whose masks differ in a bit that one forces to one and the
\* other to zero never reach the same address.
THEOREM WindowsDisjoint ==
    ASSUME NEW o1 \in Word, NEW e1 \in Word, NEW o2 \in Word, NEW e2 \in Word,
           NEW i \in Bit, i \in o1, i \notin e2
    PROVE  Window(o1, e1) \cap Window(o2, e2) = {}
  BY DEF Window

\* The common prefix of two words is a word and part of the second.
LEMMA PrefixIn ==
    ASSUME NEW a \in Word, NEW b \in Word
    PROVE  CommonPrefix(a, b) \in Word /\ CommonPrefix(a, b) \subseteq b
  <1>1. CommonPrefix(a, b) \subseteq Bit
    BY DEF CommonPrefix, Word
  <1>2. ASSUME NEW i \in CommonPrefix(a, b) PROVE i \in b
    <2>1. i \in Bit /\ i >= i
      BY <1>1 DEF Bit
    <2> QED
      BY <2>1 DEF CommonPrefix
  <1> QED
    BY <1>1, <1>2 DEF Word

\* A word between a and b agrees with them in every bit above which, and in
\* which, they agree.
LEMMA Between ==
    ASSUME NEW a \in Word, NEW b \in Word, NEW t \in Word,
           AtMost(a, t), AtMost(t, b),
           NEW i \in Bit, \A j \in Bit : j >= i => (j \in a <=> j \in b)
    PROVE  i \in a <=> i \in t
  <1>1. CASE a = t \/ t = b
    BY <1>1 DEF Bit
  <1>2. CASE Less(a, t) /\ Less(t, b)
    <2>1. PICK p \in Bit : /\ p \in t /\ p \notin a
                           /\ \A j \in Bit : j > p => (j \in a <=> j \in t)
      BY <1>2 DEF Less
    <2>2. PICK q \in Bit : /\ q \in b /\ q \notin t
                           /\ \A j \in Bit : j > q => (j \in t <=> j \in b)
      BY <1>2 DEF Less
    <2>3. CASE p < i /\ q < i
      BY <2>1, <2>3 DEF Bit
    <2>4. CASE p >= i /\ q < p
      <3>1. p \in t <=> p \in b
        BY <2>2, <2>4 DEF Bit
      <3>2. p \in a <=> p \in b
        BY <2>4
      <3> QED
        BY <2>1, <3>1, <3>2
    <2>5. CASE q >= i /\ p < q
      <3>1. q \in a <=> q \in t
        BY <2>1, <2>5 DEF Bit
      <3>2. q \in a <=> q \in b
        BY <2>5
      <3> QED
        BY <2>2, <3>1, <3>2
    <2>6. p # q
      BY <2>1, <2>2
    <2> QED
      BY <2>3, <2>4, <2>5, <2>6 DEF Bit
  <1> QED
    BY <1>1, <1>2 DEF AtMost

\* Calls inside an object's own code are not changed: every address between
\* the first (a) and the last (b) of the code is left as it is by the masks
\* _dl_map_segments computes, because the last address ends in ones.
THEOREM OwnCodeKept ==
    ASSUME NEW a \in Word, NEW b \in Word, NEW t \in Word,
           AtMost(a, t), AtMost(t, b), EndsInOnes(a, b)
    PROVE  Masked(t, CommonPrefix(a, b), b) = t
  <1> DEFINE o == CommonPrefix(a, b)
  <1>1. o \subseteq t
    <2> SUFFICES ASSUME NEW i \in o PROVE i \in t
      OBVIOUS
    <2>1. i \in Bit /\ i \in a /\ \A j \in Bit : j >= i => (j \in a <=> j \in b)
      BY DEF CommonPrefix, Word
    <2> QED
      BY <2>1, Between
  <1>2. t \subseteq b
    <2> SUFFICES ASSUME NEW i \in t PROVE i \in b
      OBVIOUS
    <2>1. i \in Bit
      BY DEF Word
    <2>2. CASE \E h \in Bit : h >= i /\ ~(h \in a <=> h \in b)
      BY <2>1, <2>2 DEF EndsInOnes
    <2>3. CASE \A h \in Bit : h >= i => (h \in a <=> h \in b)
      <3>1. i \in a <=> i \in t
        BY <2>1, <2>3, Between
      <3> QED
        BY <2>1, <2>3, <3>1 DEF Bit
    <2> QED
      BY <2>2, <2>3
  <1> QED
    BY <1>1, <1>2, PrefixIn DEF Masked

=============================================================================
