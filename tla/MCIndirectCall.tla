---------------------------- MODULE MCIndirectCall ----------------------------
EXTENDS IndirectCall, SequencesExt

CONSTANTS t1, t2, t3, d1, d2, d3

MCTargets == {t1, t2, t3}

MCDsos == {d1, d2, d3}

MCDsoOf == (t1 :> d1) @@ (t2 :> d2) @@ (t3 :> d3)

\* The libraries the command line may exempt: none, or one of each kind.
MCLibs == {{}, {d1}} \X {{}, {d2}}

\* The cells of a table hold no entry twice (generate_files).
Lists == {s \in BoundedSeq(MCTargets, 2) : IsInjective(s)}

\* LIBC ends with &main, here t1; the other tables may have any entries.
LibcLists == {Append(s, t1) : s \in {l \in Lists : t1 \notin ToSet(l)}}

\* A third table with at most one entry.
Short == {l \in Lists : Len(l) < 2}

Tbl(g, c) == [tag |-> g, cells |-> c]

MCLayouts ==
    {[tables |-> t, fini |-> l[1], libc |-> l[2]] :
        l \in MCLibs,
        t \in {<<Tbl("LIBC", a), Tbl("FINI", b), Tbl("THREADKEY", c)>> :
                  a \in LibcLists, b \in Lists, c \in Short}
              \cup
              {<<Tbl("LIBC", a), Tbl("THREADKEY", b), Tbl("CRYPTO", c)>> :
                  a \in LibcLists, b \in Lists, c \in Short}}

\* The THREADKEY list callback_parser.py prints is empty.
EmptyLayouts ==
    {[tables |-> <<Tbl("LIBC", a), Tbl("THREADKEY", <<>>)>>,
      fini |-> {}, libc |-> {}] : a \in LibcLists}

MCTags == {"LIBC", "FINI", "THREADKEY", "CRYPTO"}

MCPadOnly == {"FINI", "THREADKEY"}

\* Two-bit addresses: the code of libc is 0 and 1, that of libcrypto 2 and 3.
MCAddrOf == (t1 :> {0}) @@ (t2 :> {1}) @@ (t3 :> {0, 1})

MCMaskOf ==
    [g \in MCTags |-> IF g = "CRYPTO" THEN [or |-> {1}, and |-> {0, 1}]
                                      ELSE [or |-> {}, and |-> {0}]]

=============================================================================
