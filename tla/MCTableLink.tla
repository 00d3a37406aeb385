----------------------------- MODULE MCTableLink ----------------------------
EXTENDS TableLink, SequencesExt

CONSTANTS LIBC, CRYPTO, LSSL, e1, e2

MCTags == {LIBC, CRYPTO, LSSL}

MCEntries == {e1, e2}

\* An application and a library: the application lists callbacks for LSSL,
\* the library adds to LIBC and CRYPTO, and a tag may recur.
Items ==
    {<<<<LSSL, a>>, <<LIBC, b>>, <<CRYPTO, c>>, <<LIBC, d>>>> :
        a, b, c, d \in SUBSET MCEntries}

Missing == {<<<<LIBC, {e1}>>, <<LSSL, {e1, e2}>>>>}

Pairs == {<<LIBC, CRYPTO>>, <<CRYPTO, LSSL>>, <<LIBC, LSSL>>, <<LSSL, LSSL>>}

\* The bound on the number of transfers.
MCFiles == [first : BoundedSeq(Pairs, 2), items : Items \cup Missing]

\* The largest offset the linker accepts, and an ordinary one.
MCOffsetOf == (e1 :> MaxOffset) @@ (e2 :> 300)

MCTagOf == (e1 :> CRYPTO) @@ (e2 :> LSSL)

MCLoadAddr == (LIBC :> 1000) @@ (CRYPTO :> 2000) @@ (LSSL :> 7000)

MCTagValue == [t \in MCTags |-> 40]

=============================================================================
