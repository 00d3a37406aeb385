---------------------------- MODULE MCSymbolLookup ----------------------------
EXTENDS SymbolLookup, TLC

CONSTANTS a, b, c, d, t1, t2, m1, m2

MCNames == {a, b, c, d}

\* Two functions whose names differ in the last letter.
MCStem == (a :> "a") @@ (b :> "md5_") @@ (c :> "md5_") @@ (d :> "d")

Identity == [n \in 1 .. Slots |-> n]

Swapped(i, j) == [Identity EXCEPT ![i] = j, ![j] = i]

\* The placeholders in order, and orders that put one of them elsewhere.
MCOrders == {Identity, Swapped(1, 10), Swapped(1, 2), Swapped(2, 3)}

InOrders == {Identity}

Ph(n, x) == [num |-> n, name |-> x]

\* No, one or several placeholders; a gap; one function twice; a name that
\* nothing defines; one for every stub of libc.
MCMainSyms ==
    {<<>>, <<Ph(2, b), Ph(1, a)>>, <<Ph(1, a), Ph(3, c)>>,
     <<Ph(1, a), Ph(2, b), Ph(3, c)>>, <<Ph(1, a), Ph(2, d)>>,
     [n \in 1 .. 10 |-> Ph(n, IF n = 2 THEN b ELSE a)]}

\* scripts/README.md: placeholders for functions of two NSS modules.
NssMainSyms == {<<Ph(1, a), Ph(2, b)>>}

MCPrograms ==
    {(t1 :> "dlsym") @@ (t2 :> "dlsym"),
     (t1 :> "nss") @@ (t2 :> "none"),
     (t1 :> "nss") @@ (t2 :> "dlsym"),
     (t1 :> "nss") @@ (t2 :> "nss")}

NssPrograms == {(t1 :> "nss") @@ (t2 :> "nss")}

MCFunctionsOf == (m1 :> <<a, d>>) @@ (m2 :> <<b>>)

=============================================================================
