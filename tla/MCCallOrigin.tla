---------------------------- MODULE MCCallOrigin ----------------------------
EXTENDS CallOrigin, TLC

\* Every graph on four values where the last has no operands and the others
\* have up to two, in either order; only the last may be marked.
MCChains ==
    LET ops == {<<>>} \cup {<<a>> : a \in Nodes} \cup (Nodes \X Nodes)
    IN {[operands |-> (1 :> a @@ 2 :> b @@ 3 :> c @@ 4 :> <<>>), marked |-> m] :
          a \in ops, b \in ops, c \in ops, m \in {{}, {4}}}

\* Calls that reach the search, for each graph, and all the others.
Ordinary ==
    [speedtest |-> FALSE, loader |-> FALSE, finiFile |-> FALSE, fn |-> "other",
     annotated |-> FALSE, global |-> FALSE, shape |-> "unknown"]
MCSearched == {Ordinary, [Ordinary EXCEPT !.global = TRUE]}
MCOthers ==
    {c \in [speedtest : BOOLEAN, loader : BOOLEAN, finiFile : BOOLEAN,
            fn : {"exempt", "tsd", "fini", "libc", "other"}, annotated : BOOLEAN,
            global : BOOLEAN, shape : {"function", "match", "rtld"}] :
        /\ c.fn = "fini" <=> c.finiFile
        /\ c.global => c.shape # "function"}
MCCases ==
    [chain : MCChains, call : MCSearched]
      \cup [chain : {[operands |-> [n \in Nodes |-> <<>>], marked |-> {1}]},
            call : MCOthers \cup MCSearched]
=============================================================================
