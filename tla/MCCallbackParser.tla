-------------------------- MODULE MCCallbackParser --------------------------
(***************************************************************************)
(* A binary with two libraries.  "free" is exported by libc and has both   *)
(* stubs, "digest" by libcrypto and has one in .plt.sec, "lost" has none,  *)
(* and "wrap" is the binary's own and has one all the same.                *)
(***************************************************************************)
EXTENDS CallbackParser, TLC

CONSTANTS libc, crypto

MCLibs    == <<crypto, libc>>
MCTagOf   == (libc :> "LIBC") @@ (crypto :> "CRYPTO")
MCExports == (libc :> {"qsort", "__cxa_atexit", "free", "lost"})
               @@ (crypto :> {"set_cb", "digest"})
MCOwn     == {"cmp", "bye", "wrap"}
MCReachable == ("LIBC" :> {}) @@ ("CRYPTO" :> {"stack"})

Call(f, c, i)    == [kind |-> "call", fn |-> f, callee |-> c, index |-> i]
StoredIn(f, s)   == [kind |-> "stored", fn |-> f, struct |-> s]
Global(f)        == [kind |-> "global", fn |-> f]
May(f, i, s)     == [kind |-> "may", fn |-> f, index |-> i, struct |-> s]
Argument(f, s)   == [kind |-> "argument", fn |-> f, struct |-> s]

CallLines ==
    {Call("qsort", "cmp", 3), Call("atexit", "bye", 0), Call("wrap", "cmp", 1),
     Call("set_cb", "cmp", 1), Call("set_cb", "digest", 1),
     Call("set_cb", "free", 1), Call("qsort", "free", 3)}
OtherLines ==
    {StoredIn("cmp", "stack"), StoredIn("free", "stack"), Global("digest"),
     StoredIn("bye", "conf"), May("set_cb", 1, "conf"), May("set_cb", 2, "conf"),
     Argument("qsort", "ctx")}

\* A line of each kind that needs the others to have an effect.
LongLogs ==
    {<<Call("set_cb", "cmp", 1), StoredIn("wrap", "conf"), May("set_cb", 1, "conf"),
       Call("wrap", "bye", 0)>>,
     <<Call("qsort", "unknown", 3), StoredIn("bye", "conf"), May("qsort", 3, "conf")>>,
     <<Call("qsort", "lost", 3), Call("qsort", "cmp", 3)>>,
     <<Call("set_cb", "cmp", 1), StoredIn("lost", "stack"), StoredIn("wrap", "stack")>>,
     <<Call("qsort", "cmp", 3), Call("set_cb", "cmp", 1), StoredIn("wrap", "conf"),
       May("set_cb", 1, "conf"), May("qsort", 3, "conf"), Call("wrap", "bye", 0)>>}

MCLogs ==
    LET L == CallLines \cup OtherLines
    IN {<<a>> : a \in L} \cup (L \X L) \cup (CallLines \X L \X OtherLines) \cup LongLogs

Redirect(g, f) == [kind |-> "function", fn |-> g, name |-> f]
Fills(g, s)    == [kind |-> "struct", fn |-> g, name |-> s]
MCSyms ==
    LET S == {Redirect("wrap", "qsort"), Redirect("wrap", "set_cb"), Fills("wrap", "ctx")}
    IN {<<>>} \cup {<<a>> : a \in S} \cup (S \X S)

MCInputs == [lines : MCLogs, sym : MCSyms, main : BOOLEAN]
MCInit_  == {<<"MB", "code", "ctor">>}
MCFini   == {<<"MB", "code", "dtor">>}
=============================================================================
