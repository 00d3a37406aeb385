----------------------------- MODULE MCPltLayout -----------------------------
(* Instances of PltLayout for TLC.                                         *)
EXTENDS PltLayout

Functions == Funcs \ StartMain

\* A shared object such as libc.so: two functions, each of them called,
\* address-taken in data or through a relaxable .got load, or any mix of
\* these; a placeholder; the two masks.
DsoLink ==
    [shared |-> TRUE,
     relocs |-> [sym : Functions, kind : {"plt32", "abs64", "gotpcrelx"}]
                  \cup [sym : Placeholders, kind : {"plt32", "gotpcrelx"}]
                  \cup [sym : OrMasks \cup AndMasks, kind : {"pc32"}]]

\* An executable: canonical PLT entries and __libc_start_main.
ExeLink ==
    [shared |-> FALSE,
     relocs |-> [sym : Functions, kind : {"plt32", "gotpcrelx", "pc32"}]
                  \cup [sym : StartMain, kind : {"gotpcrel"}]
                  \cup [sym : OrMasks, kind : {"gotpcrelx"}]]

BothLinks == {DsoLink, ExeLink}

ExeLinks == {ExeLink}

=============================================================================
