----------------------------- MODULE MCPlacement -----------------------------
EXTENDS Placement

Obj(exec, mapstart, len, align) ==
    [exec |-> exec, mapstart |-> mapstart, len |-> len, align |-> align]

\* Code of less than a block, of a whole block, of more than a block and as
\* large as the gap allows; an object aligned to two pages; one without code.
MCObjects == {Obj(1, 1, 3, 1), Obj(5, 2, 8, 1), Obj(33, 1, 36, 1), Obj(16, 0, 16, 1),
              Obj(2, 2, 5, 2), Obj(0, 0, 4, 1)}

Main(exec, mapstart, len, aligned, init) ==
    [exec |-> exec, mapstart |-> mapstart, len |-> len, aligned |-> aligned,
     init |-> init]

\* In the upper half, where the kernel puts a position-independent program.
MCMains == {Main(6, 2, 10, FALSE, 4396), Main(16, 1, 20, TRUE, 4396)}

\* ld.so and the stack.
MCBusy == {{8184, 8185, 8191}}

\* Near the top, where the kernel puts shared objects, and, below, pages a
\* program may have mapped itself.
MCPicks == {8144, 8111, 8063, 7044}

\* The address space of this instance has the room the proofs ask for.
ASSUME RoomEnough == MainRoom /\ Apart

=============================================================================
