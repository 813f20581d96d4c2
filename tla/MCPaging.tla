------------------------------ MODULE MCPaging ------------------------------
(***************************************************************************)
(* 32 blocks of 4 bytes, eight bits to a word and four to a byte; 13 pages *)
(* to a table, so that the first table maps blocks 0 to 12 to themselves   *)
(* (the "first 4 MB") and the memory goes on past them.  The map is in     *)
(* blocks 5 and 6, the kernel in block 7.                                  *)
(***************************************************************************)
EXTENDS Paging

Usable(addr, len) == [addr |-> addr, len |-> len, available |-> TRUE]
Other(addr, len) == [addr |-> addr, len |-> len, available |-> FALSE]

\* Memory up to an address, and two blocks that are found free only when another
\* block is looked for.
Machine(end) ==
    <<Usable(0, end), Other(end, 68 - end), Usable(68, 4), Other(72, 28),
      Usable(100, 4), Other(104, 24)>>

\* Too little for the directory, or for one of the tables; memory that ends where
\* the first table does; memory that ends one block past it; and memory that goes
\* on past the word whose search leaves the mapped bytes.  The last two have holes.
MCMachines ==
    {Machine(end) : end \in {12, 16, 20, 52}}
        \cup {Append(Machine(56), Other(44, 4)), <<Usable(0, 128), Other(44, 8)>>}
\* Past the map the bits are 0.
MCGarbage == {{}}
MCClientPages == {14, 15, 26}
=============================================================================
