-------------------------- MODULE MCPhysicalManager --------------------------
(***************************************************************************)
(* A machine of 32 blocks of 4 bytes below its "4 GB", with four bits to a *)
(* byte and one byte to a word, so that the map of 16 blocks takes one     *)
(* block, and the windows of the last blocks of a word leave the map.      *)
(***************************************************************************)
EXTENDS PhysicalManager

Usable(addr, len) == [addr |-> addr, len |-> len, available |-> TRUE]
Other(addr, len) == [addr |-> addr, len |-> len, available |-> FALSE]

\* Like a PC: low memory that ends inside a block, a hole, ROM, extended
\* memory with the kernel at its start, and a device near 4 GB.
PC == <<Usable(0, 19), Other(19, 1), Other(24, 4), Usable(28, 36), Other(124, 4)>>

\* The same with more above 4 GB than below it.
LargePC == PC \o <<Other(130, 100)>>

\* More reserved than usable, so that g_maxBlocks - g_usedBlocks wraps.
MostlyReserved == <<Usable(0, 44), Other(44, 76)>>

\* Entries out of order, and a reserved one over a usable one.
Overlapping == <<Usable(20, 44), Other(40, 8), Usable(0, 20)>>

\* Available memory that ends and begins again in the middle of a block.
Unaligned == <<Usable(0, 18), Usable(22, 42)>>

\* A little less memory than fills the last block of the map.
Small == <<Usable(0, 20), Other(20, 4), Usable(24, 36)>>

MCMachines == {PC, LargePC, MostlyReserved, Overlapping, Unaligned}
MCSmall == {Small}
MCGarbage == {{}, 0 .. 31, {b \in 0 .. 31 : b % 2 = 0}}
=============================================================================
