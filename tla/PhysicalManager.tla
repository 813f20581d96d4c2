--------------------------- MODULE PhysicalManager ---------------------------
(***************************************************************************)
(* The allocator of physical memory (memory/physical_manager.c), and how   *)
(* kernel_main sets it up from the memory map the boot loader hands over   *)
(* (memory/memmap.c, main.c): one bit per block, 1 when the block is used. *)
(*                                                                         *)
(* Sizes are constants, so that a small machine can be checked; on the     *)
(* real one BLOCK_SIZE = 4096, BLOCKS_PER_BYTE = 8, WORD = 32 and          *)
(* LIMIT = UINT = 2^32.  The boot loader is taken to set the flag that     *)
(* says there is a memory map.                                             *)
(*                                                                         *)
(* A definition with the suffix _Slip is the one without it with a slip    *)
(* the code could have; no action uses it.                                 *)
(***************************************************************************)
EXTENDS Integers, Sequences, FiniteSets

CONSTANTS
    BLOCK_SIZE,       \* bytes in a block
    BLOCKS_PER_BYTE,  \* bits in a byte
    WORD,             \* bits in one element of g_memoryMap
    LIMIT,            \* 4 GB, in bytes
    UINT,             \* a uint32_t wraps here
    MEMMAP_AREA, KERNEL_BASE, KERNEL_SIZE,  \* in bytes
    Machines,  \* the memory maps to boot with: sequences of [addr, len, available]
    Garbage,   \* the bits that may be 1 before anything sets them, past the map too
    Requests   \* the numbers of blocks clients ask for

\* The blocks below 4 GB.
Blocks == 0 .. LIMIT \div BLOCK_SIZE - 1

ASSUME SizesAssumption ==
    /\ \A k \in {BLOCK_SIZE, BLOCKS_PER_BYTE, WORD, LIMIT, UINT} : k \in Nat /\ k > 0
    /\ \A k \in {MEMMAP_AREA, KERNEL_BASE, KERNEL_SIZE} : k \in Nat
    /\ KERNEL_BASE < LIMIT /\ MEMMAP_AREA < LIMIT
\* The memset covers the words that are searched (32 is a multiple of 8).
ASSUME WholeWordsAssumption ==
    \A blocks \in 0 .. LIMIT \div BLOCK_SIZE :
        (blocks \div WORD) * WORD <= (blocks \div BLOCKS_PER_BYTE) * BLOCKS_PER_BYTE
ASSUME MachinesAssumption ==
    \A m \in Machines :
        m \in Seq([addr : Nat, len : Nat, available : BOOLEAN])
ASSUME ClientsAssumption ==
    Garbage \subseteq SUBSET Nat /\ Requests \subseteq Nat \ {0}

VARIABLES
    g_memoryMap,  \* the bits that are 1
    g_maxBlocks, g_usedBlocks,
    mbinfo,       \* the memory map of this machine
    boot,         \* how far kernel_main is
    entry,        \* the entry of mbinfo its loop is at
    total_mem,
    owners        \* history: how many live allocations each block is in

allocator == <<g_memoryMap, g_maxBlocks, g_usedBlocks>>
progress == <<boot, entry, total_mem>>
vars == <<allocator, mbinfo, progress, owners>>

-----------------------------------------------------------------------------
(* physical_manager.c *)

\* check_block().  Bits past the map are whatever memory is there.
check_block(bit) == bit \in g_memoryMap

\* The window whose free blocks find_first_free_block() counts before it
\* returns block j of a word: it starts at INDEX_MMAP(i, 1 << j), not at
\* INDEX_MMAP(i, j), and is one block too long.
Window(block, n) ==
    {block - (block % WORD) + 2 ^ (block % WORD) + count : count \in 0 .. n}
EnoughFree(block, n) == Cardinality({b \in Window(block, n) : ~ check_block(b)}) >= n

\* The blocks of the whole words of the map, and those of them that
\* find_first_free_block(n) may return; it returns the first.
Scanned == 0 .. (g_maxBlocks \div WORD) * WORD - 1
Candidate(block, n) == ~ check_block(block) /\ EnoughFree(block, n)
Candidates(n) == {b \in Scanned : Candidate(b, n)}

\* What the memset of Memory_Manager_Init sets: whole bytes.
Cleared(blocks) == 0 .. (blocks \div BLOCKS_PER_BYTE) * BLOCKS_PER_BYTE - 1

\* Memory_Manager_Init(MEMMAP_AREA, size)
Memory_Manager_Init_Slip(size) ==
    /\ g_maxBlocks' = size \div BLOCK_SIZE
    /\ g_usedBlocks' = g_maxBlocks'
    /\ g_memoryMap' = g_memoryMap \cup Cleared(g_maxBlocks')
Memory_Manager_Init(size) ==
    /\ g_maxBlocks' = (IF size > LIMIT THEN LIMIT ELSE size) \div BLOCK_SIZE
    /\ g_usedBlocks' = g_maxBlocks'
    /\ g_memoryMap' = g_memoryMap \cup Cleared(g_maxBlocks')

\* The blocks of a region, its start and its length rounded down, cut off at 4 GB.
Region_Slip(base, size) ==
    LET length == IF base + size > LIMIT THEN LIMIT - base ELSE size
    IN  base \div BLOCK_SIZE ..
            base \div BLOCK_SIZE + (length + BLOCK_SIZE - 1) \div BLOCK_SIZE - 1
Region(base, size) ==
    LET length == IF base + size > LIMIT THEN LIMIT - base ELSE size
    IN  base \div BLOCK_SIZE .. base \div BLOCK_SIZE + length \div BLOCK_SIZE - 1

\* Block 0 stays used, whatever region is freed.
initialize_region_Slip(base, size) ==
    /\ g_memoryMap' = g_memoryMap \ Region(base, size)
    /\ g_usedBlocks' = (g_usedBlocks - Cardinality(Region(base, size))) % UINT
    /\ UNCHANGED g_maxBlocks
initialize_region(base, size) ==
    /\ g_memoryMap' = (g_memoryMap \ Region(base, size)) \cup {0}
    /\ g_usedBlocks' = (g_usedBlocks - Cardinality(Region(base, size))) % UINT
    /\ UNCHANGED g_maxBlocks

deinitialize_region(base, size) ==
    /\ g_memoryMap' = g_memoryMap \cup Region(base, size)
    /\ g_usedBlocks' = (g_usedBlocks + Cardinality(Region(base, size))) % UINT
    /\ UNCHANGED g_maxBlocks

\* allocate_blocks(n): the block handed out first, or 0 (no block).
Run(block, n) == block .. block + n - 1
EnoughLeft(n) == (g_maxBlocks - g_usedBlocks) % UINT >= n

TakeBlocks_Slip(block, n) ==
    /\ g_memoryMap' = g_memoryMap \cup {block + n}
    /\ g_usedBlocks' = (g_usedBlocks + n) % UINT
    /\ UNCHANGED g_maxBlocks
TakeBlocks(block, n) ==
    /\ g_memoryMap' = g_memoryMap \cup Run(block, n)
    /\ g_usedBlocks' = (g_usedBlocks + n) % UINT
    /\ UNCHANGED g_maxBlocks

\* free_blocks(block, n)
free_blocks(block, n) ==
    /\ g_memoryMap' = g_memoryMap \ Run(block, n)
    /\ g_usedBlocks' = (g_usedBlocks - n) % UINT
    /\ UNCHANGED g_maxBlocks

-----------------------------------------------------------------------------
(* kernel_main *)

Init ==
    /\ g_memoryMap \in Garbage
    /\ g_maxBlocks = 0 /\ g_usedBlocks = 0
    /\ mbinfo \in Machines
    /\ boot = "get_total_mem" /\ entry = 1 /\ total_mem = 0
    /\ owners = [b \in Blocks |-> 0]

\* get_total_mem(): the lengths of all the entries, usable or not.
get_total_mem ==
    /\ boot = "get_total_mem"
    /\ entry \in DOMAIN mbinfo
    /\ total_mem' = total_mem + mbinfo[entry].len
    /\ entry' = entry + 1
    /\ UNCHANGED <<allocator, mbinfo, boot, owners>>

InitializeMap ==
    /\ boot = "get_total_mem"
    /\ entry \notin DOMAIN mbinfo
    /\ Memory_Manager_Init(total_mem)
    /\ boot' = "set_type1" /\ entry' = 1
    /\ UNCHANGED <<mbinfo, total_mem, owners>>

\* One round of set_type1(); an entry above 4 GB is skipped.
SetRegion(region) ==
    IF region.addr >= LIMIT THEN UNCHANGED allocator
    ELSE IF region.available THEN initialize_region(region.addr, region.len)
    ELSE deinitialize_region(region.addr, region.len)

set_type1 ==
    /\ boot = "set_type1"
    /\ entry \in DOMAIN mbinfo
    /\ SetRegion(mbinfo[entry])
    /\ entry' = entry + 1
    /\ UNCHANGED <<mbinfo, boot, total_mem, owners>>

\* The bytes of the map that kernel_main sets aside.
MapBytes == (total_mem \div BLOCK_SIZE) \div BLOCKS_PER_BYTE

ReserveKernel_Slip ==
    /\ boot = "set_type1"
    /\ entry \notin DOMAIN mbinfo
    /\ boot' = "reserve"
    /\ UNCHANGED <<allocator, mbinfo, entry, total_mem, owners>>
ReserveKernel ==
    /\ boot = "set_type1"
    /\ entry \notin DOMAIN mbinfo
    /\ deinitialize_region(KERNEL_BASE, KERNEL_SIZE)
    /\ boot' = "reserve"
    /\ UNCHANGED <<mbinfo, entry, total_mem, owners>>
ReserveMap ==
    /\ boot = "reserve"
    /\ deinitialize_region(MEMMAP_AREA, MapBytes)
    /\ boot' = "ready"
    /\ UNCHANGED <<mbinfo, entry, total_mem, owners>>

-----------------------------------------------------------------------------
(* The clients: Page_Manager_Init, map_page, PFHandler, allocate_page,      *)
(* free_page.  They free what they were given.                              *)

Allocate(n) ==
    /\ boot = "ready"
    /\ EnoughLeft(n)
    /\ \E block \in Candidates(n) :
           /\ \A other \in 0 .. block - 1 : ~ Candidate(other, n)
           /\ TakeBlocks(block, n)
           /\ owners' = [b \in Blocks |->
                            IF b \in Run(block, n) THEN owners[b] + 1 ELSE owners[b]]
    /\ UNCHANGED <<mbinfo, progress>>

Free(block, n) ==
    /\ boot = "ready"
    /\ \A b \in Run(block, n) : b \in Blocks /\ owners[b] > 0
    /\ free_blocks(block, n)
    /\ owners' = [b \in Blocks |->
                     IF b \in Run(block, n) THEN owners[b] - 1 ELSE owners[b]]
    /\ UNCHANGED <<mbinfo, progress>>

BootStep == get_total_mem \/ InitializeMap \/ set_type1 \/ ReserveKernel \/ ReserveMap

Next ==
    \/ BootStep
    \/ \E n \in Requests : Allocate(n)
    \/ \E n \in Requests, block \in Blocks : Free(block, n)

Spec == Init /\ [][Next]_vars

-----------------------------------------------------------------------------
(* Properties *)

TypeOK ==
    /\ g_memoryMap \subseteq Nat
    /\ g_maxBlocks \in 0 .. LIMIT \div BLOCK_SIZE
    /\ g_usedBlocks \in Nat
    /\ mbinfo \in Machines
    /\ boot \in {"get_total_mem", "set_type1", "reserve", "ready"}
    /\ entry \in Nat \ {0} /\ total_mem \in Nat
    /\ owners \in [Blocks -> Nat]

\* No block is in two live allocations.
NoDoubleAllocation == \A b \in Blocks : owners[b] <= 1

\* What nobody may be given: block 0, which is also the answer for "no block",
\* the kernel, and the part of the map that kernel_main set aside.
Reserved == {0} \cup Region(KERNEL_BASE, KERNEL_SIZE) \cup Region(MEMMAP_AREA, MapBytes)
ReservedStaysUsed == \A b \in Blocks \cap Reserved : owners[b] = 0

\* Every byte of a block that is handed out is in an entry that the boot loader
\* called available, whatever another entry says of it; but for those before the
\* start of such an entry in the middle of the block, which the rounding of the
\* start gives away with it (physical_manager.c:76).
Bytes(b) == b * BLOCK_SIZE .. b * BLOCK_SIZE + BLOCK_SIZE - 1
AvailableEntries == {mbinfo[e] : e \in {k \in DOMAIN mbinfo : mbinfo[k].available}}
OnlyAvailableMemory ==
    \A b \in Blocks : owners[b] > 0 =>
        \A byte \in Bytes(b) : \E e \in AvailableEntries :
            \/ byte \in e.addr .. e.addr + e.len - 1
            \/ e.addr \div BLOCK_SIZE = b /\ byte < e.addr

\* The blocks the bits of the map itself are in: those the allocator sets,
\* clears and searches.
MapBlocks ==
    {(MEMMAP_AREA + bit \div BLOCKS_PER_BYTE) \div BLOCK_SIZE : bit \in 0 .. g_maxBlocks - 1}

\* "set certain regions for kernel and mmap as used" (main.c): no client is
\* given memory that the map is in.
MapNotHandedOut == \A b \in Blocks \cap MapBlocks : owners[b] = 0

\* "no free space large enough" (physical_manager.c): a request for one block
\* is turned down only when no block find_first_free_block() scans is free.
Refused(n) == boot = "ready" /\ ~ (EnoughLeft(n) /\ Candidates(n) # {})
RefusedOnlyWhenFull ==
    Refused(1) => \A b \in Scanned : check_block(b)
=============================================================================
