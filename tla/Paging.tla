------------------------------- MODULE Paging -------------------------------
(***************************************************************************)
(* Virtual memory (memory/page.c) on top of the physical allocator: the    *)
(* page directory and its tables, the page-fault handler, the TLB.         *)
(*                                                                         *)
(* Once paging is on the kernel reaches a page table, and the allocator    *)
(* its bitmap, at their physical address taken as a virtual one, which is  *)
(* right only in the first 4 MB.  Past them, the access is itself a page   *)
(* fault, inside the call that made it; so calls are a stack.              *)
(*                                                                         *)
(* An address is the number of its page or block.  Block 0 is never handed *)
(* out and stands for "none", as in the code.  All accesses are the        *)
(* kernel's; write protection does not apply to it.                        *)
(***************************************************************************)
EXTENDS PhysicalManager

CONSTANTS
    PAGES_PER_TABLE, TABLES_PER_DIRECTORY,
    HIGHER_HALF,  \* PD_INDEX(0xC0000000)
    STACK,        \* the calls that fit on the kernel's stack
    LEAKS,        \* a bound on the frames unmap_page leaves allocated
    ClientPages   \* the pages clients touch, map and free

Slots == 0 .. TABLES_PER_DIRECTORY - 1
Pages == 0 .. TABLES_PER_DIRECTORY * PAGES_PER_TABLE - 1
PD_INDEX(page) == page \div PAGES_PER_TABLE
PT_INDEX(page) == page % PAGES_PER_TABLE
KernelSlots == {0, HIGHER_HALF}

ASSUME PagesAssumption ==
    /\ PAGES_PER_TABLE \in Nat \ {0} /\ TABLES_PER_DIRECTORY \in Nat \ {0}
    /\ HIGHER_HALF \in Slots \ {0}
    /\ STACK \in Nat \ {0} /\ LEAKS \in Nat
    /\ ClientPages \subseteq {page \in Pages : PD_INDEX(page) \notin KernelSlots}
    /\ Blocks \subseteq Pages
\* The two tables made at start map memory below 4 GB, and the higher half does not map
\* memory to itself.
ASSUME KernelTablesAssumption ==
    /\ {PAGES_PER_TABLE - 1, KERNEL_BASE \div BLOCK_SIZE + PAGES_PER_TABLE - 1} \subseteq Blocks
    /\ HIGHER_HALF * PAGES_PER_TABLE # KERNEL_BASE \div BLOCK_SIZE

VARIABLES
    enabled,      \* how far Page_Manager_Init is: "dir" | "table" | "table3G" | "on" | "failed"
    g_currentPD,  \* the first block of the directory
    pd,           \* directory entries: the block of a slot's table
    tables,       \* the blocks in use as tables, and their entries
    tlb,          \* the translation the CPU holds, of frame 0 when it holds none
    calls,        \* the calls under way, the innermost last
    cpu,          \* "running" | "hung" | "overflow" | "astray"
    stale,        \* history: its page was unmapped or freed since
    detached      \* history: frames whose page was unmapped

tree == <<enabled, g_currentPD, pd, tables>>
history == <<stale, detached>>
pagingVars == <<tree, tlb, calls, cpu, history>>
physicalVars == vars
allVars == <<vars, pagingVars>>

NoTranslation == [page |-> 0, frame |-> 0]
Entries == [frame : Blocks, present : BOOLEAN]
NoEntry == [frame |-> 0, present |-> FALSE]
EmptyTable == [i \in 0 .. PAGES_PER_TABLE - 1 |-> NoEntry]

\* A table that maps a slot to consecutive blocks.
StraightTable(first) ==
    [i \in 0 .. PAGES_PER_TABLE - 1 |-> [frame |-> first + i, present |-> TRUE]]

\* get_page(virt): the entry of a page.  Where there is no table, the code takes
\* physical address 0 for one; no caller asks there.
get_page(page) ==
    IF pd[PD_INDEX(page)] = 0 THEN NoEntry ELSE tables[pd[PD_INDEX(page)]][PT_INDEX(page)]
Present(page) == get_page(page).present

\* What writing through a page's entry makes of the tables.
WithEntry(page, e) == [tables EXCEPT ![pd[PD_INDEX(page)]][PT_INDEX(page)] = e]

\* The tables once a block is used as one.
WithTable(block, table) ==
    [b \in DOMAIN tables \cup {block} |-> IF b = block THEN table ELSE tables[b]]

-----------------------------------------------------------------------------
(* allocate_blocks, seen from a kernel that pages *)

\* The page of the byte of the map that holds a bit, and whether reading it faults.
PageOfBit(bit) == (MEMMAP_AREA + bit \div BLOCKS_PER_BYTE) \div BLOCK_SIZE
Unreadable(bit) == ~ Present(PageOfBit(bit))

\* The bits find_first_free_block(1) reads at a free block; it stops at the
\* first that is free.
FirstBit(block) == block - (block % WORD) + 2 ^ (block % WORD)
\* They are in the map or behind it, below the end of the address space.
ASSUME BitsAssumption ==
    \A block \in Blocks : {PageOfBit(FirstBit(block)), PageOfBit(FirstBit(block) + 1)} \subseteq Pages
FaultingBits(block) ==
    IF Unreadable(FirstBit(block)) THEN {FirstBit(block)}
    ELSE IF check_block(FirstBit(block)) /\ Unreadable(FirstBit(block) + 1)
         THEN {FirstBit(block) + 1}
         ELSE {}

\* The search ends at the first free block where it faults or has an answer; the
\* bit it then faults on, if it does.
EndsAt(block) == ~ check_block(block) /\ (FaultingBits(block) # {} \/ EnoughFree(block, 1))
SearchFault ==
    IF ~ EnoughLeft(1) THEN {}
    ELSE UNION {FaultingBits(b) : b \in {c \in Scanned : EndsAt(c) /\ \A other \in 0 .. c - 1 : ~ EndsAt(other)}}

Refuses(n) == ~ EnoughLeft(n) \/ \A b \in Scanned : ~ Candidate(b, n)
Block(n) == CHOOSE b \in Scanned : Candidate(b, n) /\ \A other \in 0 .. b - 1 : ~ Candidate(other, n)

-----------------------------------------------------------------------------
(* Page_Manager_Init *)

InitFailed ==
    /\ enabled' = "failed"
    /\ UNCHANGED <<physicalVars, g_currentPD, pd, tables, tlb, calls, cpu, history>>

AllocateDirectory ==
    /\ boot = "ready" /\ enabled = "dir"
    /\ IF Refuses(3) THEN InitFailed
       ELSE /\ Allocate(3)
            /\ g_currentPD' = Block(3)
            /\ enabled' = "table"
            /\ UNCHANGED <<pd, tables, tlb, calls, cpu, history>>

\* The table of the higher half maps the kernel, at KERNEL_ADDRESS.
AllocateTable ==
    /\ enabled = "table"
    /\ IF Refuses(1) THEN InitFailed
       ELSE /\ Allocate(1)
            /\ tables' = WithTable(Block(1), StraightTable(KERNEL_BASE \div BLOCK_SIZE))
            /\ pd' = [pd EXCEPT ![HIGHER_HALF] = Block(1)]
            /\ enabled' = "table3G"
            /\ UNCHANGED <<g_currentPD, tlb, calls, cpu, history>>

\* The other one maps the first 4 MB to themselves; then paging goes on.
AllocateTable3G ==
    /\ enabled = "table3G"
    /\ IF Refuses(1) THEN InitFailed
       ELSE /\ Allocate(1)
            /\ tables' = WithTable(Block(1), StraightTable(0))
            /\ pd' = [pd EXCEPT ![0] = Block(1)]
            /\ enabled' = "on"
            /\ UNCHANGED <<g_currentPD, tlb, calls, cpu, history>>

Page_Manager_Init == AllocateDirectory \/ AllocateTable \/ AllocateTable3G

-----------------------------------------------------------------------------
(* Calls.  Each is at a step: "frame" (allocating the frame), "table" (map_page, *)
(* allocating a table), "clear" (memset of the table), "entry".                 *)

Call(name, page) == [name |-> name, page |-> page, step |-> "frame", frame |-> 0, table |-> 0]
Top == calls[Len(calls)]
Caller == SubSeq(calls, 1, Len(calls) - 1)
At(step) == cpu = "running" /\ calls # <<>> /\ Top.step = step
Update(call) == calls' = [calls EXCEPT ![Len(calls)] = call]
Return == calls' = Caller

\* A page fault in the middle of a call: the handler is called on top of it.
NestedFault(page) ==
    /\ IF Len(calls) < STACK
       THEN calls' = Append(calls, Call("PFHandler", page)) /\ UNCHANGED cpu
       ELSE cpu' = "overflow" /\ UNCHANGED calls
    /\ UNCHANGED <<physicalVars, tree, tlb, history>>

\* No memory: PFHandler dumps the registers and loops for ever, allocate_page
\* returns 0.
OutOfMemory_Returns ==
    /\ Return
    /\ UNCHANGED <<physicalVars, tree, tlb, cpu, history>>
OutOfMemory ==
    /\ IF Top.name = "PFHandler"
       THEN cpu' = "hung" /\ UNCHANGED calls
       ELSE Return /\ UNCHANGED cpu
    /\ UNCHANGED <<physicalVars, tree, tlb, history>>

\* allocate_blocks(1) for the call's frame.
AllocateFrame ==
    /\ At("frame")
    /\ IF SearchFault # {}
       THEN \E bit \in SearchFault : NestedFault(PageOfBit(bit))
       ELSE IF Refuses(1) THEN OutOfMemory
       ELSE /\ Allocate(1)
            /\ Update([Top EXCEPT !.frame = Block(1),
                                  !.step = IF Top.name = "PFHandler" THEN "table" ELSE "entry"])
            /\ UNCHANGED <<tree, tlb, cpu, history>>

\* map_page: a slot without a table gets one.
FindTable ==
    /\ At("table")
    /\ pd[PD_INDEX(Top.page)] # 0
    /\ Update([Top EXCEPT !.step = "entry"])
    /\ UNCHANGED <<physicalVars, tree, tlb, cpu, history>>
NewTable_Always ==
    /\ At("table")
    /\ IF Refuses(1) THEN OutOfMemory
       ELSE /\ Allocate(1)
            /\ Update([Top EXCEPT !.table = Block(1), !.step = "clear"])
            /\ UNCHANGED <<tree, tlb, cpu, history>>
NewTable ==
    /\ At("table")
    /\ pd[PD_INDEX(Top.page)] = 0
    /\ IF SearchFault # {}
       THEN \E bit \in SearchFault : NestedFault(PageOfBit(bit))
       ELSE IF Refuses(1) THEN OutOfMemory
       ELSE /\ Allocate(1)
            /\ Update([Top EXCEPT !.table = Block(1), !.step = "clear"])
            /\ UNCHANGED <<tree, tlb, cpu, history>>

\* memset(table, 0, ...) and the directory entry.  If the table's address is not
\* mapped the memset faults; if it is mapped elsewhere, the memset clears some
\* other frame and the CPU goes by a table that holds anything.
ClearTable ==
    /\ At("clear")
    /\ IF ~ Present(Top.table) THEN NestedFault(Top.table)
       ELSE IF get_page(Top.table).frame # Top.table
       THEN /\ cpu' = "astray"
            /\ UNCHANGED <<physicalVars, tree, tlb, calls, history>>
       ELSE /\ tables' = WithTable(Top.table, EmptyTable)
            /\ pd' = [pd EXCEPT ![PD_INDEX(Top.page)] = Top.table]
            /\ Update([Top EXCEPT !.step = "entry"])
            /\ UNCHANGED <<physicalVars, enabled, g_currentPD, tlb, cpu, history>>

\* The end of map_page: the entry, then the TLB; and the handler returns.
\* allocate_page sets its entry too, but flushes nothing.
MapFrame ==
    /\ Top.name = "PFHandler"
    /\ tlb' = IF tlb.page = Top.page THEN NoTranslation ELSE tlb
    /\ stale' = (stale /\ tlb.page # Top.page)
SetEntry_Absent ==
    /\ At("entry")
    /\ tables' = WithEntry(Top.page, [frame |-> Top.frame, present |-> FALSE])
    /\ MapFrame \/ (Top.name = "allocate_page" /\ UNCHANGED <<tlb, stale>>)
    /\ Return
    /\ UNCHANGED <<physicalVars, enabled, g_currentPD, pd, cpu, detached>>
SetEntry ==
    /\ At("entry")
    /\ tables' = WithEntry(Top.page, [frame |-> Top.frame, present |-> TRUE])
    /\ MapFrame \/ (Top.name = "allocate_page" /\ UNCHANGED <<tlb, stale>>)
    /\ Return
    /\ UNCHANGED <<physicalVars, enabled, g_currentPD, pd, cpu, detached>>

CallStep == AllocateFrame \/ FindTable \/ NewTable \/ ClearTable \/ SetEntry

-----------------------------------------------------------------------------
(* The clients *)

Idle == enabled = "on" /\ cpu = "running" /\ calls = <<>>

\* An access to a page the TLB does not hold: the CPU walks the tables, or faults.
\* A TLB of one entry shows each translation's whole life.
Walk(page) ==
    /\ Idle /\ tlb.page # page /\ Present(page)
    /\ tlb' = [page |-> page, frame |-> get_page(page).frame]
    /\ stale' = FALSE
    /\ UNCHANGED <<physicalVars, tree, calls, cpu, detached>>
PageFault(page) ==
    /\ Idle /\ tlb.page # page /\ ~ Present(page)
    /\ calls' = <<Call("PFHandler", page)>>
    /\ UNCHANGED <<physicalVars, tree, tlb, cpu, history>>

\* The CPU may drop a translation whenever it likes.
Evict ==
    /\ tlb # NoTranslation
    /\ tlb' = NoTranslation /\ stale' = FALSE
    /\ UNCHANGED <<physicalVars, tree, calls, cpu, detached>>

\* allocate_page(get_page(page)), for a page that has a table and no frame.
allocate_page(page) ==
    /\ Idle /\ pd[PD_INDEX(page)] # 0 /\ ~ Present(page)
    /\ calls' = <<Call("allocate_page", page)>>
    /\ UNCHANGED <<physicalVars, tree, tlb, cpu, history>>

\* free_page(get_page(page)): the entry keeps the frame's address, and nothing
\* is flushed.
free_page_NotCleared(page) ==
    /\ Idle /\ Present(page)
    /\ Free(get_page(page).frame, 1)
    /\ stale' = (stale \/ tlb.page = page)
    /\ UNCHANGED <<tree, tlb, calls, cpu, detached>>
free_page(page) ==
    /\ Idle /\ Present(page)
    /\ Free(get_page(page).frame, 1)
    /\ tables' = WithEntry(page, [get_page(page) EXCEPT !.present = FALSE])
    /\ stale' = (stale \/ tlb.page = page)
    /\ UNCHANGED <<enabled, g_currentPD, pd, tlb, calls, cpu, detached>>

\* unmap_page(page): the frame stays allocated.
unmap_page(page) ==
    /\ Idle /\ Present(page)
    /\ Cardinality(detached) < LEAKS
    /\ tables' = WithEntry(page, NoEntry)
    /\ stale' = (stale \/ tlb.page = page)
    /\ detached' = detached \cup {get_page(page).frame}
    /\ UNCHANGED <<physicalVars, enabled, g_currentPD, pd, tlb, calls, cpu>>

-----------------------------------------------------------------------------
PagingInit ==
    /\ Init
    /\ enabled = "dir" /\ g_currentPD = 0
    /\ pd = [s \in Slots |-> 0]
    /\ tables = <<>>
    /\ tlb = NoTranslation
    /\ calls = <<>> /\ cpu = "running"
    /\ stale = FALSE /\ detached = {}

PagingNext ==
    \/ BootStep /\ UNCHANGED pagingVars
    \/ Page_Manager_Init
    \/ CallStep
    \/ Evict
    \/ \E page \in ClientPages :
           \/ Walk(page) \/ PageFault(page)
           \/ allocate_page(page) \/ free_page(page) \/ unmap_page(page)

PagingSpec == PagingInit /\ [][PagingNext]_allVars

\* Code inside a call runs on.
FairPagingSpec == PagingSpec /\ WF_allVars(CallStep)

-----------------------------------------------------------------------------
(* Properties *)

\* The pages mapped while the kernel runs, and the blocks of the paging tree.
Mapped == {page \in Pages : PD_INDEX(page) \notin KernelSlots /\ Present(page)}
InTree == DOMAIN tables \cup (IF g_currentPD = 0 THEN {} ELSE Run(g_currentPD, 3))
UnderWay == UNION {{calls[k].frame, calls[k].table} : k \in DOMAIN calls}

\* Types; and the tables in use are those the directory points to, each from one
\* slot (map_page makes a table only where there is none).
PagingTypeOK ==
    /\ enabled \in {"dir", "table", "table3G", "on", "failed"}
    /\ g_currentPD \in Blocks
    /\ pd \in [Slots -> Blocks]
    /\ tlb \in [page : Pages, frame : Blocks]
    /\ stale \in BOOLEAN
    /\ cpu \in {"running", "hung", "overflow", "astray"}
    /\ Len(calls) <= STACK
    /\ DOMAIN tables = {pd[s] : s \in Slots} \ {0}
    /\ \A s, t \in Slots : pd[s] = pd[t] /\ pd[s] # 0 => s = t
    /\ \A block \in DOMAIN tables : tables[block] \in [0 .. PAGES_PER_TABLE - 1 -> Entries]

\* Two pages never share a frame, and no page's frame is a table, part of the
\* directory or free, whatever clients unmap and free, and however far faults
\* nest (map_page, free_page, PFHandler).
FramesExclusive ==
    LET mapped == Mapped
        frames == {get_page(page).frame : page \in mapped}
    IN  cpu = "running" =>
            /\ Cardinality(frames) = Cardinality(mapped)
            /\ frames \cap InTree = {}
            /\ \A frame \in frames : owners[frame] = 1

\* The CPU goes by the tables: it holds an outdated translation only of a page
\* that unmap_page or free_page took away while it held it; those flush nothing.
TlbCoherent ==
    tlb # NoTranslation /\ ~ stale =>
        get_page(tlb.page) = [frame |-> tlb.frame, present |-> TRUE]

\* No memory leaks but through unmap_page: every block allocated is in the tree, is
\* a page's frame or is in the hands of a call.  A handler that got its frame and
\* no table would lose the frame, but never returns (PFHandler).
NoFrameLost ==
    enabled = "on" /\ cpu = "running" =>
        {b \in Blocks : owners[b] > 0}
            \subseteq InTree \cup {get_page(page).frame : page \in Mapped} \cup UnderWay \cup detached

\* A fault ends with its page mapped or the kernel stopped; no fault is taken for
\* ever (PFHandler).
FaultResolves ==
    \A page \in ClientPages :
        calls # <<>> /\ calls[1].name = "PFHandler" /\ calls[1].page = page
            ~> Present(page) \/ cpu # "running"

\* A fault inside a call is never recovered from: once the search reads past the
\* first 4 MB, or a table lies past them, the kernel stops.
NestedFaultFatal == Len(calls) > 1 ~> cpu # "running"
=============================================================================
