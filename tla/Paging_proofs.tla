---------------------------- MODULE Paging_proofs ----------------------------
(***************************************************************************)
(* Theorems about Paging for every machine, size and history of faults:    *)
(* the tables stay a tree, the TLB goes by them, no block serves two ends, *)
(* and none is lost.                                                       *)
(*                                                                         *)
(* The argument is about who holds a block.  A claim is a triple of a      *)
(* kind, an index and the block; every block that is owned is claimed,     *)
(* once, and a step adds a claim to a block that was free, hands one on,   *)
(* or gives one up and frees the block.                                    *)
(***************************************************************************)
EXTENDS Paging, PhysicalManager_proofs, FunctionTheorems

-----------------------------------------------------------------------------
(* The invariant                                                           *)

\* The allocator: block 0 is never free, and what is owned is used.
AllocInv ==
    /\ Types
    /\ boot # "ready" => SafeInv /\ enabled = "dir"
    /\ 0 \in Scanned => 0 \in g_memoryMap
    /\ \A b \in Blocks : owners[b] = 0 \/ (owners[b] = 1 /\ b \in g_memoryMap /\ b # 0)

Steps == {"frame", "table", "clear", "entry"}
Calls == [name : {"PFHandler", "allocate_page"}, page : Pages, step : Steps,
          frame : Blocks, table : Blocks]
KernelBlock == KERNEL_BASE \div BLOCK_SIZE

\* The tree: it grows in the order of Page_Manager_Init, each slot has a table of its
\* own, and the kernel's two map what they mapped at first.
TreeInv ==
    /\ enabled \in {"dir", "table", "table3G", "on", "failed"}
    /\ g_currentPD \in Blocks
    /\ pd \in [Slots -> Blocks]
    /\ \A s, t \in Slots : pd[s] = pd[t] /\ pd[s] # 0 => s = t
    /\ DOMAIN tables = {pd[s] : s \in Slots} \ {0}
    /\ \A block \in DOMAIN tables : tables[block] \in [0 .. PAGES_PER_TABLE - 1 -> Entries]
    /\ enabled = "dir" => g_currentPD = 0
    /\ enabled \in {"dir", "table"} => \A s \in Slots : pd[s] = 0
    /\ enabled = "table3G" => pd[HIGHER_HALF] # 0 /\ \A s \in Slots \ {HIGHER_HALF} : pd[s] = 0
    /\ pd[0] # 0 => tables[pd[0]] = StraightTable(0)
    /\ pd[HIGHER_HALF] # 0 => tables[pd[HIGHER_HALF]] = StraightTable(KernelBlock)
    /\ enabled = "on" => pd[0] # 0 /\ pd[HIGHER_HALF] # 0
    /\ enabled # "on" =>
        tlb = NoTranslation /\ calls = <<>> /\ cpu = "running" /\ detached = {}
        /\ \A s \in Slots \ KernelSlots : pd[s] = 0

Formed(c, k, directory) ==
    /\ PD_INDEX(c.page) \notin KernelSlots
    /\ c.frame = 0 <=> c.step = "frame"
    /\ c.step = "clear" => c.table # 0
    /\ c.name = "allocate_page" => k = 1 /\ c.step \in {"frame", "entry"}
    /\ c.name = "allocate_page" \/ c.step = "entry" => directory[PD_INDEX(c.page)] # 0

\* A call that waits for a nested one does not come to an end: its table lies where it
\* cannot be cleared, or its search goes on to fault, and the nested one faults as well.
Clearing(c) == c.step = "clear" /\ c.table >= PAGES_PER_TABLE
Searching(c) == c.step \in {"frame", "table"} /\ SearchFault # {}
CallsInv ==
    /\ calls \in Seq(Calls) /\ Len(calls) <= STACK
    /\ \A k \in 1 .. Len(calls) : Formed(calls[k], k, pd)
    /\ \A k \in 1 .. Len(calls) - 1 :
           Clearing(calls[k]) \/ (Searching(calls[k]) /\ Top.step = "frame")
    /\ calls # <<>> =>
        /\ Top.step # "clear" => ~ Present(Top.page)
        /\ Top.step = "clear" /\ ~ Clearing(Top) => pd[PD_INDEX(Top.page)] = 0

TlbInv ==
    /\ tlb \in [page : Pages, frame : Blocks] /\ stale \in BOOLEAN
    /\ cpu \in {"running", "hung", "overflow", "astray"}
    /\ TlbCoherent

Directory == IF g_currentPD = 0 THEN {} ELSE Run(g_currentPD, 3) \cap Blocks
DirectoryClaims == {<<"dir", 0, b>> : b \in Directory}
TableClaims == {<<"table", s, pd[s]>> : s \in {t \in Slots : pd[t] # 0}}
PageClaims == {<<"page", page, get_page(page).frame>> : page \in Mapped}
DetachedClaims == {<<"detached", 0, b>> : b \in detached}
Held(cs) ==
    {<<"frame", k, cs[k].frame>> : k \in {j \in 1 .. Len(cs) : cs[j].frame # 0}}
    \cup {<<"new_table", k, cs[k].table>> : k \in {j \in 1 .. Len(cs) : cs[j].step = "clear"}}
Fixed == DirectoryClaims \cup TableClaims \cup PageClaims \cup DetachedClaims
Claims == Fixed \cup Held(calls)

\* Every claimed block is owned and has one claim, and every owned block has one.
Accounted(claims, own) ==
    /\ \A c, d \in claims : c[3] = d[3] => c = d
    /\ \A c \in claims : c[3] \in Blocks /\ own[c[3]] = 1
    /\ \A b \in Blocks : own[b] > 0 => \E c \in claims : c[3] = b
ClaimsInv == Accounted(Claims, owners)

PagingInv == AllocInv /\ TreeInv /\ CallsInv /\ TlbInv /\ (cpu = "running" => ClaimsInv)

-----------------------------------------------------------------------------
(* The allocator, one block at a time                                      *)

LEMMA ScannedBlocks ==
    ASSUME Types
    PROVE  Scanned \subseteq Blocks /\ Blocks \subseteq Nat
<1>1. LIMIT \div BLOCK_SIZE \in Nat
  BY SizeTypes, DivideTypes
<1>2. g_maxBlocks \in Nat /\ g_maxBlocks <= LIMIT \div BLOCK_SIZE
  BY <1>1 DEF Types
<1>3. (g_maxBlocks \div WORD) * WORD \in Int /\ (g_maxBlocks \div WORD) * WORD <= g_maxBlocks
  BY <1>2, SizeTypes
<1> QED BY <1>1, <1>2, <1>3 DEF Scanned, Blocks

\* The block handed out is the first that the search would return.
LEMMA AllocatedBlock ==
    ASSUME Types, NEW n \in Nat, Allocate(n)
    PROVE  /\ Block(n) \in Scanned /\ Block(n) \notin g_memoryMap
           /\ TakeBlocks(Block(n), n)
           /\ owners' = [b \in Blocks |->
                            IF b \in Run(Block(n), n) THEN owners[b] + 1 ELSE owners[b]]
           /\ boot = "ready" /\ UNCHANGED <<mbinfo, progress>>
<1> DEFINE First(b) == Candidate(b, n) /\ \A other \in 0 .. b - 1 : ~ Candidate(other, n)
<1>1. PICK block \in Scanned :
          /\ First(block) /\ TakeBlocks(block, n)
          /\ owners' = [b \in Blocks |->
                            IF b \in Run(block, n) THEN owners[b] + 1 ELSE owners[b]]
  BY DEF Allocate, Candidates
<1>2. Block(n) \in Scanned /\ First(Block(n))
  BY <1>1 DEF Block
<1>3. Block(n) = block
  <2>1. Block(n) \in Nat /\ block \in Nat
    BY <1>1, <1>2, ScannedBlocks
  <2>2. \A b, c \in Nat : b < c => b \in 0 .. c - 1
    OBVIOUS
  <2>3. ~ Block(n) < block /\ ~ block < Block(n)
    BY <1>1, <1>2, <2>1, <2>2
  <2> HIDE DEF First
  <2> QED BY <2>1, <2>3
<1>4. Block(n) \notin g_memoryMap
  BY <1>2 DEF Candidate, check_block
<1>5. boot = "ready" /\ UNCHANGED <<mbinfo, progress>>
  BY DEF Allocate
<1> HIDE DEF First
<1> QED BY <1>1, <1>2, <1>3, <1>4, <1>5

LEMMA AllocatedFree ==
    ASSUME AllocInv, NEW n \in Nat \ {0}, Allocate(n)
    PROVE  /\ Block(n) \in Blocks \ {0} /\ owners[Block(n)] = 0
           /\ Block(n) \in Run(Block(n), n)
<1>1. Types
  BY DEF AllocInv
<1>2. Block(n) \in Scanned /\ Block(n) \notin g_memoryMap
  BY <1>1, AllocatedBlock
<1>3. Block(n) \in Blocks /\ Blocks \subseteq Nat
  BY <1>1, <1>2, ScannedBlocks
<1>4. Block(n) # 0 /\ owners[Block(n)] = 0
  BY <1>2, <1>3 DEF AllocInv
<1>5. \A b \in Nat : b \in b .. b + n - 1
  OBVIOUS
<1> QED BY <1>3, <1>4, <1>5 DEF Run

\* One block: it was free, and is owned.
LEMMA AllocateOne ==
    ASSUME AllocInv, Allocate(1)
    PROVE  /\ Block(1) \in Blocks \ {0} /\ owners[Block(1)] = 0
           /\ owners' = [owners EXCEPT ![Block(1)] = 1]
           /\ AllocInv'
<1>1. Types /\ Types' /\ 1 \in Nat \ {0}
  BY TypesAllocate DEF AllocInv
<1>2. Block(1) \in Blocks \ {0} /\ owners[Block(1)] = 0 /\ Block(1) \in Nat
  BY <1>1, AllocatedFree, ScannedBlocks
<1>3. Run(Block(1), 1) = {Block(1)}
  BY <1>2 DEF Run
<1>4. /\ g_memoryMap' = g_memoryMap \cup {Block(1)} /\ UNCHANGED g_maxBlocks
      /\ owners' = [b \in Blocks |->
                       IF b \in {Block(1)} THEN owners[b] + 1 ELSE owners[b]]
      /\ boot' = "ready"
  BY <1>1, <1>3, AllocatedBlock DEF TakeBlocks, progress
<1>5. owners' = [owners EXCEPT ![Block(1)] = 1]
  <2>1. owners \in [Blocks -> Nat]
    BY <1>1 DEF Types
  <2>2. owners' = [b \in Blocks |-> IF b = Block(1) THEN 1 ELSE owners[b]]
    BY <1>2, <1>4
  <2> QED BY <2>1, <2>2
<1>6. Scanned' = Scanned
  BY <1>4 DEF Scanned
<1>7. \A b \in Blocks : owners'[b] = 0 \/ (owners'[b] = 1 /\ b \in g_memoryMap' /\ b # 0)
  BY <1>1, <1>2, <1>4, <1>5 DEF AllocInv, Types
<1>8. 0 \in Scanned => 0 \in g_memoryMap'
  BY <1>4 DEF AllocInv
<1>9. AllocInv'
  BY <1>1, <1>4, <1>6, <1>7, <1>8 DEF AllocInv
<1> QED BY <1>2, <1>5, <1>9

\* Three of them, the directory's, which is the first that is allocated.
LEMMA AllocateThree ==
    ASSUME AllocInv, Allocate(3), \A b \in Blocks : owners[b] = 0
    PROVE  /\ Block(3) \in Blocks \ {0}
           /\ owners' = [b \in Blocks |-> IF b \in Run(Block(3), 3) THEN 1 ELSE 0]
           /\ AllocInv'
<1>1. Types /\ Types' /\ 3 \in Nat \ {0}
  BY TypesAllocate DEF AllocInv
<1>2. Block(3) \in Blocks \ {0} /\ Block(3) \in Nat
  BY <1>1, AllocatedFree, ScannedBlocks
<1>3. /\ g_memoryMap' = g_memoryMap \cup Run(Block(3), 3) /\ UNCHANGED g_maxBlocks
      /\ owners' = [b \in Blocks |->
                       IF b \in Run(Block(3), 3) THEN owners[b] + 1 ELSE owners[b]]
      /\ boot' = "ready"
  BY <1>1, AllocatedBlock DEF TakeBlocks, progress
<1>4. owners' = [b \in Blocks |-> IF b \in Run(Block(3), 3) THEN 1 ELSE 0]
  BY <1>3
<1>5. Scanned' = Scanned
  BY <1>3 DEF Scanned
<1>6. 0 \notin Run(Block(3), 3)
  BY <1>2 DEF Run
<1>7. \A b \in Blocks : owners'[b] = 0 \/ (owners'[b] = 1 /\ b \in g_memoryMap' /\ b # 0)
  BY <1>3, <1>4, <1>6
<1>8. AllocInv'
  BY <1>1, <1>3, <1>5, <1>7 DEF AllocInv
<1> QED BY <1>2, <1>4, <1>8

LEMMA FreeOne ==
    ASSUME AllocInv, NEW block \in Blocks, Free(block, 1)
    PROVE  owners' = [owners EXCEPT ![block] = 0] /\ AllocInv'
<1>1. Types /\ Types' /\ block \in Nat
  BY TypesFree, ScannedBlocks DEF AllocInv
<1>2. Run(block, 1) = {block}
  BY <1>1 DEF Run
<1>3. owners[block] = 1 /\ block # 0
  BY <1>1, <1>2 DEF Free, AllocInv
<1>4. /\ g_memoryMap' = g_memoryMap \ {block} /\ UNCHANGED g_maxBlocks
      /\ owners' = [b \in Blocks |-> IF b \in {block} THEN owners[b] - 1 ELSE owners[b]]
      /\ boot' = "ready"
  BY <1>2 DEF Free, free_blocks, progress
<1>5. owners' = [owners EXCEPT ![block] = 0]
  <2>1. owners \in [Blocks -> Nat]
    BY <1>1 DEF Types
  <2>2. owners' = [b \in Blocks |-> IF b = block THEN 0 ELSE owners[b]]
    BY <1>3, <1>4
  <2> QED BY <2>1, <2>2
<1>6. Scanned' = Scanned
  BY <1>4 DEF Scanned
<1>7. \A b \in Blocks : owners'[b] = 0 \/ (owners'[b] = 1 /\ b \in g_memoryMap' /\ b # 0)
  BY <1>1, <1>4, <1>5 DEF AllocInv, Types
<1>8. AllocInv'
  BY <1>1, <1>3, <1>4, <1>6, <1>7 DEF AllocInv
<1> QED BY <1>5, <1>8

LEMMA AllocFrame ==
    ASSUME AllocInv, UNCHANGED physicalVars, boot = "ready" \/ UNCHANGED enabled
    PROVE  AllocInv'
  BY DEF AllocInv, physicalVars, vars, allocator, progress, Types, SafeInv, SearchInv,
         ReservedInv, OwnersInv, Scanned, UsableBlocks, Reserved, Region, MapBytes

LEMMA AllocBoot ==
    ASSUME AllocInv, BootStep, UNCHANGED enabled
    PROVE  AllocInv'
<1>1. boot # "ready" /\ Types /\ SafeInv /\ enabled' = "dir"
  BY DEF AllocInv, BootStep, get_total_mem, InitializeMap, set_type1, ReserveKernel, ReserveMap
<1>2. Types' /\ SafeInv'
  BY <1>1, TypesBoot, SafeBoot
<1>3. SearchInv' /\ OwnersInv'
  BY <1>2 DEF SafeInv
<1>4. (0 \in Scanned => 0 \in g_memoryMap)'
  BY <1>3 DEF SearchInv
<1>5. (\A b \in Blocks : owners[b] = 0 \/ (owners[b] = 1 /\ b \in g_memoryMap /\ b # 0))'
  BY <1>3 DEF OwnersInv, Reserved
<1> QED BY <1>1, <1>2, <1>4, <1>5 DEF AllocInv

-----------------------------------------------------------------------------
(* Pages, slots and entries                                                *)

LEMMA Division ==
    ASSUME NEW d \in Nat \ {0}, NEW a \in Nat
    PROVE  a = (a \div d) * d + (a % d) /\ a \div d \in Nat /\ a % d \in 0 .. d - 1
  OBVIOUS

LEMMA QuotientBound ==
    ASSUME NEW d \in Nat \ {0}, NEW a \in Nat, NEW n \in Nat, a < n * d
    PROVE  a \div d < n
<1>1. a = (a \div d) * d + (a % d) /\ a \div d \in Nat /\ a % d \in 0 .. d - 1
  BY Division
<1>2. (a \div d) * d < n * d
  BY <1>1
<1>3. \A q \in Nat : q >= n => q * d >= n * d
  OBVIOUS
<1> QED BY <1>1, <1>2, <1>3

LEMMA SizeOfTables ==
    /\ PAGES_PER_TABLE \in Nat \ {0} /\ TABLES_PER_DIRECTORY \in Nat \ {0}
    /\ HIGHER_HALF \in Slots \ {0} /\ 0 \in Slots /\ KernelSlots \subseteq Slots
    /\ Blocks \subseteq Pages /\ Pages \subseteq Nat /\ Blocks \subseteq Nat
    /\ 0 \in Blocks /\ 0 \in Pages
<1>1. LIMIT \div BLOCK_SIZE \in Nat /\ KERNEL_BASE \div BLOCK_SIZE \in Nat
  BY SizesAssumption, DivideTypes
<1>2. Blocks \subseteq Nat /\ Pages \subseteq Nat
  BY <1>1, PagesAssumption DEF Blocks, Pages
<1>3. 0 \in Blocks
  BY <1>1, KernelTablesAssumption, PagesAssumption DEF Blocks
<1> QED BY <1>2, <1>3, PagesAssumption DEF Slots, KernelSlots

\* A page is its slot and its place in the table.
LEMMA Indices ==
    ASSUME NEW page \in Pages
    PROVE  /\ PD_INDEX(page) \in Slots /\ PT_INDEX(page) \in 0 .. PAGES_PER_TABLE - 1
           /\ page = PD_INDEX(page) * PAGES_PER_TABLE + PT_INDEX(page)
<1>1. page \in Nat /\ page < TABLES_PER_DIRECTORY * PAGES_PER_TABLE
  BY PagesAssumption DEF Pages
<1>2. page \div PAGES_PER_TABLE < TABLES_PER_DIRECTORY
  BY <1>1, QuotientBound, PagesAssumption
<1>3. /\ page = (page \div PAGES_PER_TABLE) * PAGES_PER_TABLE + (page % PAGES_PER_TABLE)
      /\ page \div PAGES_PER_TABLE \in Nat /\ page % PAGES_PER_TABLE \in 0 .. PAGES_PER_TABLE - 1
  BY <1>1, Division, PagesAssumption
<1> QED BY <1>1, <1>2, <1>3, SizeOfTables DEF PD_INDEX, PT_INDEX, Slots

LEMMA PageDetermined ==
    ASSUME NEW p \in Pages, NEW q \in Pages, PD_INDEX(p) = PD_INDEX(q), PT_INDEX(p) = PT_INDEX(q)
    PROVE  p = q
  BY Indices

LEMMA LowPages ==
    ASSUME NEW page \in Pages
    PROVE  PD_INDEX(page) = 0 => page = PT_INDEX(page) /\ page < PAGES_PER_TABLE
<1>1. /\ PT_INDEX(page) \in 0 .. PAGES_PER_TABLE - 1
      /\ page = PD_INDEX(page) * PAGES_PER_TABLE + PT_INDEX(page)
  BY Indices
<1> QED BY <1>1, SizeOfTables

LEMMA StraightTables ==
    /\ StraightTable(0) \in [0 .. PAGES_PER_TABLE - 1 -> Entries]
    /\ StraightTable(KernelBlock) \in [0 .. PAGES_PER_TABLE - 1 -> Entries]
    /\ EmptyTable \in [0 .. PAGES_PER_TABLE - 1 -> Entries]
<1>1. LIMIT \div BLOCK_SIZE \in Nat /\ KernelBlock \in Nat
  BY SizesAssumption, DivideTypes DEF KernelBlock
<1>2. /\ \A i \in 0 .. PAGES_PER_TABLE - 1 : 0 + i \in Blocks
      /\ \A i \in 0 .. PAGES_PER_TABLE - 1 : KernelBlock + i \in Blocks
  BY <1>1, SizeOfTables, KernelTablesAssumption DEF Blocks, KernelBlock
<1>3. NoEntry \in Entries
  BY SizeOfTables DEF NoEntry, Entries
<1> QED BY <1>2, <1>3 DEF StraightTable, EmptyTable, Entries

LEMMA EntryType ==
    ASSUME TreeInv, NEW page \in Pages
    PROVE  get_page(page) \in Entries
<1>1. PD_INDEX(page) \in Slots /\ PT_INDEX(page) \in 0 .. PAGES_PER_TABLE - 1
  BY Indices
<1>2. NoEntry \in Entries
  BY SizeOfTables DEF NoEntry, Entries
<1>3. pd[PD_INDEX(page)] # 0 => pd[PD_INDEX(page)] \in DOMAIN tables
  BY <1>1 DEF TreeInv
<1>4. \A block \in DOMAIN tables : tables[block] \in [0 .. PAGES_PER_TABLE - 1 -> Entries]
  BY DEF TreeInv
<1> QED BY <1>1, <1>2, <1>3, <1>4 DEF get_page

\* Kernel pages are mapped for good: the first 4 MB to themselves.
LEMMA KernelPages ==
    ASSUME TreeInv, enabled = "on", NEW page \in Pages, PD_INDEX(page) \in KernelSlots
    PROVE  /\ Present(page)
           /\ get_page(page).frame =
                  IF PD_INDEX(page) = 0 THEN PT_INDEX(page) ELSE KernelBlock + PT_INDEX(page)
<1>1. PT_INDEX(page) \in 0 .. PAGES_PER_TABLE - 1 /\ PT_INDEX(page) \in Nat
  BY Indices, SizeOfTables
<1>2. /\ pd[0] # 0 /\ pd[HIGHER_HALF] # 0
      /\ tables[pd[0]] = StraightTable(0)
      /\ tables[pd[HIGHER_HALF]] = StraightTable(KernelBlock)
  BY DEF TreeInv
<1>3. CASE PD_INDEX(page) = 0
  <2>1. get_page(page) = [frame |-> 0 + PT_INDEX(page), present |-> TRUE]
    BY <1>1, <1>2, <1>3 DEF get_page, StraightTable
  <2> QED BY <1>1, <1>3, <2>1 DEF Present
<1>4. CASE PD_INDEX(page) = HIGHER_HALF
  <2>1. get_page(page) = [frame |-> KernelBlock + PT_INDEX(page), present |-> TRUE]
    BY <1>1, <1>2, <1>4 DEF get_page, StraightTable
  <2>2. HIGHER_HALF # 0
    BY SizeOfTables
  <2> QED BY <1>4, <2>1, <2>2 DEF Present
<1> QED BY <1>3, <1>4 DEF KernelSlots

\* Where there is no table nothing is present.
LEMMA NoTable ==
    ASSUME NEW page, pd[PD_INDEX(page)] = 0
    PROVE  get_page(page) = NoEntry /\ ~ Present(page)
  BY DEF get_page, Present, NoEntry

-----------------------------------------------------------------------------
(* What a step makes of the tables                                         *)

LEMMA SameTree ==
    ASSUME UNCHANGED <<pd, tables>>
    PROVE  /\ \A page : get_page(page)' = get_page(page) /\ (Present(page)' <=> Present(page))
           /\ Mapped' = Mapped
  BY DEF get_page, Present, Mapped

LEMMA TreeFrame ==
    ASSUME TreeInv, UNCHANGED tree, enabled = "on" \/ UNCHANGED <<tlb, calls, cpu, detached>>
    PROVE  TreeInv'
  BY DEF TreeInv, tree

\* One entry of a page that is not the kernel's.
LEMMA OneEntry ==
    ASSUME TreeInv, enabled = "on", NEW page \in Pages, PD_INDEX(page) \notin KernelSlots,
           pd[PD_INDEX(page)] # 0, NEW e \in Entries, tables' = WithEntry(page, e),
           UNCHANGED <<enabled, g_currentPD, pd>>
    PROVE  /\ TreeInv' /\ DOMAIN tables' = DOMAIN tables
           /\ get_page(page)' = e
           /\ \A q \in Pages \ {page} : get_page(q)' = get_page(q)
<1> DEFINE slot == PD_INDEX(page)
           block == pd[slot]
           i == PT_INDEX(page)
           Index == 0 .. PAGES_PER_TABLE - 1
<1>1. slot \in Slots /\ i \in Index /\ slot \notin KernelSlots /\ block # 0
  BY Indices
<1>2. /\ DOMAIN tables = {pd[s] : s \in Slots} \ {0}
      /\ \A b \in DOMAIN tables : tables[b] \in [Index -> Entries]
      /\ \A s, t \in Slots : pd[s] = pd[t] /\ pd[s] # 0 => s = t
  BY DEF TreeInv
<1>3. block \in DOMAIN tables
  BY <1>1, <1>2
<1>4. tables' = [tables EXCEPT ![block] = [tables[block] EXCEPT ![i] = e]]
  BY DEF WithEntry
<1>5. /\ DOMAIN tables' = DOMAIN tables
      /\ tables'[block] = [tables[block] EXCEPT ![i] = e]
      /\ \A b \in DOMAIN tables \ {block} : tables'[b] = tables[b]
  BY <1>3, <1>4
<1>6. \A b \in DOMAIN tables' : tables'[b] \in [Index -> Entries]
  <2>1. tables'[block] \in [Index -> Entries]
    BY <1>1, <1>2, <1>3, <1>5
  <2> QED BY <1>2, <1>5, <2>1
<1>7. get_page(page)' = e
  <2>1. tables'[block][i] = e
    BY <1>1, <1>2, <1>3, <1>5
  <2> QED BY <1>1, <2>1 DEF get_page
<1>8. ASSUME NEW q \in Pages \ {page} PROVE get_page(q)' = get_page(q)
  <2>1. PD_INDEX(q) \in Slots /\ PT_INDEX(q) \in Index
    BY Indices
  <2>2. CASE PD_INDEX(q) = slot
    <3>1. PT_INDEX(q) # i
      BY <2>2, PageDetermined
    <3>2. tables'[block][PT_INDEX(q)] = tables[block][PT_INDEX(q)]
      BY <1>2, <1>3, <1>5, <2>1, <3>1
    <3> QED BY <2>2, <3>2 DEF get_page
  <2>3. CASE PD_INDEX(q) # slot /\ pd[PD_INDEX(q)] # 0
    <3>1. pd[PD_INDEX(q)] \in DOMAIN tables \ {block}
      BY <1>1, <1>2, <2>1, <2>3
    <3> QED BY <1>5, <2>3, <3>1 DEF get_page
  <2>4. CASE pd[PD_INDEX(q)] = 0
    BY <2>4 DEF get_page
  <2> QED BY <2>2, <2>3, <2>4
<1>9. /\ tables'[pd[0]] = tables[pd[0]] /\ tables'[pd[HIGHER_HALF]] = tables[pd[HIGHER_HALF]]
  <2>1. pd[0] # 0 /\ pd[HIGHER_HALF] # 0
    BY DEF TreeInv
  <2>2. {pd[0], pd[HIGHER_HALF]} \subseteq DOMAIN tables \ {block}
    BY <1>1, <1>2, <2>1, SizeOfTables DEF KernelSlots
  <2> QED BY <1>5, <2>2
<1>10. TreeInv'
  BY <1>5, <1>6, <1>9 DEF TreeInv
<1> QED BY <1>5, <1>7, <1>8, <1>10

\* An empty table in a slot that had none.
LEMMA OneTable ==
    ASSUME TreeInv, enabled = "on", NEW slot \in Slots, pd[slot] = 0,
           NEW table \in Blocks \ {0}, table \notin DOMAIN tables,
           tables' = WithTable(table, EmptyTable), pd' = [pd EXCEPT ![slot] = table],
           UNCHANGED <<enabled, g_currentPD>>
    PROVE  /\ TreeInv'
           /\ \A page \in Pages : get_page(page)' = get_page(page)
<1> DEFINE Index == 0 .. PAGES_PER_TABLE - 1
<1>1. /\ DOMAIN tables = {pd[s] : s \in Slots} \ {0} /\ pd \in [Slots -> Blocks]
      /\ \A b \in DOMAIN tables : tables[b] \in [Index -> Entries]
      /\ \A s, t \in Slots : pd[s] = pd[t] /\ pd[s] # 0 => s = t
      /\ pd[0] # 0 /\ pd[HIGHER_HALF] # 0 /\ g_currentPD \in Blocks
      /\ tables[pd[0]] = StraightTable(0)
      /\ tables[pd[HIGHER_HALF]] = StraightTable(KernelBlock)
  BY DEF TreeInv
<1>2. /\ DOMAIN tables' = DOMAIN tables \cup {table}
      /\ tables'[table] = EmptyTable
      /\ \A b \in DOMAIN tables : tables'[b] = tables[b]
  BY DEF WithTable
<1>3. /\ pd' \in [Slots -> Blocks] /\ pd'[slot] = table
      /\ \A s \in Slots \ {slot} : pd'[s] = pd[s]
  BY <1>1
<1>4. DOMAIN tables' = {pd'[s] : s \in Slots} \ {0}
  BY <1>1, <1>2, <1>3
<1>5. \A s, t \in Slots : pd'[s] = pd'[t] /\ pd'[s] # 0 => s = t
  BY <1>1, <1>3
<1>6. \A b \in DOMAIN tables' : tables'[b] \in [Index -> Entries]
  BY <1>1, <1>2, StraightTables
<1>7. /\ pd'[0] = pd[0] /\ pd'[HIGHER_HALF] = pd[HIGHER_HALF]
      /\ pd[0] \in DOMAIN tables /\ pd[HIGHER_HALF] \in DOMAIN tables
  BY <1>1, <1>3, SizeOfTables
<1>8. TreeInv'
  BY <1>1, <1>2, <1>3, <1>4, <1>5, <1>6, <1>7 DEF TreeInv
<1>9. ASSUME NEW page \in Pages PROVE get_page(page)' = get_page(page)
  <2>1. PD_INDEX(page) \in Slots /\ PT_INDEX(page) \in Index
    BY Indices
  <2>2. CASE PD_INDEX(page) = slot
    <3>1. get_page(page)' = EmptyTable[PT_INDEX(page)]
      BY <1>2, <1>3, <2>2 DEF get_page
    <3> QED BY <2>1, <2>2, <3>1 DEF get_page, EmptyTable
  <2>3. CASE PD_INDEX(page) # slot /\ pd[PD_INDEX(page)] # 0
    <3>1. pd[PD_INDEX(page)] \in DOMAIN tables
      BY <1>1, <2>1, <2>3
    <3> QED BY <1>2, <1>3, <2>1, <2>3, <3>1 DEF get_page
  <2>4. CASE PD_INDEX(page) # slot /\ pd[PD_INDEX(page)] = 0
    BY <1>3, <2>1, <2>4 DEF get_page
  <2> QED BY <2>2, <2>3, <2>4
<1> QED BY <1>8, <1>9

-----------------------------------------------------------------------------
(* Claims                                                                  *)

LEMMA Taken ==
    ASSUME NEW own \in [Blocks -> Nat], NEW R, NEW c, Accounted(R, own),
           c[3] \in Blocks, own[c[3]] = 0
    PROVE  Accounted(R \cup {c}, [own EXCEPT ![c[3]] = 1])
  BY DEF Accounted

LEMMA HandedOn ==
    ASSUME NEW own, NEW R, NEW c, NEW d, Accounted(R \cup {c}, own), c \notin R, c[3] = d[3]
    PROVE  Accounted(R \cup {d}, own)
  BY DEF Accounted

LEMMA GivenUp ==
    ASSUME NEW own \in [Blocks -> Nat], NEW R, NEW c, Accounted(R \cup {c}, own), c \notin R
    PROVE  Accounted(R, [own EXCEPT ![c[3]] = 0])
  BY DEF Accounted

LEMMA Front ==
    ASSUME NEW cs \in Seq(Calls), cs # <<>>
    PROVE  LET front == SubSeq(cs, 1, Len(cs) - 1)
           IN  /\ Len(cs) \in Nat \ {0} /\ front \in Seq(Calls) /\ Len(front) = Len(cs) - 1
               /\ \A k \in 1 .. Len(cs) - 1 : front[k] = cs[k]
<1> DEFINE n == Len(cs)
           front == SubSeq(cs, 1, n - 1)
<1>1. n \in Nat \ {0}
  BY EmptySeq
<1>2. \A k \in 1 .. n : cs[k] \in Calls
  BY ElementOfSeq
<1> HIDE DEF n
<1>3. n - 1 \in Int /\ \A k \in 1 .. n - 1 : cs[k] \in Calls
  BY <1>1, <1>2
<1>4. /\ front \in Seq(Calls) /\ Len(front) = IF 1 <= n - 1 THEN n - 1 - 1 + 1 ELSE 0
      /\ \A k \in 1 .. n - 1 - 1 + 1 : front[k] = cs[1 + k - 1]
  BY <1>3, SubSeqProperties
<1>5. Len(front) = n - 1 /\ \A k \in 1 .. n - 1 : front[k] = cs[k]
  BY <1>1, <1>4
<1> QED BY <1>1, <1>4, <1>5 DEF n

\* What the calls hold: the callers and the innermost.
HeldBy(k, c) ==
    (IF c.frame # 0 THEN {<<"frame", k, c.frame>>} ELSE {})
    \cup (IF c.step = "clear" THEN {<<"new_table", k, c.table>>} ELSE {})

LEMMA HeldTop ==
    ASSUME NEW cs \in Seq(Calls), cs # <<>>
    PROVE  /\ Held(cs) = Held(SubSeq(cs, 1, Len(cs) - 1)) \cup HeldBy(Len(cs), cs[Len(cs)])
           /\ \A kind, b : <<kind, Len(cs), b>> \notin Held(SubSeq(cs, 1, Len(cs) - 1))
<1> DEFINE n == Len(cs)
           front == SubSeq(cs, 1, n - 1)
<1>1. n \in Nat \ {0} /\ 1 .. n = (1 .. n - 1) \cup {n} /\ n \notin 1 .. n - 1
  BY EmptySeq, LenProperties
<1>2. Len(front) = n - 1 /\ \A k \in 1 .. n - 1 : front[k] = cs[k]
  BY Front
<1> HIDE DEF n, front
<1>3. Held(front) =
          {<<"frame", k, cs[k].frame>> : k \in {j \in 1 .. n - 1 : cs[j].frame # 0}}
          \cup {<<"new_table", k, cs[k].table>> : k \in {j \in 1 .. n - 1 : cs[j].step = "clear"}}
  BY <1>2 DEF Held
<1>4. Held(cs) = Held(front) \cup HeldBy(n, cs[n])
  BY <1>1, <1>3 DEF Held, HeldBy, n
<1>5. \A kind, b : <<kind, n, b>> \notin Held(front)
  BY <1>1, <1>3
<1> QED BY <1>4, <1>5 DEF n, front

LEMMA HeldPush ==
    ASSUME NEW cs \in Seq(Calls), NEW c \in Calls, c.frame = 0, c.step = "frame"
    PROVE  Held(Append(cs, c)) = Held(cs)
<1> DEFINE n == Len(cs)
           more == Append(cs, c)
<1>1. /\ n \in Nat /\ Len(more) = n + 1 /\ 1 .. n + 1 = (1 .. n) \cup {n + 1}
      /\ more[n + 1] = c /\ \A k \in 1 .. n : more[k] = cs[k]
  BY AppendProperties, LenProperties
<1>2. Len(cs) = n
  OBVIOUS
<1> HIDE DEF n, more
<1>3. /\ {j \in 1 .. Len(more) : more[j].frame # 0} = {j \in 1 .. n : cs[j].frame # 0}
      /\ {j \in 1 .. Len(more) : more[j].step = "clear"} = {j \in 1 .. n : cs[j].step = "clear"}
  BY <1>1
<1>4. Held(more) = Held(cs)
  BY <1>1, <1>2, <1>3 DEF Held
<1> QED BY <1>4 DEF more

LEMMA HeldUpdate ==
    ASSUME NEW cs \in Seq(Calls), cs # <<>>, NEW c \in Calls
    PROVE  Held([cs EXCEPT ![Len(cs)] = c]) =
               Held(SubSeq(cs, 1, Len(cs) - 1)) \cup HeldBy(Len(cs), c)
<1> DEFINE n == Len(cs)
           ds == [cs EXCEPT ![n] = c]
<1>1. n \in Nat \ {0} /\ n \in 1 .. n
  BY EmptySeq, LenProperties
<1>2. ds \in Seq(Calls) /\ Len(ds) = n /\ ds[n] = c /\ \A k \in 1 .. n - 1 : ds[k] = cs[k]
  BY <1>1, ExceptSeq
<1>3. ds # <<>>
  BY <1>1, <1>2, EmptySeq
<1>4. SubSeq(ds, 1, n - 1) = SubSeq(cs, 1, n - 1)
  <2> HIDE DEF ds
  <2>1. SubSeq(ds, 1, Len(ds) - 1) = SubSeq(ds, 1, n - 1)
    BY <1>2
  <2>2. /\ SubSeq(ds, 1, n - 1) \in Seq(Calls) /\ SubSeq(cs, 1, n - 1) \in Seq(Calls)
        /\ Len(SubSeq(ds, 1, n - 1)) = n - 1 /\ Len(SubSeq(cs, 1, n - 1)) = n - 1
        /\ \A k \in 1 .. n - 1 : SubSeq(ds, 1, n - 1)[k] = ds[k]
        /\ \A k \in 1 .. n - 1 : SubSeq(cs, 1, n - 1)[k] = cs[k]
    BY <1>2, <1>3, <2>1, Front
  <2> HIDE DEF n
  <2> QED BY <1>2, <2>2, SeqEqual
<1> HIDE DEF ds
<1>5. Held(ds) = Held(SubSeq(ds, 1, n - 1)) \cup HeldBy(n, c)
  BY <1>2, <1>3, HeldTop
<1> QED BY <1>4, <1>5 DEF ds

-----------------------------------------------------------------------------
(* The stack of calls                                                      *)

LEMMA FaultingPages ==
    ASSUME AllocInv, TreeInv, enabled = "on", NEW bit \in SearchFault
    PROVE  /\ PageOfBit(bit) \in Pages /\ PD_INDEX(PageOfBit(bit)) \notin KernelSlots
           /\ ~ Present(PageOfBit(bit))
<1>1. PICK b \in Scanned : bit \in FaultingBits(b)
  BY DEF SearchFault
<1>2. b \in Blocks
  BY <1>1, ScannedBlocks DEF AllocInv
<1>3. bit \in {FirstBit(b), FirstBit(b) + 1} /\ Unreadable(bit)
  BY <1>1 DEF FaultingBits
<1>4. PageOfBit(bit) \in Pages /\ ~ Present(PageOfBit(bit))
  BY <1>2, <1>3, BitsAssumption DEF Unreadable
<1> QED BY <1>4, KernelPages

LEMMA SameSearch ==
    ASSUME UNCHANGED <<allocator, pd, tables>>
    PROVE  SearchFault' = SearchFault
  BY DEF allocator, SearchFault, EnoughLeft, EndsAt, EnoughFree, Window, check_block, Scanned,
         FaultingBits, Unreadable, Present, get_page

\* The innermost call, and the others when its search does not fault.
LEMMA TopCall ==
    ASSUME CallsInv, calls # <<>>
    PROVE  /\ Len(calls) \in Nat \ {0} /\ Len(calls) \in 1 .. Len(calls)
           /\ Top \in Calls /\ Formed(Top, Len(calls), pd)
           /\ Top.name = "allocate_page" => Len(calls) = 1
           /\ SearchFault = {} \/ Top.step # "frame" =>
                  \A k \in 1 .. Len(calls) - 1 : Clearing(calls[k])
<1>1. Len(calls) \in Nat \ {0}
  BY EmptySeq DEF CallsInv
<1>2. Len(calls) \in 1 .. Len(calls)
  BY <1>1
<1>3. Top \in Calls /\ Formed(Top, Len(calls), pd)
  BY <1>2, ElementOfSeq DEF CallsInv, Top
<1>4. Top.name = "allocate_page" => Len(calls) = 1
  BY <1>3 DEF Formed
<1>5. SearchFault = {} \/ Top.step # "frame" =>
          \A k \in 1 .. Len(calls) - 1 : Clearing(calls[k])
  BY DEF CallsInv, Searching
<1> QED BY <1>1, <1>2, <1>3, <1>4, <1>5

LEMMA CallsFrame ==
    ASSUME CallsInv, UNCHANGED <<allocator, pd, tables, calls>>
    PROVE  CallsInv'
<1>1. SearchFault' = SearchFault
  BY SameSearch
<1>2. \A page : Present(page)' <=> Present(page)
  BY SameTree
<1>3. \A c : Searching(c)' <=> Searching(c)
  BY <1>1 DEF Searching
<1>4. Top' = Top
  BY DEF Top
<1>5. Present(Top.page)' <=> Present(Top.page)
  BY <1>4 DEF Present, get_page
<1> QED BY <1>3, <1>4, <1>5 DEF CallsInv

\* A fault that nothing waits for, or that the innermost call goes on to meet.
LEMMA Pushed ==
    ASSUME CallsInv, NEW page \in Pages, PD_INDEX(page) \notin KernelSlots, ~ Present(page),
           Len(calls) < STACK, calls' = Append(calls, Call("PFHandler", page)),
           calls = <<>> \/ Clearing(Top) \/ Searching(Top),
           UNCHANGED <<allocator, pd, tables>>
    PROVE  CallsInv'
<1> DEFINE c == Call("PFHandler", page)
           n == Len(calls)
<1>1. /\ c \in Calls /\ c.frame = 0 /\ c.step = "frame" /\ c.page = page /\ c.name = "PFHandler"
      /\ c.table = 0
  BY SizeOfTables DEF Call, Calls, Steps
<1>2. /\ n \in Nat /\ calls' \in Seq(Calls) /\ Len(calls') = n + 1
      /\ calls'[n + 1] = c /\ \A k \in 1 .. n : calls'[k] = calls[k]
  BY <1>1, AppendProperties, LenProperties DEF CallsInv
<1> HIDE DEF c
<1>3. Len(calls') <= STACK
  BY <1>2, PagesAssumption DEF CallsInv
<1>4. \A k \in 1 .. Len(calls') : Formed(calls'[k], k, pd')
  <2>1. Formed(c, n + 1, pd')
    BY <1>1 DEF Formed
  <2>2. \A k \in 1 .. n : Formed(calls'[k], k, pd')
    BY <1>2 DEF CallsInv
  <2> QED BY <1>2, <2>1, <2>2
<1>5. Top' = c
  BY <1>2 DEF Top
<1>6. \A d : Searching(d)' <=> Searching(d)
  BY SameSearch DEF Searching
<1>7. \A k \in 1 .. n : Clearing(calls[k]) \/ Searching(calls[k])
  <2>1. \A k \in 1 .. n - 1 : Clearing(calls[k]) \/ Searching(calls[k])
    BY DEF CallsInv
  <2>2. n > 0 => Clearing(calls[n]) \/ Searching(calls[n])
    <3>1. calls = <<>> => n = 0
      OBVIOUS
    <3> QED BY <1>2, <3>1 DEF Top
  <2> QED BY <1>2, <2>1, <2>2
<1>8. \A k \in 1 .. Len(calls') - 1 :
          (Clearing(calls[k]) \/ (Searching(calls[k]) /\ Top.step = "frame"))'
  <2>1. SearchFault' = SearchFault
    BY SameSearch
  <2>2. Top'.step = "frame"
    BY <1>1, <1>5
  <2>3. \A k \in 1 .. Len(calls') - 1 : k \in 1 .. n /\ calls'[k] = calls[k]
    BY <1>2
  <2> QED BY <1>7, <2>1, <2>2, <2>3 DEF Searching, Clearing
<1>9. ~ Present(Top.page)'
  <2>1. Top'.page = page
    BY <1>1, <1>5
  <2> QED BY <2>1 DEF Present, get_page
<1> QED BY <1>1, <1>2, <1>3, <1>4, <1>5, <1>8, <1>9 DEF CallsInv

LEMMA Updated ==
    ASSUME CallsInv, calls # <<>>, SearchFault = {} \/ Top.step # "frame",
           NEW c \in Calls, Formed(c, Len(calls), pd'), Update(c),
           \A s \in Slots : pd[s] # 0 => pd'[s] # 0,
           \A page : page = c.page /\ c.step # "clear" => ~ Present(page)',
           c.step = "clear" /\ ~ Clearing(c) => pd'[PD_INDEX(c.page)] = 0
    PROVE  CallsInv'
<1> DEFINE n == Len(calls)
<1>1. n \in Nat \ {0} /\ n \in 1 .. n /\ \A k \in 1 .. n - 1 : Clearing(calls[k])
  BY TopCall
<1>2. /\ calls' \in Seq(Calls) /\ Len(calls') = n /\ calls'[n] = c
      /\ \A k \in 1 .. n - 1 : calls'[k] = calls[k]
  BY <1>1, ExceptSeq DEF CallsInv, Update
<1>3. Top' = c
  BY <1>2 DEF Top
<1>4. \A k \in 1 .. Len(calls') : Formed(calls'[k], k, pd')
  <2>1. \A k \in 1 .. n - 1 : Formed(calls[k], k, pd)
    BY <1>1 DEF CallsInv
  <2>2. \A k \in 1 .. n - 1 : Formed(calls'[k], k, pd')
    <3>1. \A k \in 1 .. n - 1 : calls[k] \in Calls /\ k \in 1 .. n
      BY <1>1, ElementOfSeq DEF CallsInv
    <3>2. \A k \in 1 .. n - 1 : PD_INDEX(calls[k].page) \in Slots
      BY <3>1, Indices DEF Calls
    <3> QED BY <1>2, <2>1, <3>2 DEF Formed
  <2>3. 1 .. n = (1 .. n - 1) \cup {n}
    BY <1>1
  <2> QED BY <1>2, <2>2, <2>3
<1>5. \A k \in 1 .. Len(calls') - 1 : Clearing(calls'[k])
  BY <1>1, <1>2
<1>6. (Top.step # "clear" => ~ Present(Top.page))'
  BY <1>3 DEF Present, get_page
<1>7. (Top.step = "clear" /\ ~ Clearing(Top) => pd[PD_INDEX(Top.page)] = 0)'
  BY <1>3 DEF Clearing
<1>8. Len(calls') <= STACK
  BY <1>2 DEF CallsInv
<1>9. \A k \in 1 .. Len(calls') - 1 :
          (Clearing(calls[k]) \/ (Searching(calls[k]) /\ Top.step = "frame"))'
  BY <1>5 DEF Clearing
<1> QED BY <1>2, <1>4, <1>6, <1>7, <1>8, <1>9 DEF CallsInv

\* A call that returns to another returns to one that cannot go on.
LEMMA Returned ==
    ASSUME CallsInv, calls # <<>>, SearchFault = {} \/ Top.step # "frame",
           Return, UNCHANGED pd
    PROVE  CallsInv'
<1> DEFINE n == Len(calls)
<1>1. n \in Nat \ {0} /\ n \in 1 .. n /\ \A k \in 1 .. n - 1 : Clearing(calls[k])
  BY TopCall
<1>2. /\ calls' \in Seq(Calls) /\ Len(calls') = n - 1
      /\ \A k \in 1 .. n - 1 : calls'[k] = calls[k]
  BY Front DEF CallsInv, Return, Caller
<1>3. \A k \in 1 .. Len(calls') : Formed(calls'[k], k, pd') /\ Clearing(calls'[k])
  BY <1>1, <1>2 DEF CallsInv
<1>4. calls' # <<>> => Clearing(Top')
  <2>1. ASSUME calls' # <<>> PROVE Len(calls') \in 1 .. Len(calls')
    <3>1. Len(calls') \in Nat \ {0}
      BY <1>2, <2>1, EmptySeq
    <3> QED BY <3>1
  <2> QED BY <1>3, <2>1 DEF Top
<1>5. Len(calls') <= STACK
  BY <1>1, <1>2, PagesAssumption DEF CallsInv
<1>6. \A k \in 1 .. Len(calls') - 1 :
          (Clearing(calls[k]) \/ (Searching(calls[k]) /\ Top.step = "frame"))'
  BY <1>1, <1>2, <1>3 DEF Clearing
<1>7. (calls # <<>> => /\ Top.step # "clear" => ~ Present(Top.page)
                       /\ Top.step = "clear" /\ ~ Clearing(Top) => pd[PD_INDEX(Top.page)] = 0)'
  BY <1>4 DEF Clearing
<1> QED BY <1>2, <1>3, <1>5, <1>6, <1>7 DEF CallsInv

-----------------------------------------------------------------------------
(* What the steps have in common                                           *)

LEMMA SameFixed ==
    ASSUME UNCHANGED <<g_currentPD, pd, tables, detached>>
    PROVE  Fixed' = Fixed
<1>1. Mapped' = Mapped /\ \A page : get_page(page)' = get_page(page)
  BY SameTree
<1>2. PageClaims' = PageClaims
  BY <1>1 DEF PageClaims
<1>3. /\ DirectoryClaims' = DirectoryClaims /\ TableClaims' = TableClaims
      /\ DetachedClaims' = DetachedClaims
  BY DEF DirectoryClaims, Directory, Run, Blocks, TableClaims, DetachedClaims
<1> QED BY <1>2, <1>3 DEF Fixed

LEMMA SameClaims ==
    ASSUME UNCHANGED <<g_currentPD, pd, tables, detached>>, UNCHANGED calls
    PROVE  Claims' = Claims
  BY SameFixed DEF Claims

LEMMA NewTableClaim ==
    ASSUME pd \in [Slots -> Blocks], NEW slot \in Slots, pd[slot] = 0, NEW b, b # 0,
           pd' = [pd EXCEPT ![slot] = b]
    PROVE  TableClaims' = TableClaims \cup {<<"table", slot, b>>}
<1>1. pd'[slot] = b /\ \A s \in Slots \ {slot} : pd'[s] = pd[s]
  OBVIOUS
<1>2. {t \in Slots : pd'[t] # 0} = {t \in Slots : pd[t] # 0} \cup {slot}
  BY <1>1
<1>3. TableClaims' = {<<"table", s, pd'[s]>> : s \in {t \in Slots : pd[t] # 0} \cup {slot}}
  BY <1>2 DEF TableClaims
<1>4. \A s \in {t \in Slots : pd[t] # 0} : pd'[s] = pd[s]
  BY <1>1
<1> QED BY <1>1, <1>3, <1>4 DEF TableClaims

\* What the TLB holds outlives a step that leaves alone the entries that are present.
LEMMA TlbFrame ==
    ASSUME TlbInv, UNCHANGED <<tlb, stale>>, cpu' \in {"running", "hung", "overflow", "astray"},
           \A page \in Pages : Present(page) => get_page(page)' = get_page(page)
    PROVE  TlbInv'
<1>1. tlb.page \in Pages
  BY DEF TlbInv
<1>2. ASSUME tlb # NoTranslation, ~ stale
      PROVE  get_page(tlb.page)' = [frame |-> tlb'.frame, present |-> TRUE]
  <2>1. get_page(tlb.page) = [frame |-> tlb.frame, present |-> TRUE]
    BY <1>2 DEF TlbInv, TlbCoherent
  <2>2. Present(tlb.page)
    BY <2>1 DEF Present
  <2>3. \A page : page = tlb.page => get_page(page)' = get_page(tlb.page)'
    BY DEF get_page
  <2> QED BY <1>1, <2>1, <2>2, <2>3
<1>3. TlbCoherent'
  BY <1>2 DEF TlbCoherent, NoTranslation
<1>4. stale' \in BOOLEAN
  BY DEF TlbInv
<1> QED BY <1>3, <1>4 DEF TlbInv, Pages, Blocks

LEMMA Running ==
    ASSUME PagingInv
    PROVE  /\ calls # <<>> \/ tlb # NoTranslation \/ cpu # "running" => enabled = "on"
           /\ enabled # "dir" => boot = "ready"
           /\ owners \in [Blocks -> Nat]
  BY DEF PagingInv, TreeInv, AllocInv, Types

-----------------------------------------------------------------------------
(* Page_Manager_Init                                                       *)

LEMMA PagingInitially == PagingInit => PagingInv
<1> SUFFICES ASSUME PagingInit PROVE PagingInv
  OBVIOUS
<1>1. Types /\ SafeInv /\ enabled = "dir"
  BY TypesInit, SafeInit DEF PagingInit
<1>2. AllocInv
  BY <1>1 DEF PagingInit, Init, AllocInv, SafeInv, SearchInv
<1>3. TreeInv
  <2>1. pd \in [Slots -> Blocks] /\ \A s \in Slots : pd[s] = 0
    BY SizeOfTables DEF PagingInit
  <2>2. DOMAIN tables = {}
    BY DEF PagingInit
  <2>3. pd[0] = 0 /\ pd[HIGHER_HALF] = 0
    BY <2>1, SizeOfTables
  <2> QED BY <2>1, <2>2, <2>3, SizeOfTables DEF PagingInit, TreeInv
<1>4. calls = <<>> /\ Len(calls) = 0 /\ calls \in Seq(Calls)
  BY EmptySeq DEF PagingInit
<1>5. CallsInv
  BY <1>4, PagesAssumption DEF CallsInv
<1>6. TlbInv
  <2>1. tlb \in [page : Pages, frame : Blocks] /\ stale \in BOOLEAN
    BY SizeOfTables DEF PagingInit, NoTranslation
  <2> QED BY <2>1 DEF PagingInit, TlbInv, TlbCoherent
<1>7. Claims = {}
  <2>1. \A s \in Slots : pd[s] = 0
    BY DEF PagingInit
  <2>2. \A page \in Pages : ~ Present(page)
    BY <2>1, Indices, NoTable
  <2>3. Held(calls) = {}
    BY <1>4 DEF Held
  <2> QED BY <2>1, <2>2, <2>3
          DEF PagingInit, Claims, Fixed, DirectoryClaims, Directory, TableClaims, PageClaims,
              Mapped, DetachedClaims
<1>8. \A b \in Blocks : owners[b] = 0
  BY DEF PagingInit, Init
<1>9. ClaimsInv
  BY <1>7, <1>8 DEF ClaimsInv, Accounted
<1> QED BY <1>2, <1>3, <1>5, <1>6, <1>9 DEF PagingInv

LEMMA PagingBoot ==
    ASSUME PagingInv, BootStep, UNCHANGED pagingVars
    PROVE  PagingInv'
<1> USE DEF pagingVars, tree, history
<1>1. AllocInv'
  BY AllocBoot DEF PagingInv
<1>2. TreeInv'
  BY TreeFrame DEF PagingInv
<1>3. boot # "ready" /\ UNCHANGED owners
  BY DEF BootStep, get_total_mem, InitializeMap, set_type1, ReserveKernel, ReserveMap
<1>4. calls = <<>>
  BY <1>3, Running
<1>5. CallsInv'
  <2>1. Len(<<>>) = 0 /\ <<>> \in Seq(Calls)
    BY EmptySeq
  <2> QED BY <1>4, <2>1, PagesAssumption DEF CallsInv
<1>6. TlbInv'
  BY TlbFrame, SameTree DEF PagingInv, TlbInv
<1>7. ClaimsInv => ClaimsInv'
  BY <1>3, SameClaims DEF ClaimsInv, Accounted, Blocks
<1> QED BY <1>1, <1>2, <1>5, <1>6, <1>7 DEF PagingInv

\* The start fails before anything is mapped, and nothing happens any more.
LEMMA PagingInitFailed ==
    ASSUME PagingInv, InitFailed, enabled \in {"table", "table3G"} \/ boot = "ready",
           enabled # "on"
    PROVE  PagingInv'
<1>1. boot = "ready"
  BY Running
<1>2. AllocInv'
  BY <1>1, AllocFrame DEF PagingInv, InitFailed
<1>3. TreeInv'
  BY DEF PagingInv, InitFailed, TreeInv, history
<1>4. CallsInv'
  BY CallsFrame DEF PagingInv, InitFailed, physicalVars, vars
<1>5. TlbInv'
  BY TlbFrame, SameTree DEF PagingInv, TlbInv, InitFailed, history
<1>6. ClaimsInv => ClaimsInv'
  BY SameClaims DEF ClaimsInv, Accounted, Blocks, InitFailed, history, physicalVars, vars
<1> QED BY <1>2, <1>3, <1>4, <1>5, <1>6 DEF PagingInv, InitFailed

\* Before paging is on only the manager's own tables are claimed.
LEMMA EarlyClaims ==
    ASSUME PagingInv, enabled # "on"
    PROVE  /\ Claims = DirectoryClaims \cup TableClaims /\ Mapped = {}
           /\ Accounted(Claims, owners)
           /\ calls = <<>> /\ tlb = NoTranslation /\ cpu = "running" /\ detached = {}
<1>1. /\ calls = <<>> /\ tlb = NoTranslation /\ cpu = "running" /\ detached = {}
      /\ \A s \in Slots \ KernelSlots : pd[s] = 0
  BY DEF PagingInv, TreeInv
<1>2. Mapped = {}
  <2>1. \A page \in Pages : PD_INDEX(page) \notin KernelSlots => ~ Present(page)
    BY <1>1, Indices, NoTable
  <2> QED BY <2>1 DEF Mapped
<1>3. Held(calls) = {}
  <2>1. Len(<<>>) = 0
    OBVIOUS
  <2> QED BY <1>1, <2>1 DEF Held
<1>4. PageClaims = {} /\ DetachedClaims = {}
  BY <1>1, <1>2 DEF PageClaims, DetachedClaims
<1> QED BY <1>1, <1>2, <1>3, <1>4 DEF Claims, Fixed, PagingInv, ClaimsInv

LEMMA PagingDirectory ==
    ASSUME PagingInv, AllocateDirectory
    PROVE  PagingInv'
<1>1. CASE Refuses(3)
  BY <1>1, PagingInitFailed DEF AllocateDirectory
<1>2. CASE ~ Refuses(3)
  <2>1. /\ boot = "ready" /\ enabled = "dir" /\ Allocate(3)
        /\ g_currentPD' = Block(3) /\ enabled' = "table"
        /\ UNCHANGED <<pd, tables, tlb, calls, cpu, stale, detached>>
    BY <1>2 DEF AllocateDirectory, history
  <2>2. /\ Claims = DirectoryClaims \cup TableClaims /\ Mapped = {}
        /\ Accounted(Claims, owners)
        /\ calls = <<>> /\ tlb = NoTranslation /\ cpu = "running" /\ detached = {}
    BY <2>1, EarlyClaims
  <2>3. g_currentPD = 0 /\ \A s \in Slots : pd[s] = 0
    BY <2>1 DEF PagingInv, TreeInv
  <2>4. DirectoryClaims = {} /\ TableClaims = {}
    BY <2>3 DEF DirectoryClaims, Directory, TableClaims
  <2>5. \A b \in Blocks : owners[b] = 0
    <3>1. \A b \in Blocks : ~ owners[b] > 0
      BY <2>2, <2>4 DEF Accounted
    <3> QED BY <3>1, Running
  <2>6. /\ Block(3) \in Blocks \ {0} /\ AllocInv'
        /\ owners' = [b \in Blocks |-> IF b \in Run(Block(3), 3) THEN 1 ELSE 0]
    BY <2>1, <2>5, AllocateThree DEF PagingInv
  <2>7. TreeInv'
    BY <2>1, <2>2, <2>3, <2>6 DEF PagingInv, TreeInv
  <2>8. CallsInv'
    <3>1. Len(<<>>) = 0 /\ <<>> \in Seq(Calls)
      BY EmptySeq
    <3> QED BY <2>1, <2>2, <3>1, PagesAssumption DEF CallsInv
  <2>9. TlbInv'
    BY <2>1, TlbFrame, SameTree DEF PagingInv, TlbInv
  <2>10. Claims' = {<<"dir", 0, b>> : b \in Run(Block(3), 3) \cap Blocks}
    <3>1. DirectoryClaims' = {<<"dir", 0, b>> : b \in Run(Block(3), 3) \cap Blocks}
      BY <2>1, <2>6 DEF DirectoryClaims, Directory, Run, Blocks
    <3>2. /\ Mapped' = {} /\ TableClaims' = {} /\ Held(calls') = {} /\ detached' = {}
      <4>1. Mapped' = Mapped
        BY <2>1, SameTree
      <4>2. Len(<<>>) = 0
        OBVIOUS
      <4> QED BY <2>1, <2>2, <2>4, <4>1, <4>2 DEF TableClaims, Held
    <3> QED BY <3>1, <3>2 DEF Claims, Fixed, PageClaims, DetachedClaims, Held
  <2>11. Accounted(Claims', owners')
    <3> DEFINE R == Run(Block(3), 3) \cap Blocks
    <3>1. \A b \in Blocks : owners'[b] = IF b \in R THEN 1 ELSE 0
      BY <2>6
    <3> HIDE DEF R
    <3>2. Claims' = {<<"dir", 0, b>> : b \in R} /\ R \subseteq Blocks
      BY <2>10 DEF R
    <3>3. \A c \in Claims' : c[3] \in R /\ c = <<"dir", 0, c[3]>>
      BY <3>2
    <3>4. \A b \in R : \E c \in Claims' : c[3] = b
      <4>1. \A b \in R : <<"dir", 0, b>> \in Claims' /\ <<"dir", 0, b>>[3] = b
        BY <3>2
      <4> QED BY <4>1
    <3>5. \A b \in Blocks : owners'[b] > 0 => b \in R
      BY <3>1
    <3> QED BY <3>1, <3>2, <3>3, <3>4, <3>5 DEF Accounted
  <2> QED BY <2>6, <2>7, <2>8, <2>9, <2>11 DEF PagingInv, ClaimsInv
<1> QED BY <1>1, <1>2

\* One of the kernel's two tables.
LEMMA KernelTable ==
    ASSUME PagingInv, enabled # "on", boot = "ready",
           NEW slot \in KernelSlots, pd[slot] = 0, NEW base \in {0, KernelBlock},
           base = IF slot = 0 THEN 0 ELSE KernelBlock,
           Allocate(1), tables' = WithTable(Block(1), StraightTable(base)),
           pd' = [pd EXCEPT ![slot] = Block(1)],
           enabled' \in {"table3G", "on"},
           enabled' = "table3G" => slot = HIGHER_HALF /\ pd[0] = 0,
           enabled' = "on" => slot = 0 /\ pd[HIGHER_HALF] # 0,
           UNCHANGED <<g_currentPD, tlb, calls, cpu, history>>
    PROVE  PagingInv'
<1> DEFINE table == Block(1)
<1>0. slot \in Slots /\ HIGHER_HALF # 0
  BY SizeOfTables
<1>1. /\ table \in Blocks \ {0} /\ owners[table] = 0 /\ AllocInv'
      /\ owners' = [owners EXCEPT ![table] = 1]
  BY AllocateOne DEF PagingInv
<1>2. /\ Claims = DirectoryClaims \cup TableClaims /\ Mapped = {}
      /\ Accounted(Claims, owners)
      /\ calls = <<>> /\ tlb = NoTranslation /\ cpu = "running" /\ detached = {}
  BY EarlyClaims
<1> HIDE DEF table
<1>3. /\ DOMAIN tables = {pd[s] : s \in Slots} \ {0} /\ pd \in [Slots -> Blocks]
      /\ \A b \in DOMAIN tables : tables[b] \in [0 .. PAGES_PER_TABLE - 1 -> Entries]
      /\ \A s, t \in Slots : pd[s] = pd[t] /\ pd[s] # 0 => s = t
      /\ g_currentPD \in Blocks
      /\ pd[0] # 0 => tables[pd[0]] = StraightTable(0)
      /\ pd[HIGHER_HALF] # 0 => tables[pd[HIGHER_HALF]] = StraightTable(KernelBlock)
      /\ \A s \in Slots \ KernelSlots : pd[s] = 0
  BY DEF PagingInv, TreeInv
<1>4. table \notin DOMAIN tables
  <2>1. ASSUME NEW s \in Slots, pd[s] # 0, pd[s] = table PROVE FALSE
    <3>1. <<"table", s, pd[s]>> \in Claims
      BY <1>2, <2>1 DEF TableClaims
    <3>2. owners[pd[s]] = 1
      BY <1>2, <3>1 DEF Accounted
    <3> QED BY <1>1, <2>1, <3>2
  <2> QED BY <1>3, <2>1
<1>5. /\ DOMAIN tables' = DOMAIN tables \cup {table}
      /\ tables'[table] = StraightTable(base)
      /\ \A b \in DOMAIN tables : tables'[b] = tables[b]
  BY <1>4 DEF WithTable, table
<1>6. /\ pd' \in [Slots -> Blocks] /\ pd'[slot] = table
      /\ \A s \in Slots \ {slot} : pd'[s] = pd[s]
  BY <1>0, <1>1, <1>3 DEF table
<1>7. TreeInv'
  <2>1. DOMAIN tables' = {pd'[s] : s \in Slots} \ {0}
    <3>1. {pd'[s] : s \in Slots} = {pd[s] : s \in Slots \ {slot}} \cup {table}
      BY <1>0, <1>6
    <3>2. {pd[s] : s \in Slots \ {slot}} \ {0} = DOMAIN tables
      BY <1>0, <1>3
    <3> QED BY <1>1, <1>5, <3>1, <3>2
  <2>2. \A s, t \in Slots : pd'[s] = pd'[t] /\ pd'[s] # 0 => s = t
    BY <1>0, <1>3, <1>4, <1>6
  <2>3. \A b \in DOMAIN tables' : tables'[b] \in [0 .. PAGES_PER_TABLE - 1 -> Entries]
    BY <1>3, <1>5, StraightTables
  <2>4. \A s \in Slots \ KernelSlots : pd'[s] = 0
    BY <1>3, <1>6
  <2>5. CASE slot = 0
    <3>1. pd'[0] = table /\ pd'[HIGHER_HALF] = pd[HIGHER_HALF] /\ tables'[table] = StraightTable(0)
      BY <1>0, <1>5, <1>6, <2>5, SizeOfTables
    <3>2. pd[HIGHER_HALF] # 0 => pd[HIGHER_HALF] \in DOMAIN tables
      BY <1>3, SizeOfTables
    <3>3. enabled' = "on"
      BY <1>0, <2>5
    <3> QED BY <1>1, <1>3, <1>5, <1>6, <2>1, <2>2, <2>3, <3>1, <3>2, <3>3 DEF TreeInv
  <2>6. CASE slot = HIGHER_HALF
    <3>1. /\ pd'[HIGHER_HALF] = table /\ pd'[0] = pd[0] /\ tables'[table] = StraightTable(KernelBlock)
      BY <1>0, <1>5, <1>6, <2>6, SizeOfTables
    <3>2. enabled' = "table3G" /\ pd'[0] = 0
      BY <1>0, <2>6, <3>1
    <3>3. pd'[HIGHER_HALF] # 0 /\ \A s \in Slots \ {HIGHER_HALF} : pd'[s] = 0
      BY <1>1, <2>4, <3>1, <3>2 DEF KernelSlots
    <3> QED BY <1>2, <1>3, <1>6, <2>1, <2>2, <2>3, <2>4, <3>1, <3>2, <3>3
            DEF TreeInv, history
  <2> QED BY <2>5, <2>6 DEF KernelSlots
<1>8. CallsInv'
  <2>1. Len(<<>>) = 0 /\ <<>> \in Seq(Calls)
    BY EmptySeq
  <2> QED BY <1>2, <2>1, PagesAssumption DEF CallsInv
<1>9. TlbInv'
  BY <1>2 DEF PagingInv, TlbInv, TlbCoherent, history, Pages, Blocks, NoTranslation
<1>10. Claims' = Claims \cup {<<"table", slot, table>>}
  <2>1. TableClaims' = TableClaims \cup {<<"table", slot, table>>}
    BY <1>0, <1>1, <1>3, NewTableClaim DEF table
  <2>2. Mapped' = {}
    <3>1. \A page \in Pages : PD_INDEX(page) \notin KernelSlots => pd'[PD_INDEX(page)] = 0
      BY <1>3, <1>6, Indices
    <3> QED BY <3>1 DEF Mapped, Present, get_page, NoEntry
  <2>3. Held(calls') = {} /\ DirectoryClaims' = DirectoryClaims
    <3>1. Len(<<>>) = 0
      OBVIOUS
    <3> QED BY <1>2, <3>1 DEF Held, DirectoryClaims, Directory, Run, Blocks
  <2> QED BY <1>2, <2>1, <2>2, <2>3 DEF Claims, Fixed, PageClaims, DetachedClaims, history
<1>11. Accounted(Claims', owners')
  <2>1. <<"table", slot, table>>[3] = table
    OBVIOUS
  <2> QED BY <1>1, <1>2, <1>10, <2>1, Taken, Running
<1> QED BY <1>1, <1>7, <1>8, <1>9, <1>11 DEF PagingInv, ClaimsInv

LEMMA PagingTables ==
    ASSUME PagingInv, AllocateTable \/ AllocateTable3G
    PROVE  PagingInv'
<1>1. enabled \in {"table", "table3G"} /\ boot = "ready"
  BY Running DEF AllocateTable, AllocateTable3G
<1>2. CASE Refuses(1)
  BY <1>1, <1>2, PagingInitFailed DEF AllocateTable, AllocateTable3G
<1>3. CASE ~ Refuses(1) /\ AllocateTable
  <2>1. \A s \in Slots : pd[s] = 0
    BY <1>3 DEF PagingInv, TreeInv, AllocateTable
  <2>2. pd[HIGHER_HALF] = 0 /\ pd[0] = 0 /\ HIGHER_HALF # 0
    BY <2>1, SizeOfTables
  <2> QED BY <1>1, <1>3, <2>2, KernelTable DEF AllocateTable, KernelSlots, KernelBlock
<1>4. CASE ~ Refuses(1) /\ AllocateTable3G
  <2>1. pd[HIGHER_HALF] # 0 /\ \A s \in Slots \ {HIGHER_HALF} : pd[s] = 0
    BY <1>4 DEF PagingInv, TreeInv, AllocateTable3G
  <2>2. pd[0] = 0 /\ pd'[HIGHER_HALF] # 0 /\ 0 \in KernelSlots
    <3>1. HIGHER_HALF \in Slots \ {0} /\ 0 \in Slots
      BY SizeOfTables
    <3>2. pd' = [pd EXCEPT ![0] = Block(1)]
      BY <1>3, <1>4 DEF AllocateTable3G
    <3>3. pd'[HIGHER_HALF] = pd[HIGHER_HALF]
      BY <3>1, <3>2 DEF PagingInv, TreeInv
    <3> QED BY <2>1, <3>1, <3>3 DEF KernelSlots
  <2>3. pd[HIGHER_HALF] # 0 /\ enabled' = "on" /\ enabled # "on"
    BY <1>3, <1>4, <2>1 DEF AllocateTable3G
  <2> QED BY <1>1, <1>4, <2>2, <2>3, KernelTable DEF AllocateTable3G
<1> QED BY <1>2, <1>3, <1>4

-----------------------------------------------------------------------------
(* Calls                                                                   *)

LEMMA CallUnderWay ==
    ASSUME PagingInv, cpu = "running", calls # <<>>
    PROVE  /\ enabled = "on" /\ boot = "ready"
           /\ AllocInv /\ TreeInv /\ CallsInv /\ TlbInv /\ Accounted(Claims, owners)
           /\ Claims = Fixed \cup Held(Caller) \cup HeldBy(Len(calls), Top)
           /\ \A kind, b : <<kind, Len(calls), b>> \notin Held(Caller)
           /\ Top \in Calls /\ Formed(Top, Len(calls), pd) /\ Top.page \in Pages
<1>1. calls \in Seq(Calls) /\ enabled = "on" /\ boot = "ready"
  BY Running DEF PagingInv, CallsInv
<1>2. /\ Held(calls) = Held(Caller) \cup HeldBy(Len(calls), Top)
      /\ \A kind, b : <<kind, Len(calls), b>> \notin Held(Caller)
  BY <1>1, HeldTop DEF Caller, Top
<1>3. Top \in Calls /\ Formed(Top, Len(calls), pd)
  BY TopCall DEF PagingInv
<1>4. Top.page \in Pages
  BY <1>3 DEF Calls
<1> QED BY <1>1, <1>2, <1>3, <1>4 DEF PagingInv, ClaimsInv, Claims

\* The allocator's state and the tables as they were.
LEMMA Undisturbed ==
    ASSUME PagingInv, enabled = "on", UNCHANGED <<physicalVars, tree, tlb, history>>,
           cpu' \in {"running", "hung", "overflow", "astray"}
    PROVE  AllocInv' /\ TreeInv' /\ TlbInv'
<1>1. AllocInv'
  BY AllocFrame, Running DEF PagingInv, tree
<1>2. TreeInv'
  BY TreeFrame DEF PagingInv
<1>3. TlbInv'
  BY TlbFrame, SameTree DEF PagingInv, tree, history
<1> QED BY <1>1, <1>2, <1>3

LEMMA Nested ==
    ASSUME PagingInv, cpu = "running", enabled = "on", NEW page \in Pages,
           PD_INDEX(page) \notin KernelSlots, ~ Present(page),
           calls # <<>>, Clearing(Top) \/ Searching(Top), NestedFault(page)
    PROVE  PagingInv'
<1>1. UNCHANGED <<physicalVars, tree, tlb, history>>
  BY DEF NestedFault
<1>2. CASE Len(calls) < STACK
  <2>1. calls' = Append(calls, Call("PFHandler", page)) /\ UNCHANGED cpu
    BY <1>2 DEF NestedFault
  <2>2. AllocInv' /\ TreeInv' /\ TlbInv'
    BY <1>1, <2>1, Undisturbed
  <2>3. CallsInv'
    BY <1>1, <1>2, <2>1, Pushed DEF PagingInv, physicalVars, vars, tree
  <2>4. Claims' = Claims
    <3>1. calls \in Seq(Calls) /\ Call("PFHandler", page) \in Calls
      BY SizeOfTables DEF PagingInv, CallsInv, Call, Calls, Steps
    <3>2. Held(Append(calls, Call("PFHandler", page))) = Held(calls)
      BY <3>1, HeldPush DEF Call
    <3>3. Held(calls)' = Held(calls)
      <4>1. Held(calls)' = Held(calls')
        BY DEF Held
      <4> QED BY <2>1, <3>2, <4>1
    <3> QED BY <1>1, <3>3, SameFixed DEF Claims, tree, history
  <2>5. ClaimsInv'
    BY <1>1, <2>4, CallUnderWay DEF ClaimsInv, Accounted, Blocks, physicalVars, vars
  <2> QED BY <2>2, <2>3, <2>5 DEF PagingInv
<1>3. CASE ~ Len(calls) < STACK
  <2>1. cpu' = "overflow" /\ UNCHANGED calls
    BY <1>3 DEF NestedFault
  <2>2. AllocInv' /\ TreeInv' /\ TlbInv'
    BY <1>1, <2>1, Undisturbed
  <2>3. CallsInv'
    BY <1>1, <2>1, CallsFrame DEF PagingInv, physicalVars, vars, tree
  <2> QED BY <2>1, <2>2, <2>3 DEF PagingInv
<1> QED BY <1>2, <1>3

\* The handler hangs; allocate_page, which nothing has called, returns.
LEMMA Refusal ==
    ASSUME PagingInv, cpu = "running", calls # <<>>, OutOfMemory,
           Top.step \in {"frame", "table"}
    PROVE  PagingInv'
<1>1. UNCHANGED <<physicalVars, tree, tlb, history>> /\ enabled = "on"
  BY CallUnderWay DEF OutOfMemory
<1>2. CASE Top.name = "PFHandler"
  <2>1. cpu' = "hung" /\ UNCHANGED calls
    BY <1>2 DEF OutOfMemory
  <2>2. AllocInv' /\ TreeInv' /\ TlbInv'
    BY <1>1, <2>1, Undisturbed
  <2>3. CallsInv'
    BY <1>1, <2>1, CallsFrame DEF PagingInv, physicalVars, vars, tree
  <2> QED BY <2>1, <2>2, <2>3 DEF PagingInv
<1>3. CASE Top.name # "PFHandler"
  <2>1. Return /\ UNCHANGED cpu
    BY <1>3 DEF OutOfMemory
  <2>2. Top.name = "allocate_page" /\ Len(calls) = 1 /\ Top.step = "frame" /\ Top.frame = 0
    <3>1. Top.name = "allocate_page"
      BY <1>3, CallUnderWay DEF Calls
    <3>2. Top.step \in {"frame", "entry"} /\ Len(calls) = 1 /\ (Top.frame = 0 <=> Top.step = "frame")
      BY <3>1, CallUnderWay DEF Formed
    <3> QED BY <3>1, <3>2
  <2>3. AllocInv' /\ TreeInv' /\ TlbInv'
    BY <1>1, <2>1, Undisturbed
  <2>4. calls' \in Seq(Calls) /\ Len(calls') = 0
    BY <2>1, <2>2, Front DEF PagingInv, CallsInv, Return, Caller
  <2>5. calls' = <<>>
    BY <2>4, EmptySeq
  <2>6. CallsInv'
    BY <2>4, <2>5, PagesAssumption DEF CallsInv
  <2>7. Claims' = Claims
    <3>1. HeldBy(Len(calls), Top) = {}
      BY <2>2 DEF HeldBy
    <3>2. Held(Caller) = Held(calls)'
      BY <2>1 DEF Return, Held
    <3> QED BY <1>1, <3>1, <3>2, CallUnderWay, SameFixed DEF Claims, tree, history
  <2>8. ClaimsInv'
    BY <1>1, <2>7, CallUnderWay DEF ClaimsInv, Accounted, Blocks, physicalVars, vars
  <2> QED BY <2>3, <2>6, <2>8 DEF PagingInv
<1> QED BY <1>2, <1>3

LEMMA UpdatedClaims ==
    ASSUME CallsInv, calls # <<>>, NEW c \in Calls, Update(c)
    PROVE  Claims' = Fixed' \cup Held(Caller) \cup HeldBy(Len(calls), c)
<1>1. calls \in Seq(Calls)
  BY DEF CallsInv
<1>2. Held([calls EXCEPT ![Len(calls)] = c]) = Held(Caller) \cup HeldBy(Len(calls), c)
  BY <1>1, HeldUpdate DEF Caller
<1>3. Held(calls)' = Held([calls EXCEPT ![Len(calls)] = c])
  <2>1. Held(calls)' = Held(calls')
    BY DEF Held
  <2> QED BY <2>1 DEF Update
<1> QED BY <1>2, <1>3 DEF Claims

\* A block for the innermost call, which was at "frame" or at "table".
LEMMA BlockForCall ==
    ASSUME PagingInv, cpu = "running", calls # <<>>, SearchFault = {}, Allocate(1),
           NEW c \in Calls, Update(c), Formed(c, Len(calls), pd), c.page = Top.page,
           NEW claim, claim[3] = Block(1),
           HeldBy(Len(calls), c) = HeldBy(Len(calls), Top) \cup {claim},
           Top.step # "clear", c.step = "clear" => pd[PD_INDEX(c.page)] = 0,
           UNCHANGED <<tree, tlb, cpu, history>>
    PROVE  PagingInv'
<1> USE DEF tree, history
<1>1. /\ enabled = "on" /\ boot = "ready"
      /\ AllocInv /\ TreeInv /\ CallsInv /\ TlbInv /\ Accounted(Claims, owners)
      /\ Claims = Fixed \cup Held(Caller) \cup HeldBy(Len(calls), Top)
  BY CallUnderWay
<1>2. /\ Block(1) \in Blocks \ {0} /\ owners[Block(1)] = 0 /\ AllocInv'
      /\ owners' = [owners EXCEPT ![Block(1)] = 1]
  BY <1>1, AllocateOne
<1>3. TreeInv'
  BY <1>1, TreeFrame
<1>4. CallsInv'
  <2>1. ~ Present(Top.page)
    BY <1>1 DEF CallsInv
  <2>2. \A page : page = c.page => ~ Present(page)'
    BY <2>1, SameTree
  <2> QED BY <1>1, <2>2, Updated
<1>5. TlbInv'
  BY <1>1, TlbFrame, SameTree DEF TlbInv
<1>6. Claims' = Claims \cup {claim}
  BY <1>1, UpdatedClaims, SameFixed
<1>7. Accounted(Claims', owners')
  BY <1>1, <1>2, <1>6, Taken, Running
<1> QED BY <1>2, <1>3, <1>4, <1>5, <1>7 DEF PagingInv, ClaimsInv

LEMMA PagingAllocateFrame ==
    ASSUME PagingInv, AllocateFrame
    PROVE  PagingInv'
<1>1. cpu = "running" /\ calls # <<>> /\ Top.step = "frame"
  BY DEF AllocateFrame, At
<1>2. /\ enabled = "on" /\ AllocInv /\ TreeInv /\ CallsInv
      /\ Top \in Calls /\ Formed(Top, Len(calls), pd)
  BY <1>1, CallUnderWay
<1>3. CASE SearchFault # {}
  <2>1. PICK bit \in SearchFault : NestedFault(PageOfBit(bit))
    BY <1>3 DEF AllocateFrame
  <2>2. /\ PageOfBit(bit) \in Pages /\ PD_INDEX(PageOfBit(bit)) \notin KernelSlots
        /\ ~ Present(PageOfBit(bit))
    BY <1>2, FaultingPages
  <2> QED BY <1>1, <1>2, <1>3, <2>1, <2>2, Nested DEF Searching
<1>4. CASE SearchFault = {} /\ Refuses(1)
  BY <1>1, <1>4, Refusal DEF AllocateFrame
<1>5. CASE SearchFault = {} /\ ~ Refuses(1)
  <2> DEFINE c == [Top EXCEPT !.frame = Block(1),
                              !.step = IF Top.name = "PFHandler" THEN "table" ELSE "entry"]
             claim == <<"frame", Len(calls), Block(1)>>
  <2>1. Allocate(1) /\ Update(c) /\ UNCHANGED <<tree, tlb, cpu, history>>
    BY <1>5 DEF AllocateFrame
  <2>2. Block(1) \in Blocks \ {0}
    BY <1>2, <2>1, AllocateOne
  <2>3. /\ c \in Calls /\ c.frame = Block(1) /\ c.page = Top.page /\ c.name = Top.name
        /\ c.step = IF Top.name = "PFHandler" THEN "table" ELSE "entry"
    BY <1>2, <2>2 DEF Calls, Steps
  <2> HIDE DEF c
  <2>4. Formed(c, Len(calls), pd)
    <3>1. Top.name = "PFHandler" \/ Top.name = "allocate_page"
      BY <1>2 DEF Calls
    <3> QED BY <1>1, <1>2, <2>2, <2>3, <3>1 DEF Formed
  <2>5. HeldBy(Len(calls), c) = HeldBy(Len(calls), Top) \cup {claim}
    <3>1. Top.frame = 0
      BY <1>1, <1>2 DEF Formed
    <3> QED BY <1>1, <2>2, <2>3, <3>1 DEF HeldBy
  <2>6. claim[3] = Block(1) /\ c.step # "clear" /\ Top.step # "clear"
    BY <1>1, <2>3
  <2> HIDE DEF claim
  <2> QED BY <1>1, <1>5, <2>1, <2>3, <2>4, <2>5, <2>6, BlockForCall
<1> QED BY <1>3, <1>4, <1>5

LEMMA PagingFindTable ==
    ASSUME PagingInv, FindTable
    PROVE  PagingInv'
<1> DEFINE c == [Top EXCEPT !.step = "entry"]
<1>1. /\ cpu = "running" /\ calls # <<>> /\ Top.step = "table" /\ pd[PD_INDEX(Top.page)] # 0
      /\ Update(c) /\ UNCHANGED <<physicalVars, tree, tlb, cpu, history>>
  BY DEF FindTable, At
<1>2. /\ enabled = "on" /\ AllocInv /\ TreeInv /\ CallsInv /\ Accounted(Claims, owners)
      /\ Claims = Fixed \cup Held(Caller) \cup HeldBy(Len(calls), Top)
      /\ Top \in Calls /\ Formed(Top, Len(calls), pd)
  BY <1>1, CallUnderWay
<1>3. /\ c \in Calls /\ c.frame = Top.frame /\ c.page = Top.page /\ c.name = Top.name
      /\ c.step = "entry"
  BY <1>2 DEF Calls, Steps
<1> HIDE DEF c
<1>4. AllocInv' /\ TreeInv' /\ TlbInv'
  BY <1>1, <1>2, Undisturbed
<1>5. Formed(c, Len(calls), pd')
  BY <1>1, <1>2, <1>3 DEF Formed, tree
<1>6. CallsInv'
  <2>1. ~ Present(Top.page)
    BY <1>1, <1>2 DEF CallsInv
  <2>2. \A page : page = c.page => ~ Present(page)'
    BY <1>1, <1>3, <2>1, SameTree DEF tree
  <2>3. \A s \in Slots : pd[s] # 0 => pd'[s] # 0
    BY <1>1 DEF tree
  <2> QED BY <1>1, <1>2, <1>3, <1>5, <2>2, <2>3, Updated
<1>7. Claims' = Claims
  <2>1. HeldBy(Len(calls), c) = HeldBy(Len(calls), Top)
    BY <1>1, <1>3 DEF HeldBy
  <2> QED BY <1>1, <1>2, <1>3, <2>1, UpdatedClaims, SameFixed DEF tree, history
<1>8. ClaimsInv'
  BY <1>1, <1>2, <1>7 DEF ClaimsInv, Accounted, Blocks, physicalVars, vars
<1> QED BY <1>4, <1>6, <1>8 DEF PagingInv

LEMMA PagingNewTable ==
    ASSUME PagingInv, NewTable
    PROVE  PagingInv'
<1>1. cpu = "running" /\ calls # <<>> /\ Top.step = "table" /\ pd[PD_INDEX(Top.page)] = 0
  BY DEF NewTable, At
<1>2. /\ enabled = "on" /\ AllocInv /\ TreeInv /\ CallsInv
      /\ Top \in Calls /\ Formed(Top, Len(calls), pd)
  BY <1>1, CallUnderWay
<1>3. CASE SearchFault # {}
  <2>1. PICK bit \in SearchFault : NestedFault(PageOfBit(bit))
    BY <1>3 DEF NewTable
  <2>2. /\ PageOfBit(bit) \in Pages /\ PD_INDEX(PageOfBit(bit)) \notin KernelSlots
        /\ ~ Present(PageOfBit(bit))
    BY <1>2, FaultingPages
  <2> QED BY <1>1, <1>2, <1>3, <2>1, <2>2, Nested DEF Searching
<1>4. CASE SearchFault = {} /\ Refuses(1)
  BY <1>1, <1>4, Refusal DEF NewTable
<1>5. CASE SearchFault = {} /\ ~ Refuses(1)
  <2> DEFINE c == [Top EXCEPT !.table = Block(1), !.step = "clear"]
             claim == <<"new_table", Len(calls), Block(1)>>
  <2>1. Allocate(1) /\ Update(c) /\ UNCHANGED <<tree, tlb, cpu, history>>
    BY <1>5 DEF NewTable
  <2>2. Block(1) \in Blocks \ {0}
    BY <1>2, <2>1, AllocateOne
  <2>3. /\ c \in Calls /\ c.frame = Top.frame /\ c.page = Top.page /\ c.name = Top.name
        /\ c.step = "clear" /\ c.table = Block(1)
    BY <1>2, <2>2 DEF Calls, Steps
  <2> HIDE DEF c
  <2>4. Formed(c, Len(calls), pd)
    BY <1>1, <1>2, <2>2, <2>3 DEF Formed
  <2>5. HeldBy(Len(calls), c) = HeldBy(Len(calls), Top) \cup {claim}
    BY <1>1, <2>3 DEF HeldBy
  <2>6. claim[3] = Block(1) /\ pd[PD_INDEX(c.page)] = 0 /\ Top.step # "clear"
    BY <1>1, <2>3
  <2> HIDE DEF claim
  <2> QED BY <1>1, <1>5, <2>1, <2>3, <2>4, <2>5, <2>6, BlockForCall
<1> QED BY <1>3, <1>4, <1>5

LEMMA FixedKinds ==
    \A c \in Fixed : c[1] \in {"dir", "table", "page", "detached"}
  BY DEF Fixed, DirectoryClaims, TableClaims, PageClaims, DetachedClaims

\* A table that the memset reaches is in the first 4 MB: the higher half does not map
\* memory to itself, and what is a page's frame is no new table.
LEMMA ReachedTable ==
    ASSUME PagingInv, cpu = "running", calls # <<>>, Top.step = "clear",
           Present(Top.table), get_page(Top.table).frame = Top.table
    PROVE  Top.table < PAGES_PER_TABLE
<1> DEFINE t == Top.table
           claim == <<"new_table", Len(calls), t>>
<1>1. /\ enabled = "on" /\ TreeInv /\ Accounted(Claims, owners)
      /\ Claims = Fixed \cup Held(Caller) \cup HeldBy(Len(calls), Top)
      /\ t \in Blocks /\ t \in Pages
  BY CallUnderWay, SizeOfTables DEF Calls
<1>2. claim \in Claims
  BY <1>1 DEF HeldBy
<1>3. PD_INDEX(t) \in KernelSlots
  <2> SUFFICES ASSUME PD_INDEX(t) \notin KernelSlots PROVE FALSE
    OBVIOUS
  <2>1. <<"page", t, t>> \in PageClaims
    BY <1>1 DEF PageClaims, Mapped
  <2>2. <<"page", t, t>> \in Claims
    BY <2>1 DEF Claims, Fixed
  <2>3. <<"page", t, t>> = claim
    BY <1>1, <1>2, <2>2 DEF Accounted
  <2> QED BY <2>3
<1>4. PD_INDEX(t) # HIGHER_HALF
  <2> SUFFICES ASSUME PD_INDEX(t) = HIGHER_HALF PROVE FALSE
    OBVIOUS
  <2>1. HIGHER_HALF # 0 /\ HIGHER_HALF \in Nat /\ PAGES_PER_TABLE \in Nat
    BY SizeOfTables DEF Slots
  <2>2. t = KernelBlock + PT_INDEX(t)
    BY <1>1, <1>3, <2>1, KernelPages
  <2>3. t = HIGHER_HALF * PAGES_PER_TABLE + PT_INDEX(t) /\ PT_INDEX(t) \in Nat
    <3>1. /\ t = PD_INDEX(t) * PAGES_PER_TABLE + PT_INDEX(t)
          /\ PT_INDEX(t) \in 0 .. PAGES_PER_TABLE - 1
      BY <1>1, Indices
    <3>2. \A i \in 0 .. PAGES_PER_TABLE - 1 : i \in Nat
      BY <2>1
    <3> QED BY <3>1, <3>2
  <2>4. KernelBlock \in Nat
    BY SizesAssumption, DivideTypes DEF KernelBlock
  <2>5. HIGHER_HALF * PAGES_PER_TABLE \in Nat
    BY <2>1
  <2>6. HIGHER_HALF * PAGES_PER_TABLE = KernelBlock
    BY <2>2, <2>3, <2>4, <2>5
  <2> QED BY <2>6, KernelTablesAssumption DEF KernelBlock
<1> QED BY <1>1, <1>3, <1>4, LowPages DEF KernelSlots

LEMMA PagingClearTable ==
    ASSUME PagingInv, ClearTable
    PROVE  PagingInv'
<1> DEFINE n == Len(calls)
           t == Top.table
           slot == PD_INDEX(Top.page)
<1>1. cpu = "running" /\ calls # <<>> /\ Top.step = "clear"
  BY DEF ClearTable, At
<1>2. /\ enabled = "on" /\ boot = "ready"
      /\ AllocInv /\ TreeInv /\ CallsInv /\ TlbInv /\ Accounted(Claims, owners)
      /\ Claims = Fixed \cup Held(Caller) \cup HeldBy(n, Top)
      /\ \A kind, b : <<kind, n, b>> \notin Held(Caller)
      /\ Top \in Calls /\ Formed(Top, n, pd) /\ Top.page \in Pages
  BY <1>1, CallUnderWay
<1>3. t \in Blocks \ {0} /\ t \in Pages /\ slot \in Slots /\ Top.frame # 0
  BY <1>1, <1>2, SizeOfTables, Indices DEF Calls, Formed
<1>4. CASE ~ Present(t)
  <2>1. PD_INDEX(t) \notin KernelSlots
    BY <1>2, <1>3, <1>4, KernelPages
  <2>2. Clearing(Top)
    <3>1. t \in Nat /\ PAGES_PER_TABLE \in Nat \ {0}
      BY <1>3, SizeOfTables
    <3>2. t < PAGES_PER_TABLE => PD_INDEX(t) = 0
      BY <3>1 DEF PD_INDEX
    <3> QED BY <1>1, <2>1, <3>1, <3>2 DEF Clearing, KernelSlots
  <2> QED BY <1>1, <1>2, <1>3, <1>4, <2>1, <2>2, Nested DEF ClearTable
<1>5. CASE Present(t) /\ get_page(t).frame # t
  <2>1. cpu' = "astray" /\ UNCHANGED <<physicalVars, tree, tlb, calls, history>>
    BY <1>5 DEF ClearTable
  <2>2. AllocInv' /\ TreeInv' /\ TlbInv'
    BY <1>2, <2>1, Undisturbed
  <2>3. CallsInv'
    BY <1>2, <2>1, CallsFrame DEF physicalVars, vars, tree
  <2> QED BY <2>1, <2>2, <2>3 DEF PagingInv
<1>6. CASE Present(t) /\ get_page(t).frame = t
  <2> DEFINE c == [Top EXCEPT !.step = "entry"]
             old == <<"new_table", n, t>>
             new == <<"table", slot, t>>
             R == Fixed \cup Held(Caller) \cup {<<"frame", n, Top.frame>>}
  <2>1. /\ tables' = WithTable(t, EmptyTable) /\ pd' = [pd EXCEPT ![slot] = t]
        /\ Update(c) /\ UNCHANGED <<physicalVars, enabled, g_currentPD, tlb, cpu, stale, detached>>
    BY <1>6 DEF ClearTable, history
  <2>2. pd[slot] = 0
    <3>1. t < PAGES_PER_TABLE
      BY <1>1, <1>6, ReachedTable
    <3>2. t \in Nat /\ PAGES_PER_TABLE \in Nat
      BY <1>3, SizeOfTables
    <3>3. ~ Clearing(Top)
      BY <3>1, <3>2 DEF Clearing
    <3> QED BY <1>1, <1>2, <3>3 DEF CallsInv
  <2>3. old \in Claims /\ HeldBy(n, Top) = {<<"frame", n, Top.frame>>, old}
    BY <1>1, <1>2, <1>3 DEF HeldBy
  <2>4. t \notin DOMAIN tables
    <3>1. ASSUME NEW s \in Slots, pd[s] # 0, pd[s] = t PROVE FALSE
      <4>1. <<"table", s, t>> \in Claims
        BY <3>1 DEF Claims, Fixed, TableClaims
      <4>2. <<"table", s, t>> = old
        BY <1>2, <2>3, <4>1 DEF Accounted
      <4> QED BY <4>2
    <3> QED BY <1>2, <3>1 DEF TreeInv
  <2>5. TreeInv' /\ \A page \in Pages : get_page(page)' = get_page(page)
    BY <1>2, <1>3, <2>1, <2>2, <2>4, OneTable
  <2>6. AllocInv'
    BY <1>2, <2>1, AllocFrame
  <2>7. TlbInv'
    BY <1>2, <2>1, <2>5, TlbFrame DEF TlbInv
  <2>8. /\ c \in Calls /\ c.frame = Top.frame /\ c.page = Top.page /\ c.name = Top.name
        /\ c.step = "entry"
    BY <1>2 DEF Calls, Steps
  <2> HIDE DEF c
  <2>9. CallsInv'
    <3>1. pd'[slot] = t /\ \A s \in Slots : pd[s] # 0 => pd'[s] # 0
      BY <1>2, <1>3, <2>1 DEF TreeInv
    <3>2. Formed(c, n, pd')
      BY <1>1, <1>2, <1>3, <2>8, <3>1 DEF Formed
    <3>3. ~ Present(Top.page)
      BY <2>2, NoTable
    <3>4. \A page : page = c.page => ~ Present(page)'
      BY <1>2, <2>5, <2>8, <3>3 DEF Present
    <3> QED BY <1>1, <1>2, <2>1, <2>8, <3>1, <3>2, <3>4, Updated
  <2>10. Claims' = R \cup {new}
    <3>1. TableClaims' = TableClaims \cup {new}
      BY <1>2, <1>3, <2>1, <2>2, NewTableClaim DEF TreeInv
    <3>2. PageClaims' = PageClaims
      BY <2>5 DEF PageClaims, Mapped, Present
    <3>3. DirectoryClaims' = DirectoryClaims /\ DetachedClaims' = DetachedClaims
      BY <2>1 DEF DirectoryClaims, Directory, Run, Blocks, DetachedClaims
    <3>4. Fixed' = Fixed \cup {new}
      BY <3>1, <3>2, <3>3 DEF Fixed
    <3>5. HeldBy(n, c) = {<<"frame", n, Top.frame>>}
      BY <1>3, <2>8 DEF HeldBy
    <3> QED BY <1>1, <1>2, <2>1, <2>8, <3>4, <3>5, UpdatedClaims
  <2>11. Claims = R \cup {old} /\ old \notin R
    <3>1. old[1] = "new_table" /\ old \notin Fixed
      BY FixedKinds
    <3> QED BY <1>2, <2>3, <3>1
  <2>12. old[3] = new[3]
    OBVIOUS
  <2>13. Accounted(Claims', owners')
    <3>1. UNCHANGED owners
      BY <2>1 DEF physicalVars, vars
    <3> HIDE DEF old, new, R
    <3> QED BY <1>2, <2>10, <2>11, <2>12, <3>1, HandedOn
  <2> QED BY <2>5, <2>6, <2>7, <2>9, <2>13 DEF PagingInv, ClaimsInv
<1> QED BY <1>4, <1>5, <1>6

LEMMA PagingSetEntry ==
    ASSUME PagingInv, SetEntry
    PROVE  PagingInv'
<1> DEFINE n == Len(calls)
           p == Top.page
           f == Top.frame
           e == [frame |-> f, present |-> TRUE]
           old == <<"frame", n, f>>
           new == <<"page", p, f>>
           R == Fixed \cup Held(Caller)
<1>1. /\ cpu = "running" /\ calls # <<>> /\ Top.step = "entry"
      /\ tables' = WithEntry(p, e) /\ Return
      /\ UNCHANGED <<physicalVars, enabled, g_currentPD, pd, cpu, detached>>
  BY DEF SetEntry, At
<1>2. /\ enabled = "on" /\ boot = "ready"
      /\ AllocInv /\ TreeInv /\ CallsInv /\ TlbInv /\ Accounted(Claims, owners)
      /\ Claims = Fixed \cup Held(Caller) \cup HeldBy(n, Top)
      /\ \A kind, b : <<kind, n, b>> \notin Held(Caller)
      /\ Top \in Calls /\ Formed(Top, n, pd) /\ p \in Pages
  BY <1>1, CallUnderWay
<1>3. /\ f # 0 /\ f \in Blocks /\ e \in Entries
      /\ PD_INDEX(p) \notin KernelSlots /\ pd[PD_INDEX(p)] # 0
  BY <1>1, <1>2 DEF Calls, Formed, Entries
<1>4. ~ Present(p)
  BY <1>1, <1>2 DEF CallsInv
<1>5. /\ TreeInv' /\ \A page : page = p => get_page(page)' = e
      /\ \A q \in Pages \ {p} : get_page(q)' = get_page(q)
  <2>1. \A page \in Pages : page = p =>
            TreeInv' /\ get_page(page)' = e /\ \A q \in Pages \ {page} : get_page(q)' = get_page(q)
    BY <1>1, <1>2, <1>3, OneEntry
  <2> QED BY <1>2, <2>1
<1>6. AllocInv'
  BY <1>1, <1>2, AllocFrame
<1>7. CallsInv'
  BY <1>1, <1>2, Returned
<1>8. TlbInv'
  <2>1. tlb.page = p => tlb = NoTranslation \/ stale
    BY <1>4 DEF PagingInv, TlbInv, TlbCoherent, Present
  <2>2. CASE UNCHANGED <<tlb, stale>>
    BY <1>1, <1>2, <1>4, <1>5, <2>2, TlbFrame DEF TlbInv
  <2>3. CASE MapFrame /\ tlb.page # p
    <3>1. UNCHANGED tlb /\ stale' = (stale /\ tlb.page # p)
      BY <2>3 DEF MapFrame
    <3>2. UNCHANGED stale
      <4>1. stale \in BOOLEAN
        BY <1>2 DEF TlbInv
      <4> QED BY <2>3, <3>1, <4>1, Zenon
    <3> QED BY <1>1, <1>2, <1>4, <1>5, <3>1, <3>2, TlbFrame DEF TlbInv
  <2>4. CASE MapFrame /\ tlb.page = p
    <3>1. tlb' = NoTranslation
      BY <2>4 DEF MapFrame
    <3>2. stale' \in BOOLEAN
      BY <2>4, Zenon DEF MapFrame
    <3>3. NoTranslation \in [page : Pages, frame : Blocks]
      BY SizeOfTables DEF NoTranslation
    <3> QED BY <1>1, <1>2, <3>1, <3>2, <3>3 DEF TlbInv, TlbCoherent, Pages, Blocks, NoTranslation
  <2> QED BY <2>2, <2>3, <2>4 DEF SetEntry
<1>9. Claims = R \cup {old} /\ old \notin R
  <2>1. HeldBy(n, Top) = {old}
    BY <1>1, <1>3 DEF HeldBy
  <2>2. old \notin Fixed
    BY FixedKinds
  <2> QED BY <1>2, <2>1, <2>2
<1>10. Claims' = R \cup {new}
  <2>1. Mapped' = Mapped \cup {p}
    <3>1. \A page \in Pages : Present(page)' <=> (Present(page) \/ page = p)
      BY <1>2, <1>4, <1>5 DEF Present
    <3> QED BY <1>2, <1>3, <3>1 DEF Mapped
  <2>2. p \notin Mapped /\ \A page \in Mapped : get_page(page)' = get_page(page)
    BY <1>4, <1>5 DEF Mapped
  <2>3. PageClaims' = PageClaims \cup {new}
    <3>1. PageClaims' = {<<"page", page, get_page(page)'.frame>> : page \in Mapped \cup {p}}
      BY <2>1 DEF PageClaims
    <3> QED BY <1>5, <2>2, <3>1 DEF PageClaims
  <2>4. /\ DirectoryClaims' = DirectoryClaims /\ DetachedClaims' = DetachedClaims
        /\ TableClaims' = TableClaims
    BY <1>1 DEF DirectoryClaims, Directory, Run, Blocks, DetachedClaims, TableClaims
  <2>5. Held(calls)' = Held(Caller)
    BY <1>1 DEF Return, Held
  <2> QED BY <2>3, <2>4, <2>5 DEF Claims, Fixed
<1>11. Accounted(Claims', owners')
  <2>1. UNCHANGED owners
    BY <1>1 DEF physicalVars, vars
  <2>2. old[3] = new[3]
    OBVIOUS
  <2> HIDE DEF old, new, R
  <2> QED BY <1>2, <1>9, <1>10, <2>1, <2>2, HandedOn
<1> QED BY <1>5, <1>6, <1>7, <1>8, <1>11 DEF PagingInv, ClaimsInv

-----------------------------------------------------------------------------
(* The clients                                                             *)

LEMMA ClientPage ==
    ASSUME NEW page \in ClientPages
    PROVE  page \in Pages /\ PD_INDEX(page) \notin KernelSlots
  BY PagesAssumption

LEMMA NoCalls ==
    ASSUME calls' = <<>>
    PROVE  CallsInv'
<1>1. Len(<<>>) = 0 /\ <<>> \in Seq(Calls)
  BY EmptySeq
<1> QED BY <1>1, PagesAssumption DEF CallsInv

\* The CPU takes a translation from the tables, or drops the one it holds.
LEMMA Translation ==
    ASSUME PagingInv, enabled = "on", UNCHANGED <<physicalVars, tree, calls, cpu, detached>>,
           TlbInv'
    PROVE  PagingInv'
<1>1. AllocInv' /\ TreeInv'
  BY AllocFrame, TreeFrame, Running DEF PagingInv, tree
<1>2. CallsInv'
  BY CallsFrame DEF PagingInv, physicalVars, vars, tree
<1>3. ClaimsInv => ClaimsInv'
  BY SameClaims DEF ClaimsInv, Accounted, Blocks, physicalVars, vars, tree
<1> QED BY <1>1, <1>2, <1>3 DEF PagingInv

LEMMA PagingWalk ==
    ASSUME PagingInv, NEW page \in ClientPages, Walk(page)
    PROVE  PagingInv'
<1> DEFINE f == get_page(page).frame
<1>1. /\ enabled = "on" /\ Present(page) /\ tlb' = [page |-> page, frame |-> f] /\ stale' = FALSE
      /\ UNCHANGED <<physicalVars, tree, calls, cpu, detached>>
  BY DEF Walk, Idle
<1>2. get_page(page) \in Entries /\ page \in Pages
  BY EntryType, ClientPage DEF PagingInv
<1>3. f \in Blocks /\ get_page(page) = [frame |-> f, present |-> TRUE]
  BY <1>1, <1>2 DEF Entries, Present
<1>4. get_page(page)' = get_page(page)
  BY <1>1, SameTree DEF tree
<1>5. tlb'.page = page /\ tlb'.frame = f
  BY <1>1
<1>6. get_page(tlb.page)' = [frame |-> tlb'.frame, present |-> TRUE]
  <2>1. get_page(tlb.page)' = get_page(page)'
    BY <1>5 DEF get_page
  <2> QED BY <1>3, <1>4, <1>5, <2>1
<1>7. tlb' \in [page : Pages, frame : Blocks]
  BY <1>1, <1>2, <1>3
<1>8. cpu' \in {"running", "hung", "overflow", "astray"}
  BY <1>1 DEF PagingInv, TlbInv
<1>9. TlbInv'
  BY <1>1, <1>6, <1>7, <1>8 DEF TlbInv, TlbCoherent, Pages, Blocks
<1> QED BY <1>1, <1>9, Translation

LEMMA PagingEvict ==
    ASSUME PagingInv, Evict
    PROVE  PagingInv'
<1>1. /\ enabled = "on" /\ tlb' = NoTranslation /\ stale' = FALSE
      /\ UNCHANGED <<physicalVars, tree, calls, cpu, detached>>
  BY Running DEF Evict
<1>2. TlbInv'
  <2>1. NoTranslation \in [page : Pages, frame : Blocks]
    BY SizeOfTables DEF NoTranslation
  <2>2. tlb' \in [page : Pages, frame : Blocks]' /\ stale' \in BOOLEAN
    BY <1>1, <2>1 DEF Pages, Blocks
  <2>3. TlbCoherent'
    BY <1>1 DEF TlbCoherent, NoTranslation
  <2>4. cpu' \in {"running", "hung", "overflow", "astray"}
    BY <1>1 DEF PagingInv, TlbInv
  <2> QED BY <2>2, <2>3, <2>4 DEF TlbInv
<1> QED BY <1>1, <1>2, Translation

LEMMA FirstCall ==
    ASSUME PagingInv, Idle, NEW page \in ClientPages, ~ Present(page),
           NEW name \in {"PFHandler", "allocate_page"},
           name = "allocate_page" => pd[PD_INDEX(page)] # 0,
           calls' = <<Call(name, page)>>,
           UNCHANGED <<physicalVars, tree, tlb, cpu, history>>
    PROVE  PagingInv'
<1> DEFINE c == Call(name, page)
<1>1. /\ c \in Calls /\ c.frame = 0 /\ c.step = "frame" /\ c.page = page /\ c.name = name
      /\ PD_INDEX(page) \notin KernelSlots
  BY SizeOfTables, ClientPage DEF Call, Calls, Steps
<1> HIDE DEF c
<1>2. enabled = "on" /\ cpu = "running" /\ calls = <<>>
  BY DEF Idle
<1>3. AllocInv' /\ TreeInv' /\ TlbInv'
  BY <1>2, Undisturbed
<1>4. calls' = Append(<<>>, c) /\ calls' = <<c>>
  BY DEF c
<1>5. calls' \in Seq(Calls) /\ Len(calls') = 1 /\ calls'[1] = c
  BY <1>1, <1>4
<1>6. CallsInv'
  <2>1. Top' = c
    BY <1>5 DEF Top
  <2>2. Formed(c, 1, pd')
    BY <1>1 DEF Formed, tree
  <2>3. (~ Present(Top.page))'
    <3>1. Top'.page = page
      BY <1>1, <2>1
    <3> QED BY <3>1 DEF Present, get_page, tree
  <2>4. Len(calls') <= STACK
    BY <1>5, PagesAssumption
  <2>5. \A k \in 1 .. Len(calls') : k = 1
    BY <1>5
  <2>6. 1 .. Len(calls') - 1 = {}
    BY <1>5
  <2> QED BY <1>1, <1>5, <2>1, <2>2, <2>3, <2>4, <2>5, <2>6 DEF CallsInv
<1>7. Claims' = Claims
  <2>1. <<>> \in Seq(Calls)
    BY EmptySeq
  <2>2. Held(Append(<<>>, c)) = Held(<<>>)
    BY <1>1, <2>1, HeldPush
  <2>3. Held(calls)' = Held(Append(<<>>, c))
    <3>1. Held(calls)' = Held(calls')
      BY DEF Held
    <3> QED BY <1>4, <3>1
  <2> QED BY <1>2, <2>2, <2>3, SameFixed DEF Claims, tree, history
<1>8. ClaimsInv'
  BY <1>2, <1>7 DEF PagingInv, ClaimsInv, Accounted, Blocks, physicalVars, vars
<1> QED BY <1>3, <1>6, <1>8 DEF PagingInv

\* A page that loses its frame: the claim on it is given up, and what the TLB may
\* still hold of it is stale.
LEMMA PageLeaves ==
    ASSUME PagingInv, Idle, NEW page \in ClientPages, Present(page),
           NEW e \in Entries, ~ e.present, tables' = WithEntry(page, e),
           stale' = (stale \/ tlb.page = page),
           UNCHANGED <<enabled, g_currentPD, pd, tlb, calls, cpu>>
    PROVE  /\ TreeInv' /\ CallsInv' /\ TlbInv'
           /\ <<"page", page, get_page(page).frame>> \in PageClaims
           /\ PageClaims' = PageClaims \ {<<"page", page, get_page(page).frame>>}
           /\ get_page(page).frame \in Blocks
<1>1. enabled = "on" /\ cpu = "running" /\ calls = <<>> /\ TreeInv /\ TlbInv
  BY DEF Idle, PagingInv
<1>2. page \in Pages /\ PD_INDEX(page) \notin KernelSlots /\ pd[PD_INDEX(page)] # 0
  BY ClientPage, NoTable
<1>3. TreeInv' /\ get_page(page)' = e /\ \A q \in Pages \ {page} : get_page(q)' = get_page(q)
  BY <1>1, <1>2, OneEntry
<1>4. CallsInv'
  BY <1>1, NoCalls
<1>5. TlbInv'
  <2>1. stale' \in BOOLEAN
    BY Zenon
  <2>2. tlb' \in [page : Pages, frame : Blocks]' /\ cpu' \in {"running", "hung", "overflow", "astray"}
    BY <1>1 DEF TlbInv, Pages, Blocks
  <2>3. ASSUME tlb' # NoTranslation, ~ stale'
        PROVE  get_page(tlb.page)' = [frame |-> tlb'.frame, present |-> TRUE]
    <3>1. ~ stale /\ tlb.page # page
      BY <2>3, Zenon
    <3>2. get_page(tlb.page) = [frame |-> tlb.frame, present |-> TRUE]
      BY <1>1, <2>3, <3>1 DEF TlbInv, TlbCoherent
    <3>3. tlb.page \in Pages \ {page}
      BY <1>1, <3>1 DEF TlbInv
    <3>4. \A q : q = tlb.page => get_page(q)' = get_page(tlb.page)'
      BY DEF get_page
    <3> QED BY <1>3, <3>2, <3>3, <3>4
  <2>4. TlbCoherent'
    BY <2>3 DEF TlbCoherent, NoTranslation
  <2> QED BY <2>1, <2>2, <2>4 DEF TlbInv
<1>6. page \in Mapped
  BY <1>2 DEF Mapped
<1>7. Mapped' = Mapped \ {page}
  <2>1. \A q \in Pages : Present(q)' <=> (Present(q) /\ q # page)
    BY <1>3 DEF Present
  <2> QED BY <2>1 DEF Mapped
<1>8. PageClaims' = PageClaims \ {<<"page", page, get_page(page).frame>>}
  <2>1. PageClaims' = {<<"page", q, get_page(q)'.frame>> : q \in Mapped \ {page}}
    BY <1>7 DEF PageClaims
  <2>2. \A q \in Mapped \ {page} : get_page(q)' = get_page(q)
    BY <1>3 DEF Mapped
  <2> QED BY <2>1, <2>2 DEF PageClaims
<1>9. get_page(page).frame \in Blocks
  BY <1>1, <1>2, EntryType DEF Entries
<1> QED BY <1>3, <1>4, <1>5, <1>6, <1>8, <1>9 DEF PageClaims

LEMMA OtherClaims ==
    ASSUME NEW c, c[1] = "page", c \in PageClaims, calls = <<>>
    PROVE  LET others == DirectoryClaims \cup TableClaims \cup DetachedClaims
           IN  Claims = ((PageClaims \ {c}) \cup others) \cup {c} /\ c \notin others
<1>1. Held(calls) = {}
  <2>1. Len(<<>>) = 0
    OBVIOUS
  <2> QED BY <2>1 DEF Held
<1>2. c \notin DirectoryClaims \cup TableClaims \cup DetachedClaims
  BY DEF DirectoryClaims, TableClaims, DetachedClaims
<1> QED BY <1>1, <1>2 DEF Claims, Fixed

LEMMA PagingFree ==
    ASSUME PagingInv, NEW page \in ClientPages, free_page(page)
    PROVE  PagingInv'
<1> DEFINE f == get_page(page).frame
           e == [get_page(page) EXCEPT !.present = FALSE]
           old == <<"page", page, f>>
           R == (PageClaims \ {old}) \cup (DirectoryClaims \cup TableClaims \cup DetachedClaims)
<1>1. /\ Idle /\ Present(page) /\ Free(f, 1) /\ tables' = WithEntry(page, e)
      /\ stale' = (stale \/ tlb.page = page)
      /\ UNCHANGED <<enabled, g_currentPD, pd, tlb, calls, cpu, detached>>
  BY DEF free_page
<1>2. cpu = "running" /\ calls = <<>> /\ Accounted(Claims, owners) /\ AllocInv
  BY <1>1 DEF Idle, PagingInv, ClaimsInv
<1>3. e \in Entries /\ ~ e.present
  <2>1. get_page(page) \in Entries
    BY EntryType, ClientPage DEF PagingInv
  <2> QED BY <2>1 DEF Entries
<1>4. /\ TreeInv' /\ CallsInv' /\ TlbInv'
      /\ old \in PageClaims /\ PageClaims' = PageClaims \ {old} /\ f \in Blocks
  BY <1>1, <1>3, PageLeaves
<1>5. owners' = [owners EXCEPT ![f] = 0] /\ AllocInv'
  BY <1>1, <1>2, <1>4, FreeOne
<1>6. Claims = R \cup {old} /\ old \notin R
  <2>1. old[1] = "page"
    OBVIOUS
  <2> QED BY <1>2, <1>4, <2>1, OtherClaims
<1>7. Claims' = R
  <2>1. /\ DirectoryClaims' = DirectoryClaims /\ DetachedClaims' = DetachedClaims
        /\ TableClaims' = TableClaims
    BY <1>1 DEF DirectoryClaims, Directory, Run, Blocks, DetachedClaims, TableClaims
  <2>2. Held(calls)' = {}
    <3>1. Len(<<>>) = 0
      OBVIOUS
    <3> QED BY <1>1, <1>2, <3>1 DEF Held
  <2> QED BY <1>4, <2>1, <2>2 DEF Claims, Fixed
<1>8. Accounted(Claims', owners')
  <2>1. old[3] = f
    OBVIOUS
  <2> HIDE DEF old, R, f
  <2> QED BY <1>2, <1>5, <1>6, <1>7, <2>1, GivenUp, Running
<1> QED BY <1>4, <1>5, <1>8 DEF PagingInv, ClaimsInv

LEMMA PagingUnmap ==
    ASSUME PagingInv, NEW page \in ClientPages, unmap_page(page)
    PROVE  PagingInv'
<1> DEFINE f == get_page(page).frame
           old == <<"page", page, f>>
           new == <<"detached", 0, f>>
           R == (PageClaims \ {old}) \cup (DirectoryClaims \cup TableClaims \cup DetachedClaims)
<1>1. /\ Idle /\ Present(page) /\ tables' = WithEntry(page, NoEntry)
      /\ stale' = (stale \/ tlb.page = page) /\ detached' = detached \cup {f}
      /\ UNCHANGED <<physicalVars, enabled, g_currentPD, pd, tlb, calls, cpu>>
  BY DEF unmap_page
<1>2. /\ cpu = "running" /\ calls = <<>> /\ Accounted(Claims, owners) /\ AllocInv
      /\ enabled = "on"
  BY <1>1 DEF Idle, PagingInv, ClaimsInv
<1>3. NoEntry \in Entries /\ ~ NoEntry.present
  BY SizeOfTables DEF NoEntry, Entries
<1>4. /\ TreeInv' /\ CallsInv' /\ TlbInv'
      /\ old \in PageClaims /\ PageClaims' = PageClaims \ {old} /\ f \in Blocks
  BY <1>1, <1>3, PageLeaves
<1>5. AllocInv'
  BY <1>1, <1>2, AllocFrame
<1>6. Claims = R \cup {old} /\ old \notin R
  <2>1. old[1] = "page"
    OBVIOUS
  <2> QED BY <1>2, <1>4, <2>1, OtherClaims
<1>7. Claims' = R \cup {new}
  <2>1. /\ DirectoryClaims' = DirectoryClaims /\ TableClaims' = TableClaims
        /\ DetachedClaims' = DetachedClaims \cup {new}
    BY <1>1 DEF DirectoryClaims, Directory, Run, Blocks, DetachedClaims, TableClaims
  <2>2. Held(calls)' = {}
    <3>1. Len(<<>>) = 0
      OBVIOUS
    <3> QED BY <1>1, <1>2, <3>1 DEF Held
  <2> QED BY <1>4, <2>1, <2>2 DEF Claims, Fixed
<1>8. Accounted(Claims', owners')
  <2>1. old[3] = new[3]
    OBVIOUS
  <2>2. UNCHANGED owners
    BY <1>1 DEF physicalVars, vars
  <2> HIDE DEF old, new, R
  <2> QED BY <1>2, <1>6, <1>7, <2>1, <2>2, HandedOn
<1> QED BY <1>4, <1>5, <1>8 DEF PagingInv, ClaimsInv

-----------------------------------------------------------------------------
(* The theorems                                                            *)

LEMMA PagingStep == PagingInv /\ [PagingNext]_allVars => PagingInv'
<1> SUFFICES ASSUME PagingInv, [PagingNext]_allVars PROVE PagingInv'
  OBVIOUS
<1>1. CASE BootStep /\ UNCHANGED pagingVars
  BY <1>1, PagingBoot
<1>2. CASE Page_Manager_Init
  BY <1>2, PagingDirectory, PagingTables DEF Page_Manager_Init
<1>3. CASE CallStep
  BY <1>3, PagingAllocateFrame, PagingFindTable, PagingNewTable, PagingClearTable, PagingSetEntry
     DEF CallStep
<1>4. CASE Evict
  BY <1>4, PagingEvict
<1>5. ASSUME NEW page \in ClientPages, Walk(page) PROVE PagingInv'
  BY <1>5, PagingWalk
<1>6. ASSUME NEW page \in ClientPages, PageFault(page) PROVE PagingInv'
  BY <1>6, FirstCall DEF PageFault
<1>7. ASSUME NEW page \in ClientPages, allocate_page(page) PROVE PagingInv'
  BY <1>7, FirstCall DEF allocate_page
<1>8. ASSUME NEW page \in ClientPages, free_page(page) PROVE PagingInv'
  BY <1>8, PagingFree
<1>9. ASSUME NEW page \in ClientPages, unmap_page(page) PROVE PagingInv'
  BY <1>9, PagingUnmap
<1>10. CASE UNCHANGED allVars
  <2>1. UNCHANGED <<physicalVars, tree, tlb, calls, cpu, stale, detached>>
    BY <1>10 DEF allVars, pagingVars, physicalVars, vars, history
  <2>2. AllocInv' /\ TreeInv'
    BY <2>1, AllocFrame, TreeFrame DEF PagingInv, tree
  <2>3. CallsInv'
    BY <2>1, CallsFrame DEF PagingInv, tree, physicalVars, vars
  <2>4. TlbInv'
    BY <2>1, TlbFrame, SameTree DEF PagingInv, TlbInv, tree
  <2>5. ClaimsInv => ClaimsInv'
    BY <2>1, SameClaims DEF ClaimsInv, Accounted, Blocks, tree, physicalVars, vars
  <2> QED BY <2>1, <2>2, <2>3, <2>4, <2>5 DEF PagingInv
<1> QED BY <1>1, <1>2, <1>3, <1>4, <1>5, <1>6, <1>7, <1>8, <1>9, <1>10 DEF PagingNext

LEMMA PagingAlways == PagingSpec => []PagingInv
  BY PagingInitially, PagingStep, PTL DEF PagingSpec

\* The tables in use are those of the directory, each in one slot, and hold addresses
\* of memory; the calls fit on the stack.
THEOREM PagingTypes == PagingSpec => []PagingTypeOK
<1>1. PagingInv => PagingTypeOK
  BY DEF PagingInv, TreeInv, CallsInv, TlbInv, PagingTypeOK
<1> QED BY <1>1, PagingAlways, PTL

\* The CPU never goes by an outdated translation but of a page that was unmapped or
\* freed while it held it: allocate_page need not flush, map_page does.
THEOREM TranslationsAreCurrent == PagingSpec => []TlbCoherent
<1>1. PagingInv => TlbCoherent
  BY DEF PagingInv, TlbInv
<1> QED BY <1>1, PagingAlways, PTL

\* However pages are touched, mapped, freed and unmapped, and however deep faults
\* nest, every block allocated is still in the tree, a page's, a call's or one that
\* unmap_page left.
THEOREM NoBlockIsLost == PagingSpec => []NoFrameLost
<1>1. ASSUME PagingInv PROVE NoFrameLost
  <2> SUFFICES ASSUME enabled = "on", cpu = "running", NEW b \in Blocks, owners[b] > 0
               PROVE  b \in InTree \cup {get_page(page).frame : page \in Mapped}
                             \cup UnderWay \cup detached
    BY DEF NoFrameLost
  <2>1. PICK c \in Claims : c[3] = b
    BY <1>1 DEF PagingInv, ClaimsInv, Accounted
  <2>2. CASE c \in DirectoryClaims
    <3>1. b \in Directory
      BY <2>1, <2>2 DEF DirectoryClaims
    <3> QED BY <3>1 DEF Directory, InTree
  <2>3. CASE c \in TableClaims
    <3>1. \E s \in Slots : pd[s] = b /\ pd[s] # 0
      BY <2>1, <2>3 DEF TableClaims
    <3> QED BY <1>1, <3>1 DEF PagingInv, TreeInv, InTree
  <2>4. CASE c \in PageClaims
    <3>1. b \in {get_page(page).frame : page \in Mapped}
      BY <2>1, <2>4 DEF PageClaims
    <3> QED BY <3>1
  <2>5. CASE c \in DetachedClaims
    BY <2>1, <2>5 DEF DetachedClaims
  <2>6. CASE c \in Held(calls)
    <3>1. \E k \in 1 .. Len(calls) : b \in {calls[k].frame, calls[k].table}
      BY <2>1, <2>6 DEF Held
    <3>2. DOMAIN calls = 1 .. Len(calls)
      BY <1>1, LenProperties DEF PagingInv, CallsInv
    <3> QED BY <3>1, <3>2 DEF UnderWay
  <2> QED BY <2>2, <2>3, <2>4, <2>5, <2>6 DEF Claims, Fixed
<1> QED BY <1>1, PagingAlways, PTL

\* No two pages share a frame, and none has a block of the tree or one that is free.
THEOREM FramesAreExclusive == PagingSpec => []FramesExclusive
<1>1. ASSUME PagingInv PROVE FramesExclusive
  <2> DEFINE frames == {get_page(page).frame : page \in Mapped}
             frame == [page \in Mapped |-> get_page(page).frame]
  <2> SUFFICES ASSUME cpu = "running"
               PROVE  /\ Cardinality(frames) = Cardinality(Mapped)
                      /\ frames \cap InTree = {}
                      /\ \A f \in frames : owners[f] = 1
    BY DEF FramesExclusive
  <2>1. Accounted(Claims, owners)
    BY <1>1 DEF PagingInv, ClaimsInv
  <2>2. \A page \in Mapped : <<"page", page, get_page(page).frame>> \in Claims
    BY DEF Claims, Fixed, PageClaims
  <2>3. \A f \in frames : owners[f] = 1 /\ f \in Blocks
    <3> SUFFICES ASSUME NEW p \in Mapped
                 PROVE  owners[get_page(p).frame] = 1 /\ get_page(p).frame \in Blocks
      OBVIOUS
    <3> DEFINE c == <<"page", p, get_page(p).frame>>
    <3>1. c \in Claims /\ c[3] = get_page(p).frame
      BY <2>2
    <3> HIDE DEF c
    <3> QED BY <2>1, <3>1 DEF Accounted
  <2>4. \A p, q \in Mapped : get_page(p).frame = get_page(q).frame => p = q
    <3> SUFFICES ASSUME NEW p \in Mapped, NEW q \in Mapped, get_page(p).frame = get_page(q).frame
                 PROVE  p = q
      OBVIOUS
    <3> DEFINE c == <<"page", p, get_page(p).frame>>
               d == <<"page", q, get_page(q).frame>>
    <3>1. c \in Claims /\ d \in Claims
      BY <2>2
    <3>2. c[3] = d[3] /\ c[2] = p /\ d[2] = q
      OBVIOUS
    <3> HIDE DEF c, d
    <3>3. c = d
      BY <2>1, <3>1, <3>2 DEF Accounted
    <3> QED BY <3>2, <3>3
  <2>5. Cardinality(frames) = Cardinality(Mapped)
    <3>1. IsFiniteSet(Mapped)
      <4>1. IsFiniteSet(Pages)
        BY PagesAssumption, FS_Interval DEF Pages
      <4> QED BY <4>1, FS_Subset DEF Mapped
    <3>2. /\ frame \in [Mapped -> frames]
          /\ \A p, q \in Mapped : frame[p] = frame[q] => p = q
          /\ \A f \in frames : \E p \in Mapped : frame[p] = f
      BY <2>4
    <3> HIDE DEF frames, frame
    <3>3. frame \in Bijection(Mapped, frames)
      BY <3>2, Fun_IsBij
    <3>4. ExistsBijection(Mapped, frames)
      BY <3>3, Fun_ExistsBij
    <3> QED BY <3>1, <3>4, FS_Bijection
  <2>6. frames \cap InTree = {}
    <3> SUFFICES ASSUME NEW p \in Mapped, get_page(p).frame \in InTree PROVE FALSE
      OBVIOUS
    <3> DEFINE f == get_page(p).frame
    <3>1. <<"page", p, f>> \in Claims /\ f \in Blocks
      BY <2>2, <2>3
    <3>2. \E c \in Claims : c[1] \in {"dir", "table"} /\ c[3] = f
      <4>1. CASE f \in DOMAIN tables
        <5>1. PICK s \in Slots : pd[s] = f /\ pd[s] # 0
          BY <1>1, <4>1 DEF PagingInv, TreeInv
        <5>2. <<"table", s, f>> \in Claims
          BY <5>1 DEF Claims, Fixed, TableClaims
        <5>3. <<"table", s, f>>[1] = "table" /\ <<"table", s, f>>[3] = f
          OBVIOUS
        <5> QED BY <5>2, <5>3
      <4>2. CASE g_currentPD # 0 /\ f \in Run(g_currentPD, 3)
        <5>1. <<"dir", 0, f>> \in Claims
          BY <3>1, <4>2 DEF Claims, Fixed, DirectoryClaims, Directory
        <5>2. <<"dir", 0, f>>[1] = "dir" /\ <<"dir", 0, f>>[3] = f
          OBVIOUS
        <5> QED BY <5>1, <5>2
      <4> QED BY <4>1, <4>2 DEF InTree
    <3>3. PICK c \in Claims : c[1] \in {"dir", "table"} /\ c[3] = f
      BY <3>2
    <3>4. c = <<"page", p, f>>
      BY <2>1, <3>1, <3>3 DEF Accounted
    <3> QED BY <3>3, <3>4
  <2> QED BY <2>3, <2>5, <2>6
<1> QED BY <1>1, PagingAlways, PTL
=============================================================================
