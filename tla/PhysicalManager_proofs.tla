------------------------ MODULE PhysicalManager_proofs ------------------------
(***************************************************************************)
(* Requests for one block are served correctly on every machine, whatever  *)
(* the sizes, the memory map and the memory past the map.  The invariant   *)
(* follows the bits through the boot: before the regions are freed every   *)
(* block that is ever searched is used, a free one is available memory     *)
(* from then on, and a reserved one is used for good.                      *)
(***************************************************************************)
EXTENDS PhysicalManager, FiniteSetTheorems, SequenceTheorems, TLAPS

UnitRequests == Requests \subseteq {1}

Stages == {"get_total_mem", "set_type1", "reserve", "ready"}

Types ==
    /\ g_memoryMap \subseteq Nat
    /\ g_maxBlocks \in 0 .. LIMIT \div BLOCK_SIZE
    /\ g_usedBlocks \in Nat
    /\ mbinfo \in Machines
    /\ boot \in Stages
    /\ entry \in Nat \ {0} /\ total_mem \in Nat
    /\ owners \in [Blocks -> Nat]

\* The blocks that the entries called available make of themselves.
UsableBlocks == UNION {Region(mbinfo[e].addr, mbinfo[e].len) :
                          e \in {k \in DOMAIN mbinfo : mbinfo[k].available}}

\* A block the search may find free is of one of them, and not block 0.
SearchInv ==
    \A b \in Scanned : b \notin g_memoryMap => b \in UsableBlocks /\ b # 0

ReservedInv ==
    /\ boot \in {"reserve", "ready"} => Region(KERNEL_BASE, KERNEL_SIZE) \subseteq g_memoryMap
    /\ boot = "ready" => Region(MEMMAP_AREA, MapBytes) \subseteq g_memoryMap

OwnersInv ==
    /\ boot # "ready" => \A b \in Blocks : owners[b] = 0
    /\ \A b \in Blocks :
           owners[b] = 0 \/ (owners[b] = 1 /\ b \in g_memoryMap /\ b \in UsableBlocks \ Reserved)

SafeInv == SearchInv /\ ReservedInv /\ OwnersInv

LEMMA SizeTypes ==
    /\ BLOCK_SIZE \in Nat \ {0} /\ BLOCKS_PER_BYTE \in Nat \ {0} /\ WORD \in Nat \ {0}
    /\ LIMIT \in Nat \ {0} /\ UINT \in Nat \ {0}
  BY SizesAssumption

LEMMA DivideTypes ==
    ASSUME NEW d \in Nat \ {0}, NEW a \in Nat
    PROVE  a \div d \in Nat /\ \A b \in Nat : a <= b => a \div d <= b \div d
  BY SMTT(20)

LEMMA WrapType ==
    ASSUME NEW a \in Int
    PROVE  a % UINT \in Nat
  BY SizeTypes

LEMMA RegionTypes ==
    ASSUME NEW base \in Nat, NEW size \in Nat, base < LIMIT
    PROVE  Region(base, size) \subseteq Nat /\ Cardinality(Region(base, size)) \in Nat
<1> DEFINE length == IF base + size > LIMIT THEN LIMIT - base ELSE size
<1>1. length \in Nat
  BY SizeTypes
<1>2. base \div BLOCK_SIZE \in Nat /\ length \div BLOCK_SIZE \in Nat
  BY <1>1, SizeTypes, DivideTypes
<1> HIDE DEF length
<1>3. Region(base, size) = base \div BLOCK_SIZE .. base \div BLOCK_SIZE + length \div BLOCK_SIZE - 1
  BY DEF Region, length
<1>4. Region(base, size) \subseteq Nat
  BY <1>2, <1>3
<1>5. IsFiniteSet(Region(base, size))
  BY <1>2, <1>3, FS_Interval
<1> QED BY <1>4, <1>5, FS_CardinalityType

LEMMA EntryTypes ==
    ASSUME Types, entry \in DOMAIN mbinfo
    PROVE  /\ mbinfo[entry].addr \in Nat /\ mbinfo[entry].len \in Nat
           /\ mbinfo[entry].available \in BOOLEAN
           /\ mbinfo[entry].available =>
                  Region(mbinfo[entry].addr, mbinfo[entry].len) \subseteq UsableBlocks
<1>1. mbinfo[entry] \in [addr : Nat, len : Nat, available : BOOLEAN]
  <2>1. mbinfo \in Seq([addr : Nat, len : Nat, available : BOOLEAN])
    BY MachinesAssumption DEF Types
  <2>2. entry \in 1 .. Len(mbinfo)
    BY <2>1
  <2> QED BY <2>1, <2>2, ElementOfSeq
<1> QED BY <1>1 DEF UsableBlocks

LEMMA TypesInit == Init => Types
<1> SUFFICES ASSUME Init PROVE Types
  OBVIOUS
<1>1. LIMIT \div BLOCK_SIZE \in Nat
  BY SizeTypes, DivideTypes
<1> QED BY <1>1, ClientsAssumption DEF Init, Types, Stages

LEMMA TypesBoot == Types /\ BootStep => Types'
<1> SUFFICES ASSUME Types, BootStep PROVE Types'
  OBVIOUS
<1> USE DEF Types, Stages
<1>1. CASE get_total_mem
  BY <1>1, EntryTypes DEF get_total_mem, allocator
<1>2. CASE InitializeMap
  <2> DEFINE size == IF total_mem > LIMIT THEN LIMIT ELSE total_mem
  <2>1. g_maxBlocks' \in 0 .. LIMIT \div BLOCK_SIZE
    <3>1. size \in Nat /\ size <= LIMIT
      BY SizeTypes
    <3> HIDE DEF size
    <3>2. size \div BLOCK_SIZE \in Nat /\ size \div BLOCK_SIZE <= LIMIT \div BLOCK_SIZE
          /\ LIMIT \div BLOCK_SIZE \in Nat
      BY <3>1, SizeTypes, DivideTypes
    <3>3. g_maxBlocks' = size \div BLOCK_SIZE
      BY <1>2 DEF InitializeMap, Memory_Manager_Init, size
    <3> QED BY <3>2, <3>3
  <2>2. g_memoryMap' \subseteq Nat
    <3>1. \A x : Cleared(x) \subseteq Nat
      BY DEF Cleared
    <3> QED BY <1>2, <3>1 DEF InitializeMap, Memory_Manager_Init
  <2>3. g_usedBlocks' \in Nat
    BY <1>2, <2>1 DEF InitializeMap, Memory_Manager_Init
  <2> QED BY <1>2, <2>1, <2>2, <2>3 DEF InitializeMap
<1>3. CASE set_type1
  <2>1. mbinfo[entry].addr \in Nat /\ mbinfo[entry].len \in Nat
    BY <1>3, EntryTypes DEF set_type1
  <2> DEFINE region == Region(mbinfo[entry].addr, mbinfo[entry].len)
  <2>2. CASE mbinfo[entry].addr >= LIMIT
    <3>1. UNCHANGED <<allocator, mbinfo, boot, total_mem, owners>> /\ entry' = entry + 1
      BY <1>3, <2>2 DEF set_type1, SetRegion
    <3> QED BY <3>1 DEF allocator
  <2>3. CASE ~ (mbinfo[entry].addr >= LIMIT)
    <3>1. region \subseteq Nat /\ Cardinality(region) \in Nat
      <4>1. mbinfo[entry].addr < LIMIT
        BY <2>1, <2>3, SizeTypes
      <4> QED BY <2>1, <4>1, RegionTypes
    <3>2. /\ (g_usedBlocks - Cardinality(region)) % UINT \in Nat
          /\ (g_usedBlocks + Cardinality(region)) % UINT \in Nat
      BY <3>1, WrapType
    <3> HIDE DEF region
    <3>3. /\ g_memoryMap' \in {(g_memoryMap \ region) \cup {0}, g_memoryMap \cup region}
          /\ g_usedBlocks' \in Nat /\ UNCHANGED g_maxBlocks
      BY <1>3, <2>3, <3>2 DEF set_type1, SetRegion, initialize_region, deinitialize_region, region
    <3> QED BY <1>3, <3>1, <3>3 DEF set_type1
  <2> QED BY <2>2, <2>3
<1>4. ASSUME NEW base \in Nat, NEW size \in Nat, base < LIMIT, deinitialize_region(base, size)
      PROVE  g_memoryMap' \subseteq Nat /\ g_usedBlocks' \in Nat /\ UNCHANGED g_maxBlocks
  <2>1. Region(base, size) \subseteq Nat /\ Cardinality(Region(base, size)) \in Nat
    BY <1>4, RegionTypes
  <2>2. g_usedBlocks + Cardinality(Region(base, size)) \in Int
    BY <2>1
  <2> QED BY <1>4, <2>1, <2>2, WrapType DEF deinitialize_region
<1>5. CASE ReserveKernel
  <2>1. KERNEL_BASE \in Nat /\ KERNEL_SIZE \in Nat
    BY SizesAssumption
  <2>2. KERNEL_BASE < LIMIT
    BY SizesAssumption
  <2> QED BY <1>4, <1>5, <2>1, <2>2 DEF ReserveKernel
<1>6. CASE ReserveMap
  <2>1. MEMMAP_AREA \in Nat /\ MEMMAP_AREA < LIMIT /\ MapBytes \in Nat
    BY SizesAssumption, SizeTypes, DivideTypes DEF MapBytes
  <2> QED BY <1>4, <1>6, <2>1 DEF ReserveMap
<1> QED BY <1>1, <1>2, <1>3, <1>5, <1>6 DEF BootStep

LEMMA TypesAllocate ==
    ASSUME Types, NEW n \in Nat, Allocate(n)
    PROVE  Types'
  BY WrapType DEF Types, Stages, Allocate, TakeBlocks, progress, Run, Candidates, Scanned

LEMMA TypesFree ==
    ASSUME Types, NEW block \in Blocks, Free(block, 1)
    PROVE  Types'
<1> USE DEF Types, Stages
<1>1. Run(block, 1) = {block} /\ owners[block] > 0
  BY DEF Free, Run, Blocks
<1>2. g_usedBlocks' \in Nat
  BY <1>1, WrapType DEF Free, free_blocks
<1>3. owners' \in [Blocks -> Nat]
  BY <1>1 DEF Free
<1> QED BY <1>2, <1>3 DEF Free, free_blocks, progress

LEMMA TypesNext == UnitRequests /\ Types /\ [Next]_vars => Types'
<1> SUFFICES ASSUME UnitRequests, Types, [Next]_vars PROVE Types'
  OBVIOUS
<1>1. ASSUME NEW n \in Requests, Allocate(n) PROVE Types'
  BY <1>1, TypesAllocate DEF UnitRequests
<1>2. ASSUME NEW n \in Requests, NEW block \in Blocks, Free(block, n) PROVE Types'
  <2>1. n = 1
    BY DEF UnitRequests
  <2> QED BY <1>2, <2>1, TypesFree
<1>3. CASE UNCHANGED vars
  BY <1>3 DEF Types, Stages, vars, allocator, progress
<1> QED BY <1>1, <1>2, <1>3, TypesBoot DEF Next

\* Type correctness: the number of blocks is clamped to 4 GB.
THEOREM TypeCorrect == UnitRequests => (Spec => []TypeOK)
<1> SUFFICES ASSUME UnitRequests PROVE Spec => []TypeOK
  OBVIOUS
<1>1. Types => TypeOK
  BY DEF Types, Stages, TypeOK
<1>2. Types /\ [Next]_vars => Types'
  BY TypesNext
<1> QED BY <1>1, <1>2, TypesInit, PTL DEF Spec

-----------------------------------------------------------------------------
(* The bits through the boot, and the clients after it.                    *)

\* A step that leaves the size of the map and the machine as they are, and
\* every searched bit that is 1, keeps SearchInv.
LEMMA SearchFrame ==
    ASSUME SearchInv, UNCHANGED <<g_maxBlocks, mbinfo>>,
           \A b \in Scanned : b \notin g_memoryMap' => b \notin g_memoryMap
    PROVE  SearchInv'
  BY DEF SearchInv, Scanned, UsableBlocks, Region

LEMMA SafeInit == Init => SafeInv
<1> SUFFICES ASSUME Init PROVE SafeInv
  OBVIOUS
<1>1. Scanned = {}
  <2>1. 0 \div WORD = 0
    BY SizeTypes
  <2> QED BY <2>1, SizeTypes DEF Init, Scanned
<1> QED BY <1>1 DEF Init, SafeInv, SearchInv, ReservedInv, OwnersInv

\* Before the machine is ready nobody owns a block.
LEMMA BootOwners ==
    ASSUME OwnersInv, Types, boot # "ready", UNCHANGED owners
    PROVE  OwnersInv'
  BY DEF OwnersInv, Types

LEMMA SafeBoot == Types /\ Types' /\ SafeInv /\ BootStep => SafeInv'
<1> SUFFICES ASSUME Types, Types', SafeInv, BootStep PROVE SafeInv'
  OBVIOUS
<1> USE DEF SafeInv
<1>0. OwnersInv'
  <2>1. boot # "ready" /\ UNCHANGED owners
    BY DEF BootStep, get_total_mem, InitializeMap, set_type1, ReserveKernel, ReserveMap
  <2> QED BY <2>1, BootOwners
<1>1. CASE get_total_mem
  <2>1. SearchInv'
    BY <1>1, SearchFrame DEF get_total_mem, allocator
  <2> QED BY <1>0, <1>1, <2>1 DEF get_total_mem, ReservedInv
<1>2. CASE InitializeMap
  <2>1. Scanned' \subseteq Cleared(g_maxBlocks')
    <3>1. g_maxBlocks' \in 0 .. LIMIT \div BLOCK_SIZE
      BY DEF Types
    <3>2. (g_maxBlocks' \div WORD) * WORD <= (g_maxBlocks' \div BLOCKS_PER_BYTE) * BLOCKS_PER_BYTE
      BY <3>1, WholeWordsAssumption
    <3>3. /\ (g_maxBlocks' \div WORD) * WORD \in Int
          /\ (g_maxBlocks' \div BLOCKS_PER_BYTE) * BLOCKS_PER_BYTE \in Int
      <4>1. g_maxBlocks' \in Nat
        BY <3>1
      <4>2. g_maxBlocks' \div WORD \in Int /\ g_maxBlocks' \div BLOCKS_PER_BYTE \in Int
        BY <4>1, SizeTypes, DivideTypes
      <4> QED BY <4>2, SizeTypes
    <3> QED BY <3>2, <3>3 DEF Scanned, Cleared
  <2>2. Cleared(g_maxBlocks') \subseteq g_memoryMap'
    BY <1>2 DEF InitializeMap, Memory_Manager_Init
  <2>3. SearchInv'
    BY <2>1, <2>2 DEF SearchInv
  <2> QED BY <1>0, <1>2, <2>3 DEF InitializeMap, ReservedInv
<1>3. CASE set_type1
  <2> DEFINE e == mbinfo[entry]
             region == Region(e.addr, e.len)
  <2>1. /\ UNCHANGED <<g_maxBlocks, mbinfo, boot, total_mem>> /\ boot = "set_type1"
        /\ \/ UNCHANGED g_memoryMap
           \/ e.available /\ g_memoryMap' = (g_memoryMap \ region) \cup {0}
           \/ g_memoryMap' = g_memoryMap \cup region
        /\ e.available => region \subseteq UsableBlocks
    BY <1>3, EntryTypes DEF set_type1, SetRegion, initialize_region, deinitialize_region, allocator
  <2> HIDE DEF e, region
  <2>2. ASSUME e.available, g_memoryMap' = (g_memoryMap \ region) \cup {0}
        PROVE  SearchInv'
    <3>1. \A b \in Scanned : b \notin g_memoryMap' => b \in UsableBlocks /\ b # 0
      BY <2>1, <2>2 DEF SearchInv
    <3> QED BY <2>1, <3>1 DEF SearchInv, Scanned, UsableBlocks, Region
  <2>3. SearchInv'
    BY <2>1, <2>2, SearchFrame
  <2> QED BY <1>0, <2>1, <2>3 DEF ReservedInv
<1>4. CASE ReserveKernel
  <2>1. SearchInv'
    BY <1>4, SearchFrame DEF ReserveKernel, deinitialize_region
  <2>2. boot' = "reserve" /\ Region(KERNEL_BASE, KERNEL_SIZE) \subseteq g_memoryMap'
    BY <1>4 DEF ReserveKernel, deinitialize_region
  <2>3. ReservedInv'
    BY <2>2 DEF ReservedInv, Region
  <2> QED BY <1>0, <2>1, <2>3
<1>5. CASE ReserveMap
  <2>1. SearchInv'
    BY <1>5, SearchFrame DEF ReserveMap, deinitialize_region
  <2>2. /\ Region(MEMMAP_AREA, MapBytes) \subseteq g_memoryMap'
        /\ Region(KERNEL_BASE, KERNEL_SIZE) \subseteq g_memoryMap'
        /\ UNCHANGED total_mem
    BY <1>5 DEF ReserveMap, deinitialize_region, ReservedInv
  <2>3. ReservedInv'
    BY <2>2 DEF ReservedInv, Region, MapBytes
  <2> QED BY <1>0, <2>1, <2>3
<1> QED BY <1>1, <1>2, <1>3, <1>4, <1>5 DEF BootStep

\* A client's step moves one block, which was free before or is after.
LEMMA SafeAllocate ==
    ASSUME UnitRequests, Types, SafeInv, NEW n \in Requests, Allocate(n)
    PROVE  SafeInv'
<1>1. PICK block \in Candidates(n) :
          /\ TakeBlocks(block, n)
          /\ owners' = [b \in Blocks |->
                           IF b \in Run(block, n) THEN owners[b] + 1 ELSE owners[b]]
  BY DEF Allocate
<1>2. /\ boot = "ready" /\ UNCHANGED <<g_maxBlocks, mbinfo, boot, total_mem>>
      /\ block \in Scanned /\ block \notin g_memoryMap /\ block \in Int
      /\ n = 1 /\ Run(block, n) = {block}
  BY <1>1 DEF Allocate, TakeBlocks, Candidates, Candidate, check_block, UnitRequests,
              progress, Run, Scanned
<1>3. g_memoryMap' = g_memoryMap \cup {block}
  BY <1>1, <1>2 DEF TakeBlocks
<1>4. block \in UsableBlocks /\ block # 0
  BY <1>2 DEF SafeInv, SearchInv
<1>5. block \notin Reserved
  BY <1>2, <1>4 DEF SafeInv, ReservedInv, Reserved
<1>6. UsableBlocks' = UsableBlocks /\ Reserved' = Reserved
  BY <1>2 DEF UsableBlocks, Reserved, Region, MapBytes
<1>7. OwnersInv'
  <2> SUFFICES ASSUME NEW b \in Blocks
               PROVE  owners'[b] = 0 \/ (/\ owners'[b] = 1 /\ b \in g_memoryMap'
                                         /\ b \in UsableBlocks \ Reserved)
    BY <1>2, <1>6 DEF OwnersInv
  <2>1. CASE b = block
    <3>1. owners[b] = 0
      BY <1>2, <2>1 DEF SafeInv, OwnersInv
    <3> QED BY <1>1, <1>2, <1>3, <1>4, <1>5, <2>1, <3>1
  <2>2. CASE b # block
    <3>1. owners'[b] = owners[b]
      BY <1>1, <1>2, <2>2
    <3> QED BY <1>3, <3>1 DEF SafeInv, OwnersInv
  <2> QED BY <2>1, <2>2
<1>8. SearchInv'
  BY <1>2, <1>3, SearchFrame DEF SafeInv
<1>9. ReservedInv'
  BY <1>2, <1>3 DEF SafeInv, ReservedInv, Region, MapBytes
<1> QED BY <1>7, <1>8, <1>9 DEF SafeInv

LEMMA SafeFree ==
    ASSUME UnitRequests, Types, SafeInv, NEW n \in Requests, NEW block \in Blocks,
           Free(block, n)
    PROVE  SafeInv'
<1>1. /\ boot = "ready" /\ UNCHANGED <<g_maxBlocks, mbinfo, boot, total_mem>>
      /\ n = 1 /\ Run(block, n) = {block} /\ owners[block] > 0
  BY DEF Free, free_blocks, UnitRequests, progress, Run, Blocks
<1>2. g_memoryMap' = g_memoryMap \ {block}
  BY <1>1 DEF Free, free_blocks
<1>3. owners[block] = 1 /\ block \in UsableBlocks /\ block \notin Reserved
  BY <1>1 DEF SafeInv, OwnersInv
<1>4. UsableBlocks' = UsableBlocks /\ Reserved' = Reserved
  BY <1>1 DEF UsableBlocks, Reserved, Region, MapBytes
<1>5. OwnersInv'
  <2> SUFFICES ASSUME NEW b \in Blocks
               PROVE  owners'[b] = 0 \/ (/\ owners'[b] = 1 /\ b \in g_memoryMap'
                                         /\ b \in UsableBlocks \ Reserved)
    BY <1>1, <1>4 DEF OwnersInv
  <2>1. CASE b = block
    BY <1>1, <1>3, <2>1 DEF Free
  <2>2. CASE b # block
    <3>1. owners'[b] = owners[b]
      BY <1>1, <2>2 DEF Free
    <3> QED BY <1>2, <2>2, <3>1 DEF SafeInv, OwnersInv
  <2> QED BY <2>1, <2>2
<1>6. SearchInv'
  <2>1. \A b \in Scanned : b \notin g_memoryMap' => b \in UsableBlocks /\ b # 0
    BY <1>2, <1>3 DEF SafeInv, SearchInv, Reserved
  <2> QED BY <1>1, <1>4, <2>1 DEF SearchInv, Scanned
<1>7. ReservedInv'
  BY <1>1, <1>2, <1>3 DEF SafeInv, ReservedInv, Reserved, Region, MapBytes
<1> QED BY <1>5, <1>6, <1>7 DEF SafeInv

LEMMA SafeNext ==
    ASSUME UnitRequests
    PROVE  Types /\ Types' /\ SafeInv /\ [Next]_vars => SafeInv'
<1> SUFFICES ASSUME Types, Types', SafeInv, [Next]_vars PROVE SafeInv'
  OBVIOUS
<1>1. CASE UNCHANGED vars
  BY <1>1 DEF vars, allocator, progress, SafeInv, SearchInv, ReservedInv, OwnersInv,
              Scanned, UsableBlocks, Reserved, Region, MapBytes
<1> QED BY <1>1, SafeBoot, SafeAllocate, SafeFree DEF Next

LEMMA SafeAlways ==
    ASSUME UnitRequests
    PROVE  Spec => [](Types /\ SafeInv)
<1>1. Types /\ [Next]_vars => Types'
  BY TypesNext
<1>2. Types /\ Types' /\ SafeInv /\ [Next]_vars => SafeInv'
  BY SafeNext
<1> QED BY <1>1, <1>2, TypesInit, SafeInit, PTL DEF Spec

\* Clients that ask for one block at a time, in whatever order they take and
\* give back, are never given the same block.
THEOREM BlocksAreDisjoint == UnitRequests => (Spec => []NoDoubleAllocation)
<1> SUFFICES ASSUME UnitRequests PROVE Spec => []NoDoubleAllocation
  OBVIOUS
<1>1. Types /\ SafeInv => NoDoubleAllocation
  BY DEF SafeInv, OwnersInv, NoDoubleAllocation
<1> QED BY <1>1, SafeAlways, PTL

\* On every machine, block 0, the kernel and what is set aside of the map are
\* reserved in time and for good.
THEOREM ReservedIsSafe == UnitRequests => (Spec => []ReservedStaysUsed)
<1> SUFFICES ASSUME UnitRequests PROVE Spec => []ReservedStaysUsed
  OBVIOUS
<1>1. Types /\ SafeInv => ReservedStaysUsed
  BY DEF SafeInv, OwnersInv, ReservedStaysUsed
<1> QED BY <1>1, SafeAlways, PTL

\* Where the bytes of a region's blocks are.
LEMMA Products ==
    ASSUME NEW d \in Nat \ {0}, NEW a \in Nat
    PROVE  /\ a \div d \in Nat
           /\ (a \div d) * d <= a /\ a < (a \div d) * d + d
  BY SMTT(20)

LEMMA BlocksApart ==
    ASSUME NEW d \in Nat \ {0}, NEW m \in Nat, NEW n \in Nat, m < n
    PROVE  m * d + d <= n * d
<1>1. PICK k \in Nat : n = m + 1 + k
  <2>1. n - m - 1 \in Nat /\ n = m + 1 + (n - m - 1)
    OBVIOUS
  <2> QED BY <2>1
<1>2. n * d = m * d + d + k * d
  BY <1>1, SMTT(20)
<1>3. k * d \in Nat /\ m * d \in Nat
  OBVIOUS
<1> QED BY <1>2, <1>3

LEMMA RegionBytes ==
    ASSUME NEW base \in Nat, NEW size \in Nat, NEW b \in Blocks, b \in Region(base, size),
           NEW byte \in Bytes(b)
    PROVE  \/ byte \in base .. base + size - 1
           \/ base \div BLOCK_SIZE = b /\ byte < base
<1> DEFINE length == IF base + size > LIMIT THEN LIMIT - base ELSE size
           first == base \div BLOCK_SIZE
           count == length \div BLOCK_SIZE
<1>1. /\ b \in Nat /\ b < LIMIT \div BLOCK_SIZE /\ LIMIT \div BLOCK_SIZE \in Nat
      /\ b * BLOCK_SIZE \in Nat
  BY SizeTypes, DivideTypes DEF Blocks
<1>2. first \in Nat /\ first * BLOCK_SIZE <= base /\ base < first * BLOCK_SIZE + BLOCK_SIZE
  BY SizeTypes, Products
<1>3. b \in first .. first + count - 1
  BY DEF Region
<1>4. base < LIMIT
  <2>1. CASE base >= LIMIT
    <3>1. LIMIT \div BLOCK_SIZE <= first
      BY <2>1, SizeTypes, DivideTypes
    <3> HIDE DEF first, count
    <3> QED BY <1>1, <1>2, <1>3, <3>1
  <2> QED BY <2>1, SizeTypes
<1>5. length \in Nat /\ base + length <= base + size
  BY <1>4, SizeTypes
<1> HIDE DEF length
<1>6. count \in Nat /\ count * BLOCK_SIZE <= length
  BY <1>5, SizeTypes, Products
<1> HIDE DEF first, count
<1>7. b >= first /\ b < first + count
  BY <1>1, <1>2, <1>3, <1>6
<1>8. b * BLOCK_SIZE + BLOCK_SIZE <= first * BLOCK_SIZE + count * BLOCK_SIZE
  <2>1. b * BLOCK_SIZE + BLOCK_SIZE <= (first + count) * BLOCK_SIZE
    <3>1. first + count \in Nat
      BY <1>2, <1>6
    <3> QED BY <1>1, <1>7, <3>1, SizeTypes, BlocksApart
  <2>2. (first + count) * BLOCK_SIZE = first * BLOCK_SIZE + count * BLOCK_SIZE
    BY <1>2, <1>6, SizeTypes, SMTT(20)
  <2> QED BY <2>1, <2>2
<1>9. byte \in Int /\ b * BLOCK_SIZE <= byte /\ byte < b * BLOCK_SIZE + BLOCK_SIZE
  BY <1>1, SizeTypes DEF Bytes
<1>10. first * BLOCK_SIZE \in Nat /\ count * BLOCK_SIZE \in Nat
  BY <1>2, <1>6, SizeTypes
<1>11. byte < base + size
  BY <1>1, <1>2, <1>5, <1>6, <1>8, <1>9, <1>10, SizeTypes
<1>12. CASE b = first
  <2>1. byte < base \/ byte >= base
    BY <1>9
  <2> QED BY <1>9, <1>11, <1>12, <2>1 DEF first
<1>13. CASE first < b
  <2>1. first * BLOCK_SIZE + BLOCK_SIZE <= b * BLOCK_SIZE
    BY <1>1, <1>2, <1>13, SizeTypes, BlocksApart
  <2>2. base <= byte
    BY <1>1, <1>2, <1>9, <1>10, <2>1, SizeTypes
  <2> QED BY <1>9, <1>11, <2>2
<1> QED BY <1>1, <1>2, <1>7, <1>12, <1>13

\* No client is given memory that the boot loader did not call available, but for
\* what lies in a block before the start of an entry that it did.
THEOREM OnlyAvailable == UnitRequests => (Spec => []OnlyAvailableMemory)
<1> SUFFICES ASSUME UnitRequests PROVE Spec => []OnlyAvailableMemory
  OBVIOUS
<1>1. Types /\ SafeInv => OnlyAvailableMemory
  <2> SUFFICES ASSUME Types, SafeInv, NEW b \in Blocks, owners[b] > 0, NEW byte \in Bytes(b)
               PROVE  \E e \in AvailableEntries :
                          \/ byte \in e.addr .. e.addr + e.len - 1
                          \/ e.addr \div BLOCK_SIZE = b /\ byte < e.addr
    BY DEF OnlyAvailableMemory
  <2>1. b \in UsableBlocks
    BY DEF SafeInv, OwnersInv
  <2>2. PICK k \in DOMAIN mbinfo :
            mbinfo[k].available /\ b \in Region(mbinfo[k].addr, mbinfo[k].len)
    BY <2>1 DEF UsableBlocks
  <2>3. mbinfo[k].addr \in Nat /\ mbinfo[k].len \in Nat
    <3>1. mbinfo \in Seq([addr : Nat, len : Nat, available : BOOLEAN])
      BY MachinesAssumption DEF Types
    <3>2. k \in 1 .. Len(mbinfo)
      BY <3>1
    <3>3. mbinfo[k] \in [addr : Nat, len : Nat, available : BOOLEAN]
      BY <3>1, <3>2, ElementOfSeq
    <3> QED BY <3>3
  <2>4. mbinfo[k] \in AvailableEntries
    BY <2>2 DEF AvailableEntries
  <2> QED BY <2>2, <2>3, <2>4, RegionBytes
<1> QED BY <1>1, SafeAlways, PTL
=============================================================================
