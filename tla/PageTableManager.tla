--------------------------- MODULE PageTableManager ---------------------------
(***************************************************************************)
(* The page tables and the code that fills them:                           *)
(*   kernel/src/paging/PageTableManager.cpp, PageMapIndexer.cpp and        *)
(*   paging.cpp; PrepareMemory of kernel/src/kernelUtil.cpp; the callers   *)
(*   of MapMemory in memory/heap.cpp, pci.cpp and AHCI/ahci.cpp.           *)
(*                                                                         *)
(* A virtual address is its page number, a physical one its frame number.  *)
(* The frames come from a pool that answers as PageFrameAllocator does:    *)
(* the lowest clear frame, the phantom ones after the memory (which stand  *)
(* for no memory) last, then NULL.  The model stops with the step that     *)
(* takes a phantom frame or NULL: what the kernel then writes to is not    *)
(* memory, or is its own first frame.                                      *)
(***************************************************************************)
EXTENDS Integers, FiniteSets, FiniteSetsExt

CONSTANTS Fanout,           \* entries of a table (512)
          MemoryFrames,     \* GetMemorySize() / 4096
          Pools,            \* sets of frames the allocator may start with
          Framebuffers,     \* sets of frames the framebuffer may occupy
          Devices,          \* frames of device memory mapped one by one
          HeapBase,         \* first page of the heap
          Garbage           \* contents a table's frame may have before memset

NULL == 0
Indices == 0 .. Fanout - 1
Pages == 0 .. Fanout * Fanout * Fanout * Fanout - 1
Absent == [present |-> FALSE, address |-> NULL]
Entry(f) == [present |-> TRUE, address |-> f]

Entries == [present : BOOLEAN, address : Nat]

\* The heap is mapped far above the memory and the devices.
ASSUME SizesAssumption ==
    /\ Fanout \in Nat \ {0} /\ MemoryFrames \in Nat /\ HeapBase \in Nat
    /\ 0 .. MemoryFrames - 1 \subseteq Pages /\ MemoryFrames <= HeapBase
ASSUME PoolsAssumption == \A pool \in Pools : pool \subseteq Nat \ {NULL}
ASSUME FramebuffersAssumption ==
    \A frames \in Framebuffers : \E first, last \in Pages :
        first <= last /\ last < HeapBase /\ frames = first .. last
ASSUME DevicesAssumption == \A f \in Devices : f \in Pages /\ f < HeapBase
ASSUME GarbageAssumption == Garbage \subseteq [Indices -> Entries]

VARIABLES
    memory,         \* the frames, read as page tables
    available,      \* frames the allocator has left
    pml4,           \* frame of the top table
    phase,          \* of PrepareMemory, then "running"
    framebuffer,    \* frames of the framebuffer
    t,              \* loop variable of PrepareMemory
    heapEnd,        \* page after the heap
    mapped,         \* history: page -> frame MapMemory was last asked for
    taken,          \* history: frames requested for the heap or for a device
    locked,         \* history: frames the framebuffer took from the pool
    exhausted       \* history: a request got a phantom frame or NULL

boot == <<phase, framebuffer, t, locked>>
vars == <<memory, available, pml4, boot, heapEnd, mapped, taken, exhausted>>

-----------------------------------------------------------------------------
(* RequestPage of the allocator, and MapMemory.                            *)

RequestPage(pool) == IF pool = {} THEN NULL ELSE Min(pool)

\* PageMapIndexer: the index into the table of a level, 3 for the PML4.
Index(page, level) ==
    CASE level = 3 -> page \div (Fanout * Fanout * Fanout)
      [] level = 2 -> (page \div (Fanout * Fanout)) % Fanout
      [] level = 1 -> (page \div Fanout) % Fanout
      [] level = 0 -> page % Fanout

Zeroed == [i \in Indices |-> Absent]

\* Mutant: the new table is not cleared.
DescendUncleared(s, page, level) ==
    LET i == Index(page, level)
        entry == s.memory[s.table][i]
        f == RequestPage(s.available)
    IN  IF entry.present
        THEN [s EXCEPT !.table = entry.address]
        ELSE [memory    |-> [s.memory EXCEPT ![s.table][i] = Entry(f)],
              available |-> s.available \ {f},
              table     |-> f]

\* Mutant: a table is made anew whether there is one or not.
DescendAlwaysNew(s, page, level) ==
    LET f == RequestPage(s.available) IN
    [memory    |-> [s.memory EXCEPT ![f] = Zeroed,
                                    ![s.table][Index(page, level)] = Entry(f)],
     available |-> s.available \ {f},
     table     |-> f]

\* From the table of one level to that of the next, made when it is missing.
\* The answer of RequestPage is not looked at before memset.
Descend(s, page, level) ==
    LET i == Index(page, level)
        entry == s.memory[s.table][i]
        f == RequestPage(s.available)
    IN  IF entry.present
        THEN [s EXCEPT !.table = entry.address]
        ELSE [memory    |-> [s.memory EXCEPT ![f] = Zeroed,
                                             ![s.table][i] = Entry(f)],
              available |-> s.available \ {f},
              table     |-> f]

MapMemory(pool, page, frame) ==
    LET top   == [memory |-> memory, available |-> pool, table |-> pml4]
        PDP   == Descend(top, page, 3)
        PD    == Descend(PDP, page, 2)
        PT    == Descend(PD, page, 1)
    IN  [memory    |-> [PT.memory EXCEPT ![PT.table][Index(page, 0)] = Entry(frame)],
         available |-> PT.available,
         tables    |-> {PDP.table, PD.table, PT.table}]

\* A table was put in a frame that stands for no memory, or in the first one.
Misplaced(tables) == ~(tables \subseteq 1 .. MemoryFrames - 1)

\* One call of MapMemory, with the frames of a pool.
Map(pool, page, frame) ==
    LET result == MapMemory(pool, page, frame) IN
    /\ ~exhausted
    /\ memory' = result.memory
    /\ available' = result.available
    /\ mapped' = [p \in DOMAIN mapped \cup {page} |->
                    IF p = page THEN frame ELSE mapped[p]]
    /\ exhausted' = Misplaced(result.tables)

-----------------------------------------------------------------------------
(* PrepareMemory.                                                          *)

AllFrames == 0 .. MemoryFrames - 1 \cup {NULL} \cup UNION Pools

Init ==
    /\ memory \in [AllFrames -> Garbage]
    /\ available \in Pools
    /\ pml4 = NULL
    /\ phase = "start"
    /\ framebuffer \in Framebuffers
    /\ t = 0
    /\ heapEnd = HeapBase
    /\ mapped = [p \in {} |-> NULL]
    /\ taken = {} /\ locked = {}
    /\ exhausted = FALSE

CreatePML4 ==
    /\ phase = "start"
    /\ pml4' = RequestPage(available)
    /\ memory' = [memory EXCEPT ![pml4'] = Zeroed]
    /\ available' = available \ {pml4'}
    /\ phase' = "identity"
    /\ exhausted' = Misplaced({pml4'})
    /\ UNCHANGED <<framebuffer, t, locked, heapEnd, mapped, taken>>

\* Mutant: the loop runs one frame too far.
MapIdentityTooFar ==
    /\ phase = "identity" /\ t <= MemoryFrames
    /\ Map(available, t, t)
    /\ t' = t + 1
    /\ UNCHANGED <<pml4, phase, framebuffer, locked, heapEnd, taken>>

MapIdentity ==
    /\ phase = "identity" /\ t < MemoryFrames
    /\ Map(available, t, t)
    /\ t' = t + 1
    /\ UNCHANGED <<pml4, phase, framebuffer, locked, heapEnd, taken>>

\* Mutant: the last frame is left out of the identity map.
LockFramebufferEarly ==
    /\ phase = "identity" /\ t = MemoryFrames - 1
    /\ \E spare \in 0 .. 1 :
        LET frames == framebuffer \cup {Max(framebuffer) + spare} IN
        /\ available' = available \ frames
        /\ locked' = available \cap frames
    /\ t' = Min(framebuffer)
    /\ phase' = "framebuffer"
    /\ UNCHANGED <<memory, pml4, framebuffer, heapEnd, mapped, taken, exhausted>>

\* One frame more than MapFramebuffer maps is locked when the size of the
\* framebuffer is a multiple of a page.
LockFramebuffer ==
    /\ phase = "identity" /\ t = MemoryFrames
    /\ \E spare \in 0 .. 1 :
        LET frames == framebuffer \cup {Max(framebuffer) + spare} IN
        /\ available' = available \ frames
        /\ locked' = available \cap frames
    /\ t' = Min(framebuffer)
    /\ phase' = "framebuffer"
    /\ UNCHANGED <<memory, pml4, framebuffer, heapEnd, mapped, taken, exhausted>>

MapFramebuffer ==
    /\ phase = "framebuffer" /\ t \in framebuffer
    /\ Map(available, t, t)
    /\ t' = t + 1
    /\ UNCHANGED <<pml4, phase, framebuffer, locked, heapEnd, taken>>

LoadCR3 ==
    /\ phase = "framebuffer" /\ t \notin framebuffer
    /\ phase' = "running"
    /\ UNCHANGED <<memory, available, pml4, framebuffer, t, locked, heapEnd,
                   mapped, taken, exhausted>>

-----------------------------------------------------------------------------
(* The callers once the tables are loaded.                                 *)

\* Mutant: the page's frame is still in the pool while tables are made.
GrowHeapSharing ==
    /\ phase = "running" /\ heapEnd \in Pages
    /\ LET frame == RequestPage(available) IN
       /\ frame # NULL /\ frame < MemoryFrames
       /\ Map(available, heapEnd, frame)
       /\ taken' = taken \cup {frame}
    /\ heapEnd' = heapEnd + 1
    /\ UNCHANGED <<pml4, boot>>

\* One turn of the loops of InitializeHeap and ExpandHeap.  The argument
\* RequestPage() is evaluated before MapMemory asks for tables.
GrowHeap ==
    /\ phase = "running" /\ heapEnd \in Pages
    /\ LET frame == RequestPage(available) IN
       /\ frame # NULL /\ frame < MemoryFrames
       /\ Map(available \ {frame}, heapEnd, frame)
       /\ taken' = taken \cup {frame}
    /\ heapEnd' = heapEnd + 1
    /\ UNCHANGED <<pml4, boot>>

\* EnumerateBus, EnumerateDevice, EnumerateFunction and the AHCI driver map
\* the frames of the device they look at, some of them again and again.
MapDevice(f) ==
    /\ phase = "running"
    /\ Map(available, f, f)
    /\ UNCHANGED <<pml4, boot, heapEnd, taken>>

\* PrepareInterrupts and configure keep a frame for the IDT or for DMA.
TakeFrame ==
    /\ phase = "running" /\ ~exhausted
    /\ LET frame == RequestPage(available) IN
       /\ frame # NULL /\ frame < MemoryFrames
       /\ available' = available \ {frame}
       /\ taken' = taken \cup {frame}
    /\ UNCHANGED <<memory, pml4, boot, heapEnd, mapped, exhausted>>

Next ==
    \/ CreatePML4 \/ MapIdentity \/ LockFramebuffer \/ MapFramebuffer \/ LoadCR3
    \/ GrowHeap \/ TakeFrame
    \/ \E f \in Devices : MapDevice(f)

Spec == Init /\ [][Next]_vars

-----------------------------------------------------------------------------
(* Properties.                                                             *)

Live == ~exhausted /\ phase # "start"

\* The frame the processor reads for a page, NULL when an entry is absent.
Walk(table, page, level) ==
    IF memory[table][Index(page, level)].present
    THEN memory[table][Index(page, level)].address ELSE NULL

\* The entries followed from the top for a page: a table per level.
TableAt(page, level) ==
    LET l3 == pml4
        l2 == IF l3 = NULL THEN NULL ELSE Walk(l3, page, 3)
        l1 == IF l2 = NULL THEN NULL ELSE Walk(l2, page, 2)
        l0 == IF l1 = NULL THEN NULL ELSE Walk(l1, page, 1)
    IN  CASE level = 3 -> l3 [] level = 2 -> l2 [] level = 1 -> l1 [] level = 0 -> l0

Present(page) ==
    LET pt == TableAt(page, 0) IN
    IF pt = NULL THEN FALSE ELSE memory[pt][Index(page, 0)].present

Translate(page) == memory[TableAt(page, 0)][Index(page, 0)].address

Tables == {TableAt(p, l) : p \in Pages, l \in 0 .. 3} \ {NULL}

TypeOK ==
    /\ DOMAIN memory = AllFrames
    /\ available \subseteq AllFrames
    /\ pml4 \in AllFrames /\ heapEnd \in Nat
    /\ t \in 0 .. MemoryFrames \cup framebuffer \cup {Max(framebuffer) + 1}
    /\ phase \in {"start", "identity", "framebuffer", "running"}
    /\ DOMAIN mapped \subseteq Pages
    /\ taken \subseteq AllFrames /\ exhausted \in BOOLEAN

\* A walk of the tables gives, for every page, the frame it was last mapped to,
\* and stops at an absent entry for every other page: no call of MapMemory
\* disturbs a page it was not asked for.
TranslationExact ==
    Live => \A p \in Pages :
               /\ Present(p) <=> p \in DOMAIN mapped
               /\ p \in DOMAIN mapped => Translate(p) = mapped[p]

\* Every frame that left the pool is a table, or was requested by one caller,
\* or was locked; there is one table per used prefix of an address; no table
\* is reached along two paths.
FramesAccounted ==
    Live => LET prefixes(n) == {p \div n : p \in DOMAIN mapped} IN
        /\ Cardinality(Tables) =
             1 + Cardinality(prefixes(Fanout))
               + Cardinality(prefixes(Fanout * Fanout))
               + Cardinality(prefixes(Fanout * Fanout * Fanout))
        /\ Tables \cap (available \cup taken \cup locked) = {}
        /\ available \cap (taken \cup locked) = {}
        /\ \E pool \in Pools : pool = available \cup taken \cup locked \cup Tables

\* Once CR3 is loaded, the kernel writes the tables through their physical
\* addresses: each of them is mapped to itself.
TablesReachable ==
    Live /\ phase = "running" =>
        \A f \in Tables : Present(f) /\ Translate(f) = f

\* Two pages of the heap never share a frame, nor does one share a frame with
\* a table.
HeapPagesPrivate ==
    Live => LET pages == HeapBase .. heapEnd - 1 IN
        /\ \A p \in pages : Translate(p) \notin Tables
        /\ \A p, q \in pages : Translate(p) = Translate(q) => p = q
=============================================================================
