-------------------------- MODULE PageFrameAllocator --------------------------
(***************************************************************************)
(* The physical page frame allocator:                                      *)
(*   kernel/src/paging/PageFrameAllocator.cpp, kernel/src/Bitmap.cpp and   *)
(*   GetMemorySize of kernel/src/memory.cpp.                               *)
(*                                                                         *)
(* Addresses are frame numbers (address / 4096) and the byte counters are  *)
(* counted in frames.  The loops of ReadEFIMemoryMap advance one           *)
(* descriptor or one frame per step; nothing else runs during boot, so the *)
(* grain changes nothing, and every step is then an update of one bit.     *)
(***************************************************************************)
EXTENDS Integers, Sequences, FiniteSets

CONSTANTS MemoryMaps,   \* the EFI memory maps the firmware may hand over
          LowFrames,    \* frames always kept from callers (0x100)
          FrameBytes,   \* bytes of bitmap one frame holds (4096)
          LockTargets,  \* frames PrepareMemory locks (kernel, framebuffer)
          IntFrames,    \* 2^31 / 4096 (2 GiB): an int of bytes wraps there
          WordFrames    \* 2^64 / 4096: the counters wrap there

EfiConventionalMemory == 7

Descriptor == [type : Nat, physAddr : Nat, numPages : Nat]

ASSUME MapAssumption == MemoryMaps \subseteq Seq(Descriptor)
ASSUME IntAssumption == IntFrames \in Nat \ {0}
ASSUME LowAssumption == LowFrames \in 1 .. IntFrames
ASSUME SizeAssumption == FrameBytes \in Nat \ {0}
ASSUME LockAssumption == LockTargets \subseteq Nat
ASSUME WordAssumption == WordFrames \in Nat \ {0}

VARIABLES
    phase,              \* where ReadEFIMemoryMap is, then "ready"
    mMap,               \* the memory map
    i,                  \* descriptor index of the current loop
    t,                  \* frame index of the current ReservePages/... loop
    largest,            \* index of the largest conventional segment, 0: none
    memorySize,         \* frames described by the whole map
    size,               \* PageBitmap.Size, in bytes
    bits,               \* indices whose bit is set, the bit after the end too
    freeMemory, reservedMemory, usedMemory,
    pageBitmapIndex,    \* where the next search starts
    owned,              \* history: frames handed out and not given back
    withdrawn,          \* history: clear frames that LockPage took
    ret                 \* what the last RequestPage returned

boot     == <<mMap, i, t, largest, memorySize, size>>
counters == <<freeMemory, reservedMemory, usedMemory>>
clients  == <<owned, withdrawn, ret>>
vars     == <<phase, boot, bits, counters, pageBitmapIndex, clients>>

Phases == {"scan", "measure", "reserveAll", "unreserve", "reserveLow",
           "lockBitmap", "ready"}

NULL == 0

-----------------------------------------------------------------------------
(* Bitmap.cpp.  Both guards are index > Size * 8, so index Size * 8 passes *)
(* and reaches the top bit of the byte after the bitmap.                   *)

BitCount == 8 * size
InBitmap(f) == f \in 0 .. BitCount
Get(f) == InBitmap(f) /\ f \in bits

\* t * 4096 in the loops over several frames: t is an int, so the product is
\* too, and it wraps before it is extended to 64 bits.  An address below zero
\* is a frame far beyond every bitmap.
Offset(n) == ((n + IntFrames) % (2 * IntFrames)) - IntFrames

-----------------------------------------------------------------------------
(* The one-frame operations.  Each returns early when the bit already has  *)
(* its value, and leaves the counters alone when Set refuses the index.    *)

Unchanged == UNCHANGED <<bits, counters, pageBitmapIndex>>

ReservePage(f) ==
    \/ /\ InBitmap(f) /\ ~Get(f)
       /\ bits' = bits \cup {f}
       /\ freeMemory' = freeMemory - 1
       /\ reservedMemory' = reservedMemory + 1
       /\ UNCHANGED <<usedMemory, pageBitmapIndex>>
    \/ (Get(f) \/ ~InBitmap(f)) /\ Unchanged

UnreservePage(f) ==
    \/ /\ Get(f)
       /\ bits' = bits \ {f}
       /\ freeMemory' = freeMemory + 1
       /\ reservedMemory' = reservedMemory - 1
       /\ pageBitmapIndex' = IF pageBitmapIndex > f THEN f ELSE pageBitmapIndex
       /\ UNCHANGED usedMemory
    \/ ~Get(f) /\ Unchanged

\* Mutant: Set's guard on the index is forgotten.
LockFrameUnguarded(f) ==
    IF Get(f) THEN UNCHANGED <<bits, counters>>
    ELSE /\ bits' = bits \cup {f}
         /\ freeMemory' = freeMemory - 1
         /\ usedMemory' = usedMemory + 1
         /\ UNCHANGED reservedMemory

LockFrame(f) ==
    \/ /\ InBitmap(f) /\ ~Get(f)
       /\ bits' = bits \cup {f}
       /\ freeMemory' = freeMemory - 1
       /\ usedMemory' = usedMemory + 1
       /\ UNCHANGED reservedMemory
    \/ (Get(f) \/ ~InBitmap(f)) /\ UNCHANGED <<bits, counters>>

\* History: a clear frame that is locked is kept from the callers for good.
Withdraw(f) ==
    withdrawn' = IF InBitmap(f) /\ ~Get(f) THEN withdrawn \cup {f}
                                           ELSE withdrawn

\* Mutant: a freed frame does not pull the search hint back.
FreeFrameKeepsHint(f) ==
    IF ~Get(f) THEN Unchanged
    ELSE /\ bits' = bits \ {f}
         /\ freeMemory' = freeMemory + 1
         /\ usedMemory' = usedMemory - 1
         /\ UNCHANGED <<reservedMemory, pageBitmapIndex>>

\* Mutant: no early return for a frame that is free already.
FreeFrameTwice(f) ==
    /\ bits' = bits \ {f}
    /\ freeMemory' = freeMemory + 1
    /\ usedMemory' = usedMemory - 1
    /\ pageBitmapIndex' = IF pageBitmapIndex > f THEN f ELSE pageBitmapIndex
    /\ UNCHANGED reservedMemory

FreeFrame(f) ==
    \/ /\ Get(f)
       /\ bits' = bits \ {f}
       /\ freeMemory' = freeMemory + 1
       /\ usedMemory' = usedMemory - 1
       /\ pageBitmapIndex' = IF pageBitmapIndex > f THEN f ELSE pageBitmapIndex
       /\ UNCHANGED reservedMemory
    \/ ~Get(f) /\ Unchanged

-----------------------------------------------------------------------------
(* ReadEFIMemoryMap.                                                       *)

IsConventional(d) == mMap[d].type = EfiConventionalMemory

LargestPages == IF largest = 0 THEN 0 ELSE mMap[largest].numPages

\* Frame of PageBitmap.Buffer; it stays NULL without conventional memory.
Buffer == IF largest = 0 THEN NULL ELSE mMap[largest].physAddr

Init ==
    /\ phase = "scan"
    /\ mMap \in MemoryMaps
    /\ i = 1 /\ t = 0
    /\ largest = 0
    /\ memorySize = 0 /\ size = 0
    /\ bits = {}
    /\ freeMemory = 0 /\ reservedMemory = 0 /\ usedMemory = 0
    /\ pageBitmapIndex = 0
    /\ owned = {} /\ withdrawn = {} /\ ret = NULL

ScanDescriptor ==
    /\ phase = "scan" /\ i <= Len(mMap)
    /\ largest' = IF IsConventional(i) /\ mMap[i].numPages > LargestPages
                  THEN i ELSE largest
    /\ i' = i + 1
    /\ UNCHANGED <<phase, mMap, t, memorySize, size, bits, counters,
                   pageBitmapIndex, clients>>

EndScan ==
    /\ phase = "scan" /\ i > Len(mMap)
    /\ phase' = "measure" /\ i' = 1
    /\ UNCHANGED <<mMap, t, largest, memorySize, size, bits, counters,
                   pageBitmapIndex, clients>>

\* GetMemorySize: the sum over every descriptor, whatever its type and place.
GetMemorySize ==
    /\ phase = "measure" /\ i <= Len(mMap)
    /\ memorySize' = memorySize + mMap[i].numPages
    /\ i' = i + 1
    /\ UNCHANGED <<phase, mMap, t, largest, size, bits, counters,
                   pageBitmapIndex, clients>>

\* Size bytes are cleared; the bit after them keeps what memory held.
InitBitmap ==
    /\ phase = "measure" /\ i > Len(mMap)
    /\ phase' = "reserveAll" /\ t' = 0
    /\ freeMemory' = memorySize
    /\ size' = memorySize \div 8 + 1
    /\ bits' \in SUBSET {8 * size'}
    /\ UNCHANGED <<mMap, i, largest, memorySize, reservedMemory, usedMemory,
                   pageBitmapIndex, clients>>

\* ReservePages(0, memorySize / 4096 + 1)
ReserveAll ==
    /\ phase = "reserveAll" /\ t < memorySize + 1
    /\ ReservePage(Offset(t))
    /\ t' = t + 1
    /\ UNCHANGED <<phase, mMap, i, largest, memorySize, size, clients>>

EndReserveAll ==
    /\ phase = "reserveAll" /\ t = memorySize + 1
    /\ phase' = "unreserve" /\ i' = 1 /\ t' = 0
    /\ Unchanged
    /\ UNCHANGED <<mMap, largest, memorySize, size, clients>>

\* One frame of UnreservePages(desc->physAddr, desc->numPages).
UnreserveFrame ==
    /\ phase = "unreserve" /\ i <= Len(mMap)
    /\ IsConventional(i) /\ t < mMap[i].numPages
    /\ UnreservePage(mMap[i].physAddr + Offset(t))
    /\ t' = t + 1
    /\ UNCHANGED <<phase, mMap, i, largest, memorySize, size, clients>>

NextDescriptor ==
    /\ phase = "unreserve" /\ i <= Len(mMap)
    /\ IsConventional(i) => t = mMap[i].numPages
    /\ i' = i + 1 /\ t' = 0
    /\ Unchanged
    /\ UNCHANGED <<phase, mMap, largest, memorySize, size, clients>>

\* Mutant: the low frames are not reserved again.
EndUnreserveSkipsLow ==
    /\ phase = "unreserve" /\ i > Len(mMap)
    /\ phase' = "lockBitmap" /\ t' = 0
    /\ Unchanged
    /\ UNCHANGED <<mMap, i, largest, memorySize, size, clients>>

EndUnreserve ==
    /\ phase = "unreserve" /\ i > Len(mMap)
    /\ phase' = "reserveLow" /\ t' = 0
    /\ Unchanged
    /\ UNCHANGED <<mMap, i, largest, memorySize, size, clients>>

\* ReservePages(0, 0x100)
ReserveLow ==
    /\ phase = "reserveLow" /\ t < LowFrames
    /\ ReservePage(Offset(t))
    /\ t' = t + 1
    /\ UNCHANGED <<phase, mMap, i, largest, memorySize, size, clients>>

EndReserveLow ==
    /\ phase = "reserveLow" /\ t = LowFrames
    /\ phase' = "lockBitmap" /\ t' = 0
    /\ Unchanged
    /\ UNCHANGED <<mMap, i, largest, memorySize, size, clients>>

BitmapFrames == size \div FrameBytes + 1

\* LockPages(PageBitmap.Buffer, PageBitmap.Size / 4096 + 1)
LockBitmap ==
    /\ phase = "lockBitmap" /\ t < BitmapFrames
    /\ LockFrame(Buffer + Offset(t))
    /\ Withdraw(Buffer + Offset(t))
    /\ t' = t + 1
    /\ UNCHANGED <<phase, mMap, i, largest, memorySize, size,
                   pageBitmapIndex, owned, ret>>

EndLockBitmap ==
    /\ phase = "lockBitmap" /\ t = BitmapFrames
    /\ phase' = "ready"
    /\ Unchanged
    /\ UNCHANGED <<boot, clients>>

Boot ==
    \/ ScanDescriptor \/ EndScan \/ GetMemorySize \/ InitBitmap
    \/ ReserveAll \/ EndReserveAll
    \/ UnreserveFrame \/ NextDescriptor \/ EndUnreserve
    \/ ReserveLow \/ EndReserveLow
    \/ LockBitmap \/ EndLockBitmap

-----------------------------------------------------------------------------
(* The operations once ReadEFIMemoryMap has returned.                      *)

Clear(from) == {f \in from .. BitCount - 1 : f \notin bits}

\* The for loop of RequestPage: the first clear bit at or after the hint.
FirstClear(f) ==
    /\ f \in Clear(pageBitmapIndex)
    /\ \A g \in Clear(pageBitmapIndex) : f <= g

\* Mutant: the frame found is returned without being locked.
RequestPageUnlocked ==
    /\ phase = "ready"
    /\ \E f \in Clear(pageBitmapIndex) :
          /\ FirstClear(f)
          /\ pageBitmapIndex' = f
          /\ owned' = owned \cup {f}
          /\ ret' = f
    /\ UNCHANGED <<phase, boot, bits, counters, withdrawn>>

RequestPage ==
    /\ phase = "ready"
    /\ \E f \in Clear(pageBitmapIndex) :
          /\ FirstClear(f)
          /\ LockFrame(f)
          /\ pageBitmapIndex' = f
          /\ owned' = owned \cup {f}
          /\ ret' = f
    /\ UNCHANGED <<phase, boot, withdrawn>>

RequestPageFails ==
    /\ phase = "ready"
    /\ Clear(pageBitmapIndex) = {}
    /\ pageBitmapIndex' = IF pageBitmapIndex < BitCount
                          THEN BitCount ELSE pageBitmapIndex
    /\ ret' = NULL
    /\ UNCHANGED <<phase, boot, bits, counters, owned, withdrawn>>

\* FreePage, called by the holder of the frame, or once more on a frame that
\* is free already.  FreePage would free a reserved or a locked frame as well;
\* the kernel has no caller of it, so that no caller ever asks for that is
\* the contract the guard states.
FreePage(f) ==
    /\ phase = "ready" /\ (f \in owned \/ ~Get(f))
    /\ FreeFrame(f)
    /\ owned' = owned \ {f}
    /\ UNCHANGED <<phase, boot, withdrawn, ret>>

\* LockPage as PrepareMemory calls it on the kernel and the framebuffer.
LockPage(f) ==
    /\ phase = "ready"
    /\ LockFrame(f)
    /\ Withdraw(f)
    /\ UNCHANGED <<phase, boot, pageBitmapIndex, owned, ret>>

Next ==
    \/ Boot
    \/ RequestPage
    \/ RequestPageFails
    \/ \E f \in 0 .. BitCount : FreePage(f)
    \/ \E f \in LockTargets : LockPage(f)

Spec == Init /\ [][Next]_vars

\* GetFreeRAM returns the counter as a 64-bit word.
GetFreeRAM == freeMemory % WordFrames

-----------------------------------------------------------------------------
(* Properties.                                                             *)

TypeOK ==
    /\ phase \in Phases
    /\ mMap \in MemoryMaps
    /\ i \in 1 .. Len(mMap) + 1 /\ t \in Nat
    /\ largest \in 0 .. Len(mMap)
    /\ memorySize \in Nat /\ size \in Nat
    /\ bits \subseteq 0 .. BitCount
    /\ freeMemory \in Int /\ reservedMemory \in Int /\ usedMemory \in Int
    /\ pageBitmapIndex \in 0 .. BitCount
    /\ owned \subseteq Nat /\ withdrawn \subseteq Nat
    /\ ret \in Nat

\* RequestPage searches from pageBitmapIndex and never looks back: no frame
\* below it may be clear, whatever was unreserved, freed and locked before.
HintSound == \A f \in 0 .. BitCount - 1 : f < pageBitmapIndex => f \in bits

Conventional(f) ==
    \E d \in 1 .. Len(mMap) :
        /\ IsConventional(d)
        /\ f \in mMap[d].physAddr .. mMap[d].physAddr + mMap[d].numPages - 1

\* How many frames the bytes of the bitmap lie in.
BitmapSpan == (size - 1) \div FrameBytes + 1

\* No conventional segment is so large that Offset wraps within it.
SegmentsFit ==
    \A d \in 1 .. Len(mMap) : IsConventional(d) => mMap[d].numPages <= IntFrames

\* What ReadEFIMemoryMap does keep from the callers, up to memorySize.
Protected ==
    {f \in 0 .. memorySize :
        f < LowFrames \/ (SegmentsFit /\ f < IntFrames /\ ~Conventional(f))}
      \cup {f \in Buffer .. Buffer + BitmapSpan - 1 :
               f < BitCount /\ f < Buffer + IntFrames}

\* Once the memory map is read, the low frames and the bitmap's own frames
\* (its first 2 GiB) are set in the bitmap and stay so, and so are the frames
\* below 2 GiB that are not conventional memory when no conventional segment
\* is larger than 2 GiB; no caller holds one of them or a frame that was
\* locked.  Nothing is claimed of other frames: ReservePages never reaches
\* one at 2 GiB or above, and in a larger segment UnreservePages clears
\* frames below its base.
ProtectedKept ==
    phase = "ready" =>
        /\ Protected \cup withdrawn \subseteq bits
        /\ owned \subseteq bits
        /\ owned \cap (Protected \cup withdrawn) = {}

\* The three counters always add up to the size of the memory, the free one
\* is that size less the bits set (the bit after the bitmap may have been
\* set before boot), and the used one is what callers hold and locks took.
CountersTrackBitmap ==
    phase \notin {"scan", "measure"} =>
        /\ freeMemory + reservedMemory + usedMemory = memorySize
        /\ \E stray \in {0, 1} :
              GetFreeRAM = (memorySize + stray - Cardinality(bits)) % WordFrames
        /\ usedMemory = Cardinality(owned) + Cardinality(withdrawn)

\* The bits between memorySize and the end of the bitmap's last byte stand for
\* no memory and are never reserved.  A caller gets such a phantom frame only
\* once every frame of the real memory is taken.
PhantomsLast ==
    [][\A f \in owned' \ owned :
          f > memorySize => 0 .. memorySize \subseteq bits]_vars

\* To its callers the allocator is a pool: frames are granted to one holder
\* at a time, and NULL is the answer only when no bit is clear.
Pool == INSTANCE FramePool WITH
    Frames    <- Nat,
    NoFrame   <- NULL,
    opened    <- phase = "ready",
    available <- IF phase = "ready" THEN Clear(0) ELSE {},
    held      <- owned,
    answer    <- ret

ImplementsPool == Pool!Spec

-----------------------------------------------------------------------------
(* The inductive invariant the proofs rest on.                             *)

Sized ==
    /\ phase \in {"scan", "measure"} => size = 0 /\ bits = {}
    /\ phase \notin {"scan", "measure"} => size = memorySize \div 8 + 1

\* The first n frames are set, as far as Offset reaches.
SetBelow(n) ==
    \A f \in 0 .. memorySize : f < n /\ f < IntFrames => f \in bits

OthersSet ==
    SegmentsFit => \A f \in 0 .. memorySize :
                      f < IntFrames /\ ~Conventional(f) => f \in bits

BufferSet(n) ==
    \A f \in Buffer .. Buffer + n - 1 :
        f < BitCount /\ f < Buffer + IntFrames => f \in bits

BootProgress ==
    /\ phase = "reserveAll" => t <= memorySize + 1 /\ SetBelow(t)
    /\ phase \in {"unreserve", "reserveLow", "lockBitmap", "ready"} => OthersSet
    /\ phase = "reserveLow" => t <= LowFrames /\ SetBelow(t)
    /\ phase \in {"lockBitmap", "ready"} => SetBelow(LowFrames)
    /\ phase = "lockBitmap" => t <= BitmapFrames /\ BufferSet(t)
    /\ phase = "ready" => BufferSet(BitmapSpan)

Holders ==
    /\ phase # "ready" => owned = {}
    /\ phase \notin {"lockBitmap", "ready"} => withdrawn = {}
    /\ owned \cup withdrawn \subseteq bits
    /\ \A f \in owned : f < BitCount
    /\ owned \cap (Protected \cup withdrawn) = {}

Counted ==
    /\ phase \in {"scan", "measure"} => reservedMemory = 0 /\ usedMemory = 0
    /\ phase \notin {"scan", "measure"} =>
        /\ freeMemory + reservedMemory + usedMemory = memorySize
        /\ (freeMemory + Cardinality(bits)) - memorySize \in {0, 1}
        /\ usedMemory = Cardinality(owned) + Cardinality(withdrawn)

IInv == TypeOK /\ Sized /\ HintSound /\ BootProgress /\ Holders
=============================================================================
