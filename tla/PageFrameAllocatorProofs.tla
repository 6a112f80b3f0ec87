----------------------- MODULE PageFrameAllocatorProofs -----------------------
(***************************************************************************)
(* Theorems about the page frame allocator, for every memory map and every *)
(* value of the constants.                                                 *)
(***************************************************************************)
EXTENDS PageFrameAllocator, FiniteSetTheorems, SequenceTheorems,
        TLAPS

USE DEF EfiConventionalMemory, NULL

\* A memory map is a sequence of descriptors.
LEMMA MapType ==
    ASSUME TypeOK
    PROVE  /\ Len(mMap) \in Nat
           /\ \A d \in 1 .. Len(mMap) :
                 mMap[d].physAddr \in Nat /\ mMap[d].numPages \in Nat
<1>1. mMap \in Seq(Descriptor)
  BY MapAssumption DEF TypeOK
<1>2. \A d \in 1 .. Len(mMap) : mMap[d] \in Descriptor
  BY <1>1, ElementOfSeq
<1> QED
  BY <1>1, <1>2 DEF Descriptor

\* The bitmap's first frame and its length in frames are natural numbers.
LEMMA BufferType ==
    ASSUME TypeOK
    PROVE  Buffer \in Nat /\ BitmapFrames \in Nat /\ BitmapFrames > 0
  BY MapType, SizeAssumption DEF TypeOK, Buffer, BitmapFrames

\* The int product is a number of frames, and below 2 GiB the right one.
LEMMA OffsetValue ==
    ASSUME NEW n \in Nat
    PROVE  Offset(n) \in Int /\ (n < IntFrames => Offset(n) = n)
<1>1. IntFrames \in Nat /\ IntFrames > 0
  BY IntAssumption
<1> DEFINE a == n + IntFrames
           b == 2 * IntFrames
<1>2. a \in Nat /\ b \in Nat /\ b > 0
  BY <1>1
<1>3. a % b \in Nat
  BY <1>2
<1>4. ASSUME n < IntFrames PROVE a % b = a
  <2>1. a < b
    BY <1>1, <1>4
  <2> HIDE DEF a, b
  <2> QED
    BY <1>2, <2>1
<1> QED
  BY <1>1, <1>3, <1>4 DEF Offset

\* What a loop names is a frame number, though it may be below zero.
LEMMA LoopFrames ==
    ASSUME TypeOK
    PROVE  /\ Offset(t) \in Int /\ Buffer + Offset(t) \in Int
           /\ i <= Len(mMap) => mMap[i].physAddr + Offset(t) \in Int
<1>1. t \in Nat /\ Offset(t) \in Int
  BY OffsetValue DEF TypeOK
<1>2. i <= Len(mMap) => mMap[i].physAddr \in Nat
  BY MapType DEF TypeOK
<1> QED
  BY <1>1, <1>2, BufferType

-----------------------------------------------------------------------------
(* Type correctness.                                                       *)

\* What the four one-frame operations do to the bitmap and the counters.
LEMMA FrameOpTypes ==
    ASSUME TypeOK, NEW f \in Int,
           \/ ReservePage(f)
           \/ UnreservePage(f)
           \/ LockFrame(f) /\ pageBitmapIndex' = pageBitmapIndex
           \/ LockFrame(f) /\ pageBitmapIndex' = f /\ f \in 0 .. BitCount
           \/ FreeFrame(f)
           \/ Unchanged
    PROVE  /\ bits' \subseteq 0 .. BitCount
           /\ freeMemory' \in Int /\ reservedMemory' \in Int
           /\ usedMemory' \in Int
           /\ pageBitmapIndex' \in 0 .. BitCount
<1>1. BitCount \in Nat /\ bits \subseteq 0 .. BitCount
  BY DEF BitCount, TypeOK
<1>2. bits' \subseteq bits \/ (bits' = bits \cup {f} /\ InBitmap(f))
  BY DEF InBitmap, Get, ReservePage, UnreservePage, LockFrame, FreeFrame,
         Unchanged
<1>3. bits' \subseteq 0 .. BitCount
  <2>1. CASE bits' \subseteq bits
    BY <1>1, <2>1
  <2>2. CASE bits' = bits \cup {f} /\ InBitmap(f)
    BY <1>1, <2>2 DEF InBitmap
  <2> QED
    BY <1>2, <2>1, <2>2
<1>4. freeMemory' \in Int /\ reservedMemory' \in Int /\ usedMemory' \in Int
  BY DEF TypeOK, ReservePage, UnreservePage, LockFrame, FreeFrame, Unchanged,
         counters
<1>5. pageBitmapIndex' \in 0 .. BitCount
  BY <1>1 DEF TypeOK, InBitmap, Get, ReservePage, UnreservePage, LockFrame,
              FreeFrame, Unchanged
<1> QED
  BY <1>3, <1>4, <1>5

\* The frames withdrawn stay frame numbers.
LEMMA WithdrawType ==
    ASSUME NEW f \in Int, withdrawn \subseteq Nat, Withdraw(f)
    PROVE  withdrawn' \subseteq Nat
  BY DEF Withdraw, InBitmap

\* Every step keeps every variable in its type, and the bitmap its size.
LEMMA TypeStep ==
    ASSUME TypeOK, Sized, [Next]_vars
    PROVE  TypeOK' /\ Sized'
<1> USE DEF Phases
<1>0. CASE UNCHANGED vars
  BY <1>0 DEF TypeOK, Sized, vars, boot, counters, clients, BitCount
<1>1. CASE ScanDescriptor
  BY <1>1, MapType DEF ScanDescriptor, TypeOK, Sized, BitCount, counters, clients
<1>2. CASE EndScan
  BY <1>2, MapType DEF EndScan, TypeOK, Sized, BitCount, counters, clients
<1>3. CASE GetMemorySize
  BY <1>3, MapType DEF GetMemorySize, TypeOK, Sized, BitCount, counters, clients
<1>4. CASE InitBitmap
  <2>1. size' \in Nat /\ size' >= 1
    BY <1>4 DEF InitBitmap, TypeOK
  <2>2. pageBitmapIndex' = 0
    BY <1>4 DEF InitBitmap, TypeOK, Sized, BitCount
  <2> QED
    BY <1>4, <2>1, <2>2
    DEF InitBitmap, TypeOK, Sized, BitCount, counters, clients
<1>5. CASE ReserveAll
  <2>1. Offset(t) \in Int
    BY LoopFrames
  <2>2. ReservePage(Offset(t)) /\ t' \in Nat /\ size' = size
    BY <1>5 DEF ReserveAll, TypeOK
  <2>3. /\ bits' \subseteq 0 .. BitCount /\ pageBitmapIndex' \in 0 .. BitCount
        /\ freeMemory' \in Int /\ reservedMemory' \in Int /\ usedMemory' \in Int
    BY <2>1, <2>2, FrameOpTypes
  <2> QED
    BY <1>5, <2>2, <2>3 DEF ReserveAll, TypeOK, Sized, BitCount, clients
<1>6. CASE EndReserveAll
  BY <1>6, MapType DEF EndReserveAll, Unchanged, TypeOK, Sized, BitCount,
                       counters, clients
<1>7. CASE UnreserveFrame
  <2>1. mMap[i].physAddr + Offset(t) \in Int
    BY <1>7, LoopFrames DEF UnreserveFrame
  <2> QED
    BY <1>7, <2>1, FrameOpTypes DEF UnreserveFrame, TypeOK, Sized, BitCount, clients
<1>8. CASE NextDescriptor
  BY <1>8, MapType DEF NextDescriptor, Unchanged, TypeOK, Sized, BitCount,
                       counters, clients
<1>9. CASE EndUnreserve
  BY <1>9 DEF EndUnreserve, Unchanged, TypeOK, Sized, BitCount, counters, clients
<1>10. CASE ReserveLow
  <2>1. Offset(t) \in Int
    BY LoopFrames
  <2>2. ReservePage(Offset(t)) /\ t' \in Nat /\ size' = size
    BY <1>10 DEF ReserveLow, TypeOK
  <2>3. /\ bits' \subseteq 0 .. BitCount /\ pageBitmapIndex' \in 0 .. BitCount
        /\ freeMemory' \in Int /\ reservedMemory' \in Int /\ usedMemory' \in Int
    BY <2>1, <2>2, FrameOpTypes
  <2> QED
    BY <1>10, <2>2, <2>3 DEF ReserveLow, TypeOK, Sized, BitCount, clients
<1>11. CASE EndReserveLow
  BY <1>11 DEF EndReserveLow, Unchanged, TypeOK, Sized, BitCount, counters, clients
<1>12. CASE LockBitmap
  <2>1. Buffer + Offset(t) \in Int
    BY LoopFrames
  <2> QED
    BY <1>12, <2>1, FrameOpTypes, WithdrawType
    DEF LockBitmap, TypeOK, Sized, BitCount, clients
<1>13. CASE EndLockBitmap
  BY <1>13 DEF EndLockBitmap, Unchanged, TypeOK, Sized, BitCount, boot, counters,
               clients
<1>14. CASE RequestPage
  <2>1. PICK f \in Clear(pageBitmapIndex) :
            LockFrame(f) /\ pageBitmapIndex' = f
              /\ owned' = owned \cup {f} /\ ret' = f
    BY <1>14 DEF RequestPage
  <2>2. f \in 0 .. BitCount
    BY <2>1 DEF Clear, TypeOK, BitCount
  <2> QED
    BY <1>14, <2>1, <2>2, FrameOpTypes
    DEF RequestPage, TypeOK, Sized, BitCount, boot
<1>15. CASE RequestPageFails
  BY <1>15 DEF RequestPageFails, TypeOK, Sized, BitCount, boot, counters
<1>16. ASSUME NEW f \in 0 .. BitCount, FreePage(f)
       PROVE  TypeOK' /\ Sized'
  BY <1>16, FrameOpTypes DEF FreePage, TypeOK, Sized, BitCount, boot
<1>17. ASSUME NEW f \in LockTargets, LockPage(f)
       PROVE  TypeOK' /\ Sized'
  BY <1>17, FrameOpTypes, WithdrawType, LockAssumption
  DEF LockPage, TypeOK, Sized, BitCount, boot
<1> QED
  BY <1>0, <1>1, <1>2, <1>3, <1>4, <1>5, <1>6, <1>7, <1>8, <1>9, <1>10, <1>11,
     <1>12, <1>13, <1>14, <1>15, <1>16, <1>17 DEF Next, Boot

\* Every variable keeps its type: no bit beyond the one after the bitmap is
\* ever written, and the search hint stays within the bitmap.
THEOREM TypeCorrect == Spec => [](TypeOK /\ Sized)
<1>1. Init => TypeOK /\ Sized
  BY MapAssumption DEF Init, TypeOK, Sized, Phases, BitCount
<1>2. TypeOK /\ Sized /\ [Next]_vars => TypeOK' /\ Sized'
  BY TypeStep
<1> QED
  BY <1>1, <1>2, PTL DEF Spec

-----------------------------------------------------------------------------
(* The search hint.                                                        *)

\* ReservePage and LockPage set at most the bit they name, and do set it
\* when it lies in the bitmap.
LEMMA SetOp ==
    ASSUME NEW f \in Int, ReservePage(f) \/ LockFrame(f)
    PROVE  /\ bits \subseteq bits' /\ bits' \subseteq bits \cup {f}
           /\ InBitmap(f) => f \in bits'
  BY DEF ReservePage, LockFrame, Unchanged, Get

\* UnreservePage and FreePage clear the bit they name, and no search starts
\* after a bit they cleared.
LEMMA ClearOp ==
    ASSUME TypeOK, NEW f \in Int, UnreservePage(f) \/ FreeFrame(f)
    PROVE  /\ bits' = bits \ {f}
           /\ pageBitmapIndex' <= pageBitmapIndex
           /\ f \in bits => pageBitmapIndex' <= f
<1>1. pageBitmapIndex \in Nat /\ BitCount \in Nat /\ \A g \in bits : InBitmap(g)
  BY DEF TypeOK, BitCount, InBitmap
<1> QED
  BY <1>1 DEF UnreservePage, FreeFrame, Unchanged, Get

\* No step leaves a clear bit below the search hint.
LEMMA HintStep ==
    ASSUME TypeOK, Sized, HintSound, [Next]_vars
    PROVE  HintSound'
<1> DEFINE Same == UNCHANGED <<size, pageBitmapIndex>> /\ bits \subseteq bits'
<1>a. BitCount \in Nat /\ pageBitmapIndex \in 0 .. BitCount
  BY DEF TypeOK, BitCount
<1>b. ASSUME Same PROVE HintSound'
  BY <1>b DEF HintSound, BitCount
<1>c. ASSUME NEW f \in Int, UnreservePage(f) \/ FreeFrame(f), UNCHANGED size
      PROVE  HintSound'
  <2>1. BitCount' = BitCount
    BY <1>c DEF BitCount
  <2>2. SUFFICES ASSUME NEW g \in 0 .. BitCount - 1, g < pageBitmapIndex'
                 PROVE  g \in bits'
    BY <2>1 DEF HintSound
  <2>3. /\ bits' = bits \ {f}
        /\ pageBitmapIndex' <= pageBitmapIndex
        /\ f \in bits => pageBitmapIndex' <= f
    BY <1>c, ClearOp
  <2>4. pageBitmapIndex' \in Nat
    BY <1>a, <1>c, FrameOpTypes DEF TypeOK, BitCount
  <2>5. g < pageBitmapIndex
    BY <1>a, <2>2, <2>3, <2>4
  <2>6. g \in bits /\ g # f
    BY <2>2, <2>3, <2>4, <2>5 DEF HintSound
  <2> QED
    BY <2>3, <2>6
<1>0. CASE UNCHANGED vars
  BY <1>0, <1>b DEF vars, boot
<1>1. CASE ScanDescriptor \/ EndScan \/ GetMemorySize
  BY <1>1, <1>b DEF ScanDescriptor, EndScan, GetMemorySize
<1>2. CASE InitBitmap
  <2>1. pageBitmapIndex' = 0 /\ size' \in Nat
    BY <1>2 DEF InitBitmap, TypeOK, Sized, BitCount
  <2> QED
    BY <2>1 DEF HintSound, BitCount
<1>3. CASE ReserveAll \/ ReserveLow
  <2>1. Same
    BY <1>3, LoopFrames, SetOp DEF ReserveAll, ReserveLow, ReservePage, Unchanged, TypeOK
  <2> QED
    BY <2>1, <1>b
<1>4. CASE EndReserveAll \/ NextDescriptor \/ EndUnreserve \/ EndReserveLow
             \/ EndLockBitmap
  BY <1>4, <1>b DEF EndReserveAll, NextDescriptor, EndUnreserve, EndReserveLow,
                    EndLockBitmap, Unchanged, boot
<1>5. CASE UnreserveFrame
  <2>1. mMap[i].physAddr + Offset(t) \in Int
    BY <1>5, LoopFrames DEF UnreserveFrame
  <2> QED
    BY <1>5, <1>c, <2>1 DEF UnreserveFrame
<1>6. CASE LockBitmap
  <2>1. Buffer + Offset(t) \in Int
    BY LoopFrames
  <2> QED
    BY <1>6, <1>b, <2>1, SetOp DEF LockBitmap
<1>7. CASE RequestPage
  <2>1. PICK f \in Clear(pageBitmapIndex) :
            FirstClear(f) /\ LockFrame(f) /\ pageBitmapIndex' = f
    BY <1>7 DEF RequestPage
  <2>2. f \in Nat /\ BitCount' = BitCount
    BY <1>7, <2>1 DEF Clear, TypeOK, BitCount, RequestPage, boot
  <2>3. SUFFICES ASSUME NEW g \in 0 .. BitCount - 1, g < f PROVE g \in bits
    BY <2>1, <2>2, SetOp DEF HintSound
  <2>4. CASE g < pageBitmapIndex
    BY <2>4 DEF HintSound
  <2>5. CASE g >= pageBitmapIndex
    BY <1>a, <2>1, <2>2, <2>3, <2>5 DEF FirstClear, Clear
  <2> QED
    BY <1>a, <2>4, <2>5
<1>8. CASE RequestPageFails
  <2>1. SUFFICES ASSUME NEW g \in 0 .. BitCount - 1 PROVE g \in bits
    BY <1>8 DEF RequestPageFails, HintSound, boot, BitCount
  <2>2. CASE g < pageBitmapIndex
    BY <2>2 DEF HintSound
  <2>3. CASE g >= pageBitmapIndex
    BY <1>a, <1>8, <2>3 DEF RequestPageFails, Clear
  <2> QED
    BY <1>a, <2>2, <2>3
<1>9. ASSUME NEW f \in 0 .. BitCount, FreePage(f) PROVE HintSound'
  BY <1>9, <1>a, <1>c DEF FreePage, boot
<1>10. ASSUME NEW f \in LockTargets, LockPage(f) PROVE HintSound'
  BY <1>10, <1>b, SetOp, LockAssumption DEF LockPage, boot
<1> QED
  BY <1>0, <1>1, <1>2, <1>3, <1>4, <1>5, <1>6, <1>7, <1>8, <1>9, <1>10
  DEF Next, Boot

\* RequestPage never overlooks a frame: below the index it searches from,
\* every bit is set, after any sequence of requests, frees and locks.
THEOREM HintIsSound == Spec => []HintSound
<1>1. Init => HintSound
  BY DEF Init, HintSound
<1>2. TypeOK /\ Sized /\ HintSound /\ [Next]_vars => HintSound'
  BY HintStep
<1> QED
  BY <1>1, <1>2, TypeCorrect, PTL DEF Spec

-----------------------------------------------------------------------------
(* What ReadEFIMemoryMap keeps from the callers.                           *)

\* Frame memorySize, the last one ReservePages reaches, is in the bitmap.
LEMMA MemoryFits ==
    ASSUME TypeOK, Sized, phase \notin {"scan", "measure"}
    PROVE  memorySize < BitCount
<1>1. memorySize \in Nat /\ size = memorySize \div 8 + 1
  BY DEF TypeOK, Sized
<1> QED
  BY <1>1 DEF BitCount

\* The frames locked for the bitmap cover its bytes.
LEMMA SpanLocked ==
    ASSUME TypeOK, Sized, phase \notin {"scan", "measure"}
    PROVE  BitmapSpan \in Nat /\ BitmapSpan <= BitmapFrames
<1>1. memorySize \in Nat /\ size = memorySize \div 8 + 1
  BY DEF TypeOK, Sized
<1>2. size \in Nat /\ size >= 1
  BY <1>1
<1>3. FrameBytes \in Nat /\ FrameBytes > 0
  BY SizeAssumption
<1>4. (size - 1) \div FrameBytes \in Nat /\ size \div FrameBytes \in Nat
  BY <1>2, <1>3
<1>5. (size - 1) \div FrameBytes <= size \div FrameBytes
  BY <1>2, <1>3, <1>4
<1> QED
  BY <1>4, <1>5 DEF BitmapSpan, BitmapFrames

\* Setting bits undoes nothing of what boot has set so far.
LEMMA Keep ==
    ASSUME UNCHANGED <<mMap, memorySize, size, largest>>, bits \subseteq bits'
    PROVE  /\ OthersSet => OthersSet'
           /\ \A n \in Nat : SetBelow(n) => SetBelow(n)'
           /\ \A n \in Nat : BufferSet(n) => BufferSet(n)'
  BY DEF OthersSet, SegmentsFit, SetBelow, BufferSet, Conventional,
         IsConventional, Buffer, BitCount

\* Once the map is read, all that is protected is set.
LEMMA ProtectedSet ==
    ASSUME BootProgress, phase = "ready"
    PROVE  Protected \subseteq bits
<1>1. LowFrames \in Nat /\ LowFrames <= IntFrames /\ IntFrames \in Nat
  BY LowAssumption, IntAssumption
<1> QED
  BY <1>1 DEF BootProgress, Protected, OthersSet, SetBelow, BufferSet

Safe == Sized /\ BootProgress /\ Holders

\* The loops of ReadEFIMemoryMap set what they are there to set, and nothing
\* a caller may do afterwards clears it.
LEMMA ProgressStep ==
    ASSUME TypeOK, Safe, [Next]_vars
    PROVE  BootProgress'
<1> USE DEF Safe
<1> DEFINE Frozen == UNCHANGED <<mMap, memorySize, size, largest>>
<1>a. /\ memorySize \in Nat /\ t \in Nat
      /\ LowFrames \in Nat /\ LowFrames <= IntFrames /\ IntFrames \in Nat
  BY LowAssumption, IntAssumption DEF TypeOK
<1>c. Offset(t) \in Int /\ (t < IntFrames => Offset(t) = t)
  BY <1>a, OffsetValue
<1>b. Buffer \in Nat /\ BitmapFrames \in Nat /\ BitmapFrames > 0
  BY BufferType
<1>0. CASE UNCHANGED vars
  BY <1>0 DEF vars, boot, BootProgress, OthersSet, SetBelow, BufferSet,
              SegmentsFit, Conventional, IsConventional, Buffer, BitCount, BitmapSpan,
              BitmapFrames
<1>1. CASE ScanDescriptor \/ EndScan \/ GetMemorySize
  BY <1>1 DEF ScanDescriptor, EndScan, GetMemorySize, BootProgress
<1>2. CASE InitBitmap
  BY <1>2, <1>a DEF InitBitmap, BootProgress, SetBelow
<1>3. CASE ReserveAll
  <2>1. phase = "reserveAll" /\ phase' = phase /\ Frozen /\ t' = t + 1
          /\ t <= memorySize /\ SetBelow(t)
    BY <1>3, <1>a DEF ReserveAll, BootProgress
  <2>2. InBitmap(t)
    BY <1>a, <2>1, MemoryFits DEF InBitmap, BitCount, TypeOK
  <2>3. bits \subseteq bits' /\ (t < IntFrames => t \in bits')
    BY <1>3, <1>a, <1>c, <2>2, SetOp DEF ReserveAll
  <2>4. SetBelow(t)' /\ t' <= memorySize' + 1
    BY <1>a, <2>1, <2>3 DEF SetBelow
  <2> QED
    BY <2>1, <2>4 DEF BootProgress
<1>4. CASE EndReserveAll
  <2>1. phase = "reserveAll" /\ phase' = "unreserve" /\ Frozen /\ bits' = bits
          /\ t = memorySize + 1 /\ SetBelow(t)
    BY <1>4 DEF EndReserveAll, Unchanged, BootProgress
  <2>2. OthersSet
    BY <1>a, <2>1 DEF SetBelow, OthersSet
  <2>3. OthersSet'
    BY <2>1, <2>2, Keep
  <2> QED
    BY <2>1, <2>3 DEF BootProgress
<1>5. CASE UnreserveFrame
  <2>1. /\ phase = "unreserve" /\ phase' = phase /\ Frozen /\ OthersSet
        /\ i \in 1 .. Len(mMap) /\ IsConventional(i)
        /\ t < mMap[i].numPages
    BY <1>5, MapType DEF UnreserveFrame, BootProgress, TypeOK
  <2>2. mMap[i].physAddr \in Nat /\ mMap[i].numPages \in Nat
    BY <2>1, MapType
  <2> DEFINE f == mMap[i].physAddr + Offset(t)
  <2>3. SegmentsFit => Conventional(f)
    <3>1. SegmentsFit => Offset(t) = t
      BY <1>a, <1>c, <2>1, <2>2 DEF SegmentsFit
    <3> QED
      BY <1>a, <2>1, <2>2, <3>1 DEF Conventional
  <2>4. bits' = bits \ {f}
    BY <1>5, <1>c, <2>2, ClearOp DEF UnreserveFrame
  <2>5. OthersSet'
    BY <2>1, <2>3, <2>4
    DEF OthersSet, SegmentsFit, Conventional, IsConventional
  <2> QED
    BY <2>1, <2>5 DEF BootProgress
<1>6. CASE NextDescriptor
  <2>1. phase = "unreserve" /\ phase' = phase /\ Frozen /\ OthersSet
          /\ bits' = bits
    BY <1>6 DEF NextDescriptor, Unchanged, BootProgress
  <2> QED
    BY <2>1, Keep DEF BootProgress
<1>7. CASE EndUnreserve
  <2>1. phase' = "reserveLow" /\ Frozen /\ OthersSet /\ bits' = bits /\ t' = 0
    BY <1>7 DEF EndUnreserve, Unchanged, BootProgress
  <2>2. OthersSet'
    BY <2>1, Keep
  <2>3. SetBelow(t)'
    BY <1>a, <2>1 DEF SetBelow
  <2> QED
    BY <1>a, <2>1, <2>2, <2>3 DEF BootProgress
<1>8. CASE ReserveLow
  <2>1. phase = "reserveLow" /\ phase' = phase /\ Frozen /\ t' = t + 1
          /\ t < LowFrames /\ OthersSet /\ SetBelow(t)
    BY <1>8, <1>a DEF ReserveLow, BootProgress
  <2>2. bits \subseteq bits' /\ (InBitmap(t) => t \in bits')
    BY <1>8, <1>a, <1>c, <2>1, SetOp DEF ReserveLow
  <2>3. memorySize < BitCount
    BY <2>1, MemoryFits
  <2>4. SetBelow(t)'
    <3>1. SUFFICES ASSUME NEW f \in 0 .. memorySize, f < t + 1
                   PROVE  f \in bits'
      BY <2>1 DEF SetBelow
    <3>2. CASE f < t
      BY <1>a, <2>1, <2>2, <3>1, <3>2 DEF SetBelow
    <3>3. CASE f = t
      BY <1>a, <2>2, <2>3, <3>3 DEF InBitmap, BitCount, TypeOK
    <3> QED
      BY <1>a, <3>1, <3>2, <3>3
  <2>5. OthersSet'
    BY <2>1, <2>2, Keep
  <2> QED
    BY <1>a, <2>1, <2>4, <2>5 DEF BootProgress
<1>9. CASE EndReserveLow
  <2>1. phase' = "lockBitmap" /\ Frozen /\ bits' = bits /\ t' = 0
          /\ OthersSet /\ SetBelow(LowFrames)
    BY <1>9 DEF EndReserveLow, Unchanged, BootProgress
  <2>2. OthersSet' /\ SetBelow(LowFrames)'
    BY <1>a, <2>1, Keep
  <2>3. BufferSet(t)' /\ t' <= BitmapFrames'
    BY <1>b, <2>1 DEF BufferSet, Buffer, BitmapFrames
  <2> QED
    BY <2>1, <2>2, <2>3 DEF BootProgress
<1>10. CASE LockBitmap
  <2>1. phase = "lockBitmap" /\ phase' = phase /\ Frozen /\ t' = t + 1
          /\ t < BitmapFrames /\ OthersSet /\ SetBelow(LowFrames)
          /\ BufferSet(t)
    BY <1>10, <1>a DEF LockBitmap, BootProgress
  <2>2. /\ bits \subseteq bits'
        /\ t < IntFrames /\ InBitmap(Buffer + t) => Buffer + t \in bits'
    BY <1>10, <1>a, <1>b, <1>c, SetOp DEF LockBitmap
  <2>3. OthersSet' /\ SetBelow(LowFrames)'
    BY <1>a, <2>1, <2>2, Keep
  <2>4. Buffer' = Buffer /\ BitCount' = BitCount /\ BitmapFrames' = BitmapFrames
    BY <2>1 DEF Buffer, BitCount, BitmapFrames
  <2>5. BufferSet(t)'
    <3>1. SUFFICES ASSUME NEW f \in Buffer .. Buffer + t, f < BitCount,
                          f < Buffer + IntFrames
                   PROVE  f \in bits'
      BY <1>a, <1>b, <2>1, <2>4 DEF BufferSet
    <3>2. CASE f \in Buffer .. Buffer + t - 1
      BY <2>1, <2>2, <3>1, <3>2 DEF BufferSet
    <3>3. CASE f = Buffer + t
      BY <1>a, <1>b, <2>2, <3>1, <3>3 DEF InBitmap, BitCount, TypeOK
    <3> QED
      BY <1>a, <1>b, <3>1, <3>2, <3>3
  <2> QED
    BY <1>a, <1>b, <2>1, <2>3, <2>4, <2>5 DEF BootProgress
<1>11. CASE EndLockBitmap
  <2>1. phase' = "ready" /\ Frozen /\ bits' = bits /\ OthersSet
          /\ SetBelow(LowFrames) /\ BufferSet(BitmapFrames)
    BY <1>11 DEF EndLockBitmap, Unchanged, BootProgress, boot
  <2>2. BitmapSpan \in Nat /\ BitmapSpan <= BitmapFrames
    BY <1>11, SpanLocked DEF EndLockBitmap
  <2>3. BufferSet(BitmapSpan)
    BY <1>b, <2>1, <2>2 DEF BufferSet
  <2>4. BitmapSpan' = BitmapSpan
    BY <2>1 DEF BitmapSpan
  <2>5. OthersSet' /\ SetBelow(LowFrames)' /\ BufferSet(BitmapSpan)'
    BY <1>a, <2>1, <2>2, <2>3, <2>4, Keep
       DEF BufferSet, Buffer, BitCount, BitmapSpan
  <2> QED
    BY <2>1, <2>5 DEF BootProgress
<1>12. ASSUME phase = "ready", phase' = phase, UNCHANGED boot, bits \subseteq bits'
       PROVE  BootProgress'
  BY <1>12 DEF boot, BootProgress, OthersSet, SetBelow, BufferSet, SegmentsFit,
               Conventional, IsConventional, Buffer, BitCount, BitmapSpan
<1>13. CASE RequestPage
  <2>1. PICK f \in Clear(pageBitmapIndex) : LockFrame(f)
    BY <1>13 DEF RequestPage
  <2>2. f \in Nat
    BY <2>1 DEF Clear, TypeOK, BitCount
  <2> QED
    BY <1>12, <1>13, <2>1, <2>2, SetOp DEF RequestPage
<1>14. CASE RequestPageFails
  BY <1>12, <1>14 DEF RequestPageFails
<1>15. ASSUME NEW f \in 0 .. BitCount, FreePage(f) PROVE BootProgress'
  <2>1. f \in Nat /\ phase = "ready" /\ phase' = phase /\ UNCHANGED boot
    BY <1>15 DEF FreePage, TypeOK, BitCount
  <2>2. bits' = bits \ {f}
    BY <1>15, <2>1, ClearOp DEF FreePage
  <2>3. CASE f \in owned
    <3>1. f \notin Protected
      BY <2>3 DEF Holders
    <3>2. \A g \in Protected : g \in bits'
      BY <2>1, <2>2, <3>1, ProtectedSet
    <3> QED
      BY <2>1, <3>2
      DEF boot, BootProgress, OthersSet, SetBelow, BufferSet, SegmentsFit,
          Conventional, IsConventional, Buffer, BitCount, BitmapSpan, Protected
  <2>4. CASE f \notin owned
    BY <1>12, <1>15, <2>1, <2>2, <2>4 DEF FreePage, FreeFrame, Unchanged, Get
  <2> QED
    BY <2>3, <2>4
<1>16. ASSUME NEW f \in LockTargets, LockPage(f) PROVE BootProgress'
  BY <1>12, <1>16, SetOp, LockAssumption DEF LockPage
<1> QED
  BY <1>0, <1>1, <1>2, <1>3, <1>4, <1>5, <1>6, <1>7, <1>8, <1>9, <1>10, <1>11,
     <1>13, <1>14, <1>15, <1>16 DEF Next, Boot

\* LockPage sets every frame that the history variable calls withdrawn.
LEMMA WithdrawOp ==
    ASSUME NEW f \in Int, LockFrame(f), Withdraw(f)
    PROVE  /\ withdrawn \subseteq withdrawn'
           /\ withdrawn' \subseteq withdrawn \cup {f}
           /\ f \in withdrawn' \ withdrawn => f \in bits' /\ f \notin bits
  BY SetOp DEF Withdraw, Get

\* No caller ever holds a frame that is protected or locked.
LEMMA HoldersStep ==
    ASSUME TypeOK, Safe, [Next]_vars
    PROVE  Holders'
<1> USE DEF Safe
<1>0. CASE UNCHANGED vars
  <2>1. owned' = owned /\ withdrawn' = withdrawn /\ bits' = bits /\ phase' = phase
          /\ Protected' = Protected /\ BitCount' = BitCount
    BY <1>0 DEF vars, boot, clients, Protected, SegmentsFit, Conventional,
                IsConventional, Buffer, BitCount, BitmapSpan
  <2> QED
    BY <2>1 DEF Holders
<1>1. ASSUME phase # "ready", owned' = owned, withdrawn' = withdrawn,
             bits \subseteq bits', phase = "lockBitmap" => phase' \in {"lockBitmap", "ready"}
      PROVE  Holders'
  BY <1>1 DEF Holders
<1>2. CASE ScanDescriptor \/ EndScan \/ GetMemorySize
  BY <1>2, <1>1 DEF ScanDescriptor, EndScan, GetMemorySize, clients
<1>3. CASE InitBitmap
  BY <1>3 DEF InitBitmap, clients, Holders
<1>4. CASE ReserveAll \/ ReserveLow
  BY <1>4, <1>1, LoopFrames, SetOp DEF ReserveAll, ReserveLow, clients
<1>5. CASE EndReserveAll \/ NextDescriptor \/ EndUnreserve \/ EndReserveLow
             \/ EndLockBitmap
  BY <1>5, <1>1 DEF EndReserveAll, NextDescriptor, EndUnreserve, EndReserveLow,
                    EndLockBitmap, Unchanged, clients
<1>6. CASE UnreserveFrame
  BY <1>6 DEF UnreserveFrame, Holders, clients
<1>7. CASE LockBitmap
  <2>1. Buffer + Offset(t) \in Int
    BY LoopFrames
  <2>2. bits \subseteq bits' /\ withdrawn' \subseteq withdrawn \cup {Buffer + Offset(t)}
          /\ (Buffer + Offset(t) \in withdrawn' \ withdrawn
                => Buffer + Offset(t) \in bits')
    BY <1>7, <2>1, SetOp, WithdrawOp DEF LockBitmap
  <2> QED
    BY <1>7, <2>2 DEF LockBitmap, Holders
<1>8. ASSUME UNCHANGED boot
      PROVE  Protected' = Protected /\ BitCount' = BitCount
  BY <1>8 DEF boot, Protected, SegmentsFit, Conventional, IsConventional, Buffer, BitCount,
              BitmapSpan
<1>9. CASE RequestPage
  <2>1. PICK f \in Clear(pageBitmapIndex) : LockFrame(f) /\ owned' = owned \cup {f}
    BY <1>9 DEF RequestPage
  <2>2. f \in Nat /\ f < BitCount /\ f \notin bits
    BY <2>1 DEF Clear, TypeOK, BitCount
  <2>3. bits \subseteq bits' /\ f \in bits'
    BY <2>1, <2>2, SetOp DEF InBitmap, BitCount, TypeOK
  <2>4. f \notin Protected \cup withdrawn
    BY <1>9, <2>2, ProtectedSet DEF RequestPage, Holders
  <2>5. phase' = "ready" /\ withdrawn' = withdrawn /\ Protected' = Protected
          /\ BitCount' = BitCount
    BY <1>8, <1>9 DEF RequestPage
  <2> QED
    BY <2>1, <2>2, <2>3, <2>4, <2>5 DEF Holders
<1>10. CASE RequestPageFails
  BY <1>8, <1>10 DEF RequestPageFails, Holders
<1>11. ASSUME NEW f \in 0 .. BitCount, FreePage(f) PROVE Holders'
  <2>1. f \in Nat /\ phase' = "ready" /\ withdrawn' = withdrawn
          /\ Protected' = Protected /\ BitCount' = BitCount
          /\ owned' = owned \ {f}
    BY <1>8, <1>11 DEF FreePage, TypeOK, BitCount
  <2>2. bits' = bits \ {f}
    BY <1>11, <2>1, ClearOp DEF FreePage
  <2>3. f \notin withdrawn
    BY <1>11 DEF FreePage, Get, Holders, InBitmap, TypeOK, BitCount
  <2> QED
    BY <2>1, <2>2, <2>3 DEF Holders
<1>12. ASSUME NEW f \in LockTargets, LockPage(f) PROVE Holders'
  <2>1. f \in Nat /\ phase' = "ready" /\ Protected' = Protected
          /\ BitCount' = BitCount /\ owned' = owned
    BY <1>8, <1>12, LockAssumption DEF LockPage
  <2>2. bits \subseteq bits' /\ withdrawn' \subseteq withdrawn \cup {f}
          /\ (f \in withdrawn' \ withdrawn => f \in bits' /\ f \notin bits)
    BY <1>12, <2>1, SetOp, WithdrawOp DEF LockPage
  <2> QED
    BY <2>1, <2>2 DEF Holders
<1> QED
  BY <1>0, <1>2, <1>3, <1>4, <1>5, <1>6, <1>7, <1>9, <1>10, <1>11, <1>12
  DEF Next, Boot

\* The strengthening of ProtectedKept that every step preserves.
THEOREM Invariance == Spec => []IInv
<1>1. Init => Safe
  BY DEF Init, Safe, Sized, BootProgress, Holders
<1>2. TypeOK /\ Safe /\ [Next]_vars => Safe'
  BY TypeStep, ProgressStep, HoldersStep DEF Safe
<1>3. TypeOK /\ Sized /\ HintSound /\ Safe => IInv
  BY DEF IInv, Safe
<1> QED
  BY <1>1, <1>2, <1>3, TypeCorrect, HintIsSound, PTL DEF Spec

\* Once ReadEFIMemoryMap has run, the low frames, the bitmap's own, the locked
\* ones and, unless a conventional segment is larger than 2 GiB, the frames
\* below 2 GiB that are not conventional memory stay set in the bitmap, and no
\* caller holds one of them.
THEOREM ProtectionHolds == Spec => []ProtectedKept
<1>1. IInv => ProtectedKept
  BY ProtectedSet DEF IInv, ProtectedKept, Holders
<1> QED
  BY <1>1, Invariance, PTL

-----------------------------------------------------------------------------
(* Exhaustion, and the pool the callers see.                               *)

\* While a clear bit exists, the search from the hint finds it.
LEMMA HintFindsAll ==
    ASSUME IInv
    PROVE  Clear(0) = Clear(pageBitmapIndex)
<1>1. pageBitmapIndex \in Nat /\ BitCount \in Nat
  BY DEF IInv, TypeOK, BitCount
<1> QED
  BY <1>1 DEF IInv, HintSound, Clear

\* A frame beyond the memory is handed out only when all memory is taken.
LEMMA PhantomStep ==
    ASSUME IInv, [Next]_vars
    PROVE  [\A f \in owned' \ owned :
              f > memorySize => 0 .. memorySize \subseteq bits]_vars
<1>1. SUFFICES ASSUME NEW f \in owned' \ owned, f > memorySize
               PROVE  0 .. memorySize \subseteq bits
  OBVIOUS
<1>2. RequestPage
  BY <1>1 DEF Next, Boot, vars, boot, clients, ScanDescriptor, EndScan,
     GetMemorySize, InitBitmap, ReserveAll, EndReserveAll, UnreserveFrame,
     NextDescriptor, EndUnreserve, ReserveLow, EndReserveLow, LockBitmap,
     EndLockBitmap, RequestPageFails, FreePage, LockPage
<1>3. f \in Clear(pageBitmapIndex) /\ FirstClear(f)
  BY <1>1, <1>2 DEF RequestPage
<1>4. memorySize \in Nat /\ BitCount \in Nat /\ memorySize < BitCount
        /\ pageBitmapIndex \in Nat
  BY <1>2, MemoryFits DEF IInv, TypeOK, BitCount, RequestPage
<1>5. SUFFICES ASSUME NEW g \in 0 .. memorySize, g \notin bits PROVE FALSE
  OBVIOUS
<1>6. g \in Clear(0)
  BY <1>4, <1>5 DEF Clear
<1>7. f <= g
  BY <1>3, <1>6, HintFindsAll DEF FirstClear
<1> QED
  BY <1>1, <1>3, <1>4, <1>5, <1>7 DEF Clear

\* Phantom frames, which stand for no memory, are handed out last.
THEOREM PhantomsComeLast == Spec => PhantomsLast
<1>1. IInv /\ [Next]_vars
        => [\A f \in owned' \ owned :
              f > memorySize => 0 .. memorySize \subseteq bits]_vars
  BY PhantomStep
<1> QED
  BY <1>1, Invariance, PTL DEF Spec, PhantomsLast

\* Every step of the allocator is a step of the pool, or none.
LEMMA PoolStep ==
    ASSUME IInv, [Next]_vars
    PROVE  [Pool!Next]_(Pool!vars)
<1> USE DEF Pool!Next, Pool!vars
<1>a. TypeOK /\ Sized /\ Holders /\ HintSound /\ BitCount \in Nat
  BY DEF IInv, TypeOK, BitCount
<1>0. CASE UNCHANGED vars
  BY <1>0 DEF vars, boot, clients, Clear, BitCount
<1>1. ASSUME phase # "ready", phase' # "ready", UNCHANGED <<owned, ret>>
      PROVE  UNCHANGED Pool!vars
  BY <1>1
<1>2. CASE ScanDescriptor \/ EndScan \/ GetMemorySize \/ InitBitmap
             \/ ReserveAll \/ EndReserveAll \/ UnreserveFrame
             \/ NextDescriptor \/ EndUnreserve \/ ReserveLow \/ EndReserveLow
             \/ LockBitmap
  BY <1>1, <1>2 DEF ScanDescriptor, EndScan, GetMemorySize, InitBitmap,
     ReserveAll, EndReserveAll, UnreserveFrame, NextDescriptor, EndUnreserve,
     ReserveLow, EndReserveLow, LockBitmap, clients
<1>3. CASE EndLockBitmap
  <2>1. Clear(0)' \subseteq Nat
    BY DEF Clear
  <2>2. Pool!Open
    BY <1>3, <2>1 DEF EndLockBitmap, Pool!Open, clients
  <2> QED
    BY <2>2
<1>4. CASE RequestPage
  <2>1. PICK f \in Clear(pageBitmapIndex) :
            LockFrame(f) /\ owned' = owned \cup {f} /\ ret' = f
    BY <1>4 DEF RequestPage
  <2>2. f \in Clear(0) /\ f \in Nat /\ f < BitCount /\ f \notin bits
    BY <1>a, <2>1, HintFindsAll DEF Clear
  <2>3. bits' = bits \cup {f}
    BY <1>a, <2>1, <2>2, SetOp DEF InBitmap
  <2>4. Clear(0)' = Clear(0) \ {f}
    BY <1>4, <2>3 DEF Clear, RequestPage, boot, BitCount
  <2>5. Pool!Grant(f)
    BY <1>4, <2>1, <2>2, <2>4 DEF RequestPage, Pool!Grant
  <2> QED
    BY <1>4, <2>2, <2>5 DEF RequestPage
<1>5. CASE RequestPageFails
  <2>1. Clear(0) = {} /\ Clear(0)' = {}
    BY <1>5, HintFindsAll DEF RequestPageFails, Clear, boot, BitCount
  <2>2. Pool!Refuse
    BY <1>5, <2>1 DEF RequestPageFails, Pool!Refuse
  <2> QED
    BY <2>2
<1>6. ASSUME NEW f \in 0 .. BitCount, FreePage(f)
      PROVE  [Pool!Next]_(Pool!vars)
  <2>1. f \in Nat /\ phase = "ready" /\ phase' = phase /\ BitCount' = BitCount
          /\ owned' = owned \ {f} /\ ret' = ret
    BY <1>6, <1>a DEF FreePage, boot, BitCount
  <2>2. bits' = bits \ {f}
    BY <1>6, <1>a, <2>1, ClearOp DEF FreePage
  <2>3. CASE f \in owned
    <3>1. f \in 0 .. BitCount - 1
      BY <1>a, <2>1, <2>3 DEF Holders
    <3>2. Clear(0)' = Clear(0) \cup {f}
      BY <2>1, <2>2, <3>1 DEF Clear
    <3>3. Pool!Release(f)
      BY <2>1, <2>3, <3>2 DEF Pool!Release
    <3> QED
      BY <2>3, <3>3
  <2>4. CASE f \notin owned
    <3>1. f \notin bits
      BY <1>6, <1>a, <2>1, <2>4 DEF FreePage, Get, InBitmap
    <3>2. Clear(0)' = Clear(0) /\ owned' = owned
      BY <2>1, <2>2, <2>4, <3>1 DEF Clear
    <3> QED
      BY <2>1, <3>2
  <2> QED
    BY <2>3, <2>4
<1>7. ASSUME NEW f \in LockTargets, LockPage(f)
      PROVE  [Pool!Next]_(Pool!vars)
  <2>1. f \in Nat /\ phase = "ready" /\ phase' = phase /\ BitCount' = BitCount
          /\ owned' = owned /\ ret' = ret
    BY <1>7, LockAssumption DEF LockPage, boot, BitCount
  <2>2. bits \subseteq bits' /\ bits' \subseteq bits \cup {f}
          /\ (InBitmap(f) => f \in bits')
    BY <1>7, <2>1, SetOp DEF LockPage
  <2>3. CASE f \in Clear(0)
    <3>1. Clear(0)' = Clear(0) \ {f}
      BY <1>a, <2>1, <2>2, <2>3 DEF Clear, InBitmap
    <3>2. Pool!Withdraw(f)
      BY <2>1, <3>1 DEF Pool!Withdraw
    <3> QED
      BY <2>1, <2>3, <3>2
  <2>4. CASE f \notin Clear(0)
    <3>1. Clear(0)' = Clear(0)
      BY <2>1, <2>2, <2>4 DEF Clear
    <3> QED
      BY <2>1, <3>1
  <2> QED
    BY <2>3, <2>4
<1> QED
  BY <1>0, <1>2, <1>3, <1>4, <1>5, <1>6, <1>7 DEF Next, Boot

\* The allocator implements the pool of FramePool: a frame has one holder at a
\* time, and a request is refused only when no bit of the bitmap is clear.
THEOREM PoolImplemented == Spec => ImplementsPool
<1>1. Init => Pool!Init
  BY DEF Init, Pool!Init
<1>2. IInv /\ [Next]_vars => [Pool!Next]_(Pool!vars)
  BY PoolStep
<1> QED
  BY <1>1, <1>2, Invariance, PTL DEF Spec, ImplementsPool, Pool!Spec

-----------------------------------------------------------------------------
(* The counters.                                                           *)

\* The sets of frames the counters count are finite.
LEMMA Finite ==
    ASSUME TypeOK, Holders
    PROVE  /\ IsFiniteSet(bits) /\ IsFiniteSet(owned) /\ IsFiniteSet(withdrawn)
           /\ Cardinality(bits) \in Nat /\ Cardinality(owned) \in Nat
           /\ Cardinality(withdrawn) \in Nat
<1>1. BitCount \in Int /\ bits \subseteq 0 .. BitCount
  BY DEF TypeOK, BitCount
<1>2. IsFiniteSet(0 .. BitCount)
  BY <1>1, FS_Interval
<1>3. IsFiniteSet(bits)
  BY <1>1, <1>2, FS_Subset
<1>4. owned \subseteq bits /\ withdrawn \subseteq bits
  BY DEF Holders
<1>5. IsFiniteSet(owned) /\ IsFiniteSet(withdrawn)
  BY <1>3, <1>4, FS_Subset
<1> QED
  BY <1>3, <1>5, FS_CardinalityType

\* Each one-frame operation keeps the sum of the counters, and moves the free
\* counter against the number of bits set.
LEMMA Accounting ==
    ASSUME TypeOK, Holders, NEW f \in Int,
           \/ ReservePage(f) \/ UnreservePage(f) \/ LockFrame(f) \/ FreeFrame(f)
    PROVE  /\ freeMemory' + reservedMemory' + usedMemory'
                = freeMemory + reservedMemory + usedMemory
           /\ freeMemory' + Cardinality(bits') = freeMemory + Cardinality(bits)
           /\ usedMemory' \in Int
<1> USE DEF InBitmap, Get, counters
<1>1. freeMemory \in Int /\ reservedMemory \in Int /\ usedMemory \in Int
  BY DEF TypeOK
<1>2. IsFiniteSet(bits) /\ Cardinality(bits) \in Nat
  BY Finite
<1>3. CASE freeMemory' = freeMemory /\ bits' = bits
             /\ reservedMemory' = reservedMemory /\ usedMemory' = usedMemory
  BY <1>1, <1>3
<1>4. CASE /\ f \notin bits /\ bits' = bits \cup {f}
           /\ freeMemory' = freeMemory - 1
           /\ \/ reservedMemory' = reservedMemory + 1 /\ usedMemory' = usedMemory
              \/ reservedMemory' = reservedMemory /\ usedMemory' = usedMemory + 1
  <2>1. Cardinality(bits') = Cardinality(bits) + 1
    BY <1>2, <1>4, FS_AddElement
  <2> QED
    BY <1>1, <1>2, <1>4, <2>1
<1>5. CASE /\ f \in bits /\ bits' = bits \ {f}
           /\ freeMemory' = freeMemory + 1
           /\ \/ reservedMemory' = reservedMemory - 1 /\ usedMemory' = usedMemory
              \/ reservedMemory' = reservedMemory /\ usedMemory' = usedMemory - 1
  <2>1. Cardinality(bits') = Cardinality(bits) - 1
    BY <1>2, <1>5, FS_RemoveElement
  <2> QED
    BY <1>1, <1>2, <1>5, <2>1
<1>6. CASE ReservePage(f)
  BY <1>3, <1>4, <1>6 DEF ReservePage, Unchanged
<1>7. CASE UnreservePage(f)
  BY <1>3, <1>5, <1>7 DEF UnreservePage, Unchanged, TypeOK
<1>8. CASE LockFrame(f)
  BY <1>3, <1>4, <1>8 DEF LockFrame
<1>9. CASE FreeFrame(f)
  BY <1>3, <1>5, <1>9 DEF FreeFrame, Unchanged, TypeOK
<1> QED
  BY <1>6, <1>7, <1>8, <1>9

\* LockPage counts a frame as used exactly when it takes it from the clear ones.
LEMMA LockCounts ==
    ASSUME TypeOK, Holders, NEW f \in Int, LockFrame(f), Withdraw(f)
    PROVE  usedMemory' - Cardinality(withdrawn')
             = usedMemory - Cardinality(withdrawn)
<1> USE DEF InBitmap, Get
<1>1. usedMemory \in Int /\ IsFiniteSet(withdrawn)
        /\ Cardinality(withdrawn) \in Nat
  BY Finite DEF TypeOK
<1>2. CASE InBitmap(f) /\ ~Get(f)
  <2>1. usedMemory' = usedMemory + 1 /\ withdrawn' = withdrawn \cup {f}
    BY <1>2 DEF LockFrame, Withdraw
  <2>2. f \notin withdrawn
    BY <1>2 DEF Holders
  <2>3. Cardinality(withdrawn') = Cardinality(withdrawn) + 1
    BY <1>1, <2>1, <2>2, FS_AddElement
  <2> QED
    BY <1>1, <2>1, <2>3
<1>3. CASE ~InBitmap(f) \/ Get(f)
  <2>1. usedMemory' = usedMemory /\ withdrawn' = withdrawn
    BY <1>3 DEF LockFrame, Withdraw, counters
  <2> QED
    BY <1>1, <2>1
<1> QED
  BY <1>2, <1>3

\* Every step keeps the counters in step with the bitmap and the holders.
LEMMA CountStep ==
    ASSUME IInv, Counted, [Next]_vars
    PROVE  Counted'
<1> DEFINE Running == phase \notin {"scan", "measure"}
           Sums == /\ freeMemory' + reservedMemory' + usedMemory'
                        = freeMemory + reservedMemory + usedMemory
                   /\ freeMemory' + Cardinality(bits')
                        = freeMemory + Cardinality(bits)
<1>a. TypeOK /\ Sized /\ Holders
  BY DEF IInv
<1>b. /\ IsFiniteSet(bits) /\ IsFiniteSet(owned) /\ IsFiniteSet(withdrawn)
      /\ Cardinality(bits) \in Nat /\ Cardinality(owned) \in Nat
      /\ Cardinality(withdrawn) \in Nat
      /\ usedMemory \in Int /\ memorySize \in Nat
  BY <1>a, Finite DEF TypeOK
<1>c. ASSUME Running, Running', Sums, memorySize' = memorySize,
             usedMemory' = Cardinality(owned') + Cardinality(withdrawn')
      PROVE  Counted'
  <2>1. freeMemory + reservedMemory + usedMemory = memorySize
          /\ (freeMemory + Cardinality(bits)) - memorySize \in {0, 1}
    BY <1>c DEF Counted
  <2>2. freeMemory' + reservedMemory' + usedMemory' = memorySize'
    BY <1>c, <2>1
  <2>3. (freeMemory' + Cardinality(bits')) - memorySize' \in {0, 1}
    BY <1>c, <2>1
  <2> QED
    BY <1>c, <2>2, <2>3 DEF Counted
<1>d. ASSUME Running, Running', UNCHANGED <<memorySize, owned, withdrawn, bits>>,
             UNCHANGED counters
      PROVE  Counted'
  BY <1>d DEF Counted, counters
<1>e. ASSUME Running, Running', UNCHANGED <<memorySize, owned, withdrawn>>,
             usedMemory' = usedMemory, Sums
      PROVE  Counted'
  BY <1>e, <1>c DEF Counted
<1>0. CASE UNCHANGED vars
  BY <1>0 DEF vars, boot, counters, clients, Counted
<1>1. CASE ScanDescriptor \/ EndScan \/ GetMemorySize
  BY <1>1 DEF ScanDescriptor, EndScan, GetMemorySize, Counted, counters
<1>2. CASE InitBitmap
  <2>1. /\ phase' = "reserveAll" /\ freeMemory' = memorySize
        /\ memorySize' = memorySize /\ reservedMemory' = 0 /\ usedMemory' = 0
        /\ owned' = {} /\ withdrawn' = {}
    BY <1>2, <1>a DEF InitBitmap, Counted, Holders, clients
  <2>2. bits' = {} \/ \E x : bits' = {x}
    BY <1>2 DEF InitBitmap
  <2>3. Cardinality(bits') \in {0, 1}
    BY <2>2, FS_EmptySet, FS_Singleton
  <2>4. Cardinality(owned') + Cardinality(withdrawn') = 0
    BY <2>1, FS_EmptySet
  <2>5. (freeMemory' + Cardinality(bits')) - memorySize' \in {0, 1}
    BY <1>b, <2>1, <2>3
  <2>6. freeMemory' + reservedMemory' + usedMemory' = memorySize'
    BY <1>b, <2>1
  <2> QED
    BY <2>1, <2>4, <2>5, <2>6 DEF Counted
<1>3. CASE ReserveAll \/ ReserveLow
  <2>1. Offset(t) \in Int /\ (ReserveAll \/ ReserveLow) /\ Running /\ Running'
          /\ ReservePage(Offset(t)) /\ UNCHANGED <<memorySize, owned, withdrawn>>
    BY <1>3, <1>a, LoopFrames DEF ReserveAll, ReserveLow, clients
  <2>2. Sums /\ usedMemory' = usedMemory
    BY <1>a, <2>1, Accounting DEF ReservePage, Unchanged, counters
  <2> QED
    BY <1>e, <2>1, <2>2
<1>4. CASE EndReserveAll \/ NextDescriptor \/ EndUnreserve \/ EndReserveLow
             \/ EndLockBitmap
  BY <1>4, <1>d DEF EndReserveAll, NextDescriptor, EndUnreserve, EndReserveLow,
                    EndLockBitmap, Unchanged, clients, boot
<1>5. CASE UnreserveFrame
  <2>1. mMap[i].physAddr + Offset(t) \in Int
    BY <1>5, <1>a, LoopFrames DEF UnreserveFrame
  <2>2. Sums /\ usedMemory' = usedMemory
    BY <1>5, <1>a, <2>1, Accounting
    DEF UnreserveFrame, UnreservePage, Unchanged, counters
  <2> QED
    BY <1>5, <1>e, <2>2 DEF UnreserveFrame, clients
<1>6. ASSUME NEW f \in Int, LockFrame(f), Withdraw(f), Running, Running',
             UNCHANGED <<memorySize, owned>>
      PROVE  Counted'
  <2>1. Sums /\ usedMemory' \in Int
    BY <1>6, <1>a, Accounting
  <2>2. usedMemory' - Cardinality(withdrawn') = usedMemory - Cardinality(withdrawn)
    BY <1>6, <1>a, LockCounts
  <2>3. IsFiniteSet(withdrawn')
    BY <1>6, <1>b, FS_AddElement DEF Withdraw
  <2>4. Cardinality(withdrawn') \in Nat
    BY <2>3, FS_CardinalityType
  <2>5. usedMemory = Cardinality(owned) + Cardinality(withdrawn)
    BY <1>6 DEF Counted
  <2>6. usedMemory' = Cardinality(owned') + Cardinality(withdrawn')
    BY <1>6, <1>b, <2>1, <2>2, <2>4, <2>5
  <2> QED
    BY <1>6, <1>c, <2>1, <2>6
<1>7. CASE LockBitmap
  <2>1. Buffer + Offset(t) \in Int
    BY <1>a, LoopFrames
  <2> QED
    BY <1>6, <1>7, <2>1 DEF LockBitmap
<1>8. CASE RequestPage
  <2>1. PICK f \in Clear(pageBitmapIndex) : LockFrame(f) /\ owned' = owned \cup {f}
    BY <1>8 DEF RequestPage
  <2>2. f \in Nat /\ InBitmap(f) /\ f \notin bits
    BY <1>a, <2>1 DEF Clear, TypeOK, BitCount, InBitmap
  <2>3. Sums /\ usedMemory' = usedMemory + 1
    BY <1>a, <2>1, <2>2, Accounting DEF LockFrame, Get
  <2>4. f \notin owned
    BY <1>a, <2>2 DEF Holders
  <2>5. Cardinality(owned') = Cardinality(owned) + 1
    BY <1>b, <2>1, <2>4, FS_AddElement
  <2>6. Running /\ Running' /\ memorySize' = memorySize /\ withdrawn' = withdrawn
    BY <1>8 DEF RequestPage, boot
  <2>7. usedMemory' = Cardinality(owned') + Cardinality(withdrawn')
    BY <1>b, <2>3, <2>5, <2>6 DEF Counted
  <2> QED
    BY <1>c, <2>3, <2>6, <2>7
<1>9. CASE RequestPageFails
  <2>1. Running /\ Running' /\ UNCHANGED <<memorySize, owned, withdrawn, bits>>
    BY <1>9 DEF RequestPageFails, boot
  <2>2. UNCHANGED counters
    BY <1>9 DEF RequestPageFails
  <2> QED
    BY <1>d, <2>1, <2>2
<1>10. ASSUME NEW f \in 0 .. BitCount, FreePage(f) PROVE Counted'
  <2>1. f \in Nat /\ FreeFrame(f) /\ owned' = owned \ {f} /\ Running /\ Running'
          /\ UNCHANGED <<memorySize, withdrawn>>
    BY <1>10, <1>a DEF FreePage, boot, TypeOK, BitCount
  <2>2. Sums
    BY <1>a, <2>1, Accounting
  <2>3. CASE f \in owned
    <3>1. f \in bits /\ InBitmap(f)
      BY <1>a, <2>3 DEF Holders, TypeOK, InBitmap, BitCount
    <3>2. usedMemory' = usedMemory - 1
      BY <2>1, <3>1 DEF FreeFrame, Get
    <3>3. Cardinality(owned') = Cardinality(owned) - 1
      BY <1>b, <2>1, <2>3, FS_RemoveElement
    <3>4. usedMemory' = Cardinality(owned') + Cardinality(withdrawn')
      BY <1>b, <2>1, <3>2, <3>3 DEF Counted
    <3> QED
      BY <1>c, <2>1, <2>2, <3>4
  <2>4. CASE f \notin owned
    <3>1. owned' = owned
      BY <2>1, <2>4
    <3>2. usedMemory' = usedMemory
      BY <1>10, <2>1, <2>4 DEF FreePage, FreeFrame, Unchanged, counters
    <3> QED
      BY <1>e, <2>1, <2>2, <3>1, <3>2
  <2> QED
    BY <2>3, <2>4
<1>11. ASSUME NEW f \in LockTargets, LockPage(f) PROVE Counted'
  BY <1>6, <1>11, LockAssumption DEF LockPage, boot
<1> QED
  BY <1>0, <1>1, <1>2, <1>3, <1>4, <1>5, <1>7, <1>8, <1>9, <1>10, <1>11
  DEF Next, Boot

\* The three counters add up to the memory, the free one follows the bitmap
\* and the used one what callers hold and locks took, modulo 2^64 bytes.
THEOREM CountersHold == Spec => []CountersTrackBitmap
<1>1. Init => Counted
  BY DEF Init, Counted
<1>2. IInv /\ Counted /\ [Next]_vars => Counted'
  BY CountStep
<1>3. IInv /\ Counted => CountersTrackBitmap
  <2> SUFFICES ASSUME IInv, Counted, phase \notin {"scan", "measure"}
               PROVE  \E stray \in {0, 1} : GetFreeRAM
                        = (memorySize + stray - Cardinality(bits)) % WordFrames
    BY DEF Counted, CountersTrackBitmap
  <2>1. freeMemory \in Int /\ memorySize \in Nat /\ Cardinality(bits) \in Nat
    BY Finite DEF IInv, TypeOK
  <2>2. PICK stray \in {0, 1} : (freeMemory + Cardinality(bits)) - memorySize = stray
    BY DEF Counted
  <2>3. freeMemory = memorySize + stray - Cardinality(bits)
    BY <2>1, <2>2
  <2> QED
    BY <2>3 DEF GetFreeRAM
<1> QED
  BY <1>1, <1>2, <1>3, Invariance, PTL DEF Spec
=============================================================================
