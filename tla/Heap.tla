--------------------------------- MODULE Heap ---------------------------------
(***************************************************************************)
(* The kernel heap: kernel/src/memory/heap.cpp (operator new and delete in *)
(* memory/dynamics.h are malloc and free).                                 *)
(*                                                                         *)
(* Addresses and lengths are bytes, at the scale of the code.  A segment   *)
(* header is seg[address]; a header that a merge swallowed is dropped from *)
(* seg, so that a link to it would show.  The search of malloc advances    *)
(* one segment per step; the pages that InitializeHeap and ExpandHeap map  *)
(* come from PageTableManager and are taken for granted here.              *)
(***************************************************************************)
EXTENDS Integers, FiniteSets

CONSTANTS Start,            \* address given to InitializeHeap, page aligned
          InitialPages,     \* page count given to InitializeHeap
          MaxPages,         \* bound: callers stop asking near this size
          Requests          \* sizes the callers ask for

HeaderSize == 32            \* sizeof(HeapSegmentHeader)
PageSize   == 4096
Unit       == 16
NULL       == 0

ASSUME StartAssumption == Start \in Nat /\ Start > 0 /\ Start % PageSize = 0
ASSUME PagesAssumption == InitialPages \in Nat \ {0} /\ MaxPages \in Nat
ASSUME RequestAssumption == Requests \subseteq Nat

VARIABLES
    heap,           \* [seg |-> headers by address, LastHdr |-> address]
    end,            \* first address after the heap
    nullLast,       \* what Split wrote through a NULL next, to NULL->last
    pc,             \* "idle", or "search" while malloc runs
    size,           \* the size being allocated, rounded up
    currentSeg,     \* the segment the search looks at
    expansions,     \* history: calls of ExpandHeap for this request
    held            \* history: address of a block held -> its size

vars == <<heap, end, nullLast, pc, size, currentSeg, expansions, held>>

seg     == heap.seg
LastHdr == heap.LastHdr

RoundUp(n, m) == IF n % m > 0 THEN n - (n % m) + m ELSE n

-----------------------------------------------------------------------------
(* Surgery on the list of segments.                                        *)

\* Mutant: the segment after the one swallowed keeps its old back link.
CombineForwardOneWay(h, a) ==
    LET n == h.seg[a].next IN
    IF n = NULL THEN h
    ELSE IF ~h.seg[n].free THEN h
    ELSE [seg |-> [x \in DOMAIN h.seg \ {n} |->
                     IF x = a
                     THEN [h.seg[a] EXCEPT !.length = @ + h.seg[n].length + HeaderSize,
                                           !.next = h.seg[n].next]
                     ELSE h.seg[x]],
          LastHdr |-> IF n = h.LastHdr THEN a ELSE h.LastHdr]

CombineForward(h, a) ==
    LET n == h.seg[a].next IN
    IF n = NULL THEN h
    ELSE IF ~h.seg[n].free THEN h
    ELSE LET nn == h.seg[n].next IN
         [seg |-> [x \in DOMAIN h.seg \ {n} |->
                     CASE x = a  -> [h.seg[a] EXCEPT
                                       !.length = @ + h.seg[n].length + HeaderSize,
                                       !.next = nn]
                       [] x = nn -> [h.seg[x] EXCEPT !.last = a]
                       [] OTHER  -> h.seg[x]],
          LastHdr |-> IF n = h.LastHdr THEN a ELSE h.LastHdr]

CombineBackward(h, a) ==
    LET p == h.seg[a].last IN
    IF p = NULL THEN h
    ELSE IF h.seg[p].free THEN CombineForward(h, p) ELSE h

\* Mutant: a rest of zero bytes is split off too.
SplitsAnyRest(h, a, n) == n >= Unit /\ h.seg[a].length - n - HeaderSize >= 0

\* Mutant: the length of the rest is compared as an unsigned number.
SplitsUnsigned(h, a, n) ==
    n >= Unit /\ h.seg[a].length - n - HeaderSize \notin 0 .. Unit - 1

\* Whether Split leaves a segment behind, and the heap when it does.
Splits(h, a, n) == n >= Unit /\ h.seg[a].length - n - HeaderSize >= Unit

SplitAt(h, a, n) ==
    LET new == a + n + HeaderSize
        nxt == h.seg[a].next
    IN  [seg |-> [x \in DOMAIN h.seg \cup {new} |->
                    CASE x = a   -> [h.seg[a] EXCEPT !.length = n, !.next = new]
                      [] x = new -> [length |-> h.seg[a].length - n - HeaderSize,
                                     next |-> nxt, last |-> a,
                                     free |-> h.seg[a].free]
                      [] x = nxt -> [h.seg[x] EXCEPT !.last = new]
                      [] OTHER   -> h.seg[x]],
         LastHdr |-> IF h.LastHdr = a THEN new ELSE h.LastHdr]

SetFree(h, a, value) == [h EXCEPT !.seg[a].free = value]

\* ExpandHeap links a segment of n bytes, header included, at address a.
Append(h, a, n) ==
    [seg |-> [x \in DOMAIN h.seg \cup {a} |->
                CASE x = a         -> [length |-> n - HeaderSize, next |-> NULL,
                                       last |-> h.LastHdr, free |-> TRUE]
                  [] x = h.LastHdr -> [h.seg[x] EXCEPT !.next = a]
                  [] OTHER         -> h.seg[x]],
     LastHdr |-> a]

-----------------------------------------------------------------------------
InitializeHeap ==
    LET heapLength == InitialPages * PageSize IN
    /\ heap = [seg |-> [a \in {Start} |->
                          [length |-> heapLength - HeaderSize, next |-> NULL,
                           last |-> NULL, free |-> TRUE]],
               LastHdr |-> Start]
    /\ end = Start + heapLength

Init ==
    /\ InitializeHeap
    /\ nullLast = NULL
    /\ pc = "idle" /\ size = 0 /\ currentSeg = Start /\ expansions = 0
    /\ held = [a \in {} |-> 0]

\* The bound: a caller asks only for what is there or may be added by two
\* expansions without passing MaxPages.
WithinBound(n) ==
    \/ end + 2 * RoundUp(n, PageSize) <= Start + MaxPages * PageSize
    \/ \E a \in DOMAIN seg : seg[a].free /\ seg[a].length >= n

\* malloc: the size is rounded up; 0 is answered with NULL at once, and the
\* state stays as it is.
Malloc(n) ==
    /\ pc = "idle"
    /\ WithinBound(RoundUp(n, Unit))
    /\ RoundUp(n, Unit) # 0
    /\ pc' = "search"
    /\ size' = RoundUp(n, Unit)
    /\ currentSeg' = Start
    /\ expansions' = 0
    /\ UNCHANGED <<heap, end, nullLast, held>>

Fits(a) == seg[a].free /\ seg[a].length >= size

Hold(a) ==
    /\ held' = [b \in DOMAIN held \cup {a} |-> IF b = a THEN size ELSE held[b]]
    /\ pc' = "idle"
    /\ size' = 0 /\ currentSeg' = Start /\ expansions' = 0
    /\ UNCHANGED end

\* A longer segment is split, unless the rest would be too small.
TakeSplit ==
    /\ pc = "search" /\ Fits(currentSeg)
    /\ seg[currentSeg].length > size /\ Splits(heap, currentSeg, size)
    /\ heap' = SetFree(SplitAt(heap, currentSeg, size), currentSeg, FALSE)
    /\ nullLast' = IF seg[currentSeg].next = NULL
                   THEN currentSeg + size + HeaderSize ELSE nullLast
    /\ Hold(currentSeg + HeaderSize)

\* Mutant: the length of the segment is not compared with the size.
TakeAnyFree ==
    /\ pc = "search" /\ seg[currentSeg].free /\ ~Splits(heap, currentSeg, size)
    /\ heap' = SetFree(heap, currentSeg, FALSE)
    /\ UNCHANGED nullLast
    /\ Hold(currentSeg + HeaderSize)

TakeWhole ==
    /\ pc = "search" /\ Fits(currentSeg)
    /\ seg[currentSeg].length = size \/ ~Splits(heap, currentSeg, size)
    /\ heap' = SetFree(heap, currentSeg, FALSE)
    /\ UNCHANGED nullLast
    /\ Hold(currentSeg + HeaderSize)

\* Mutant: a free segment that is too short is looked at again.
AdvanceOverHeld ==
    /\ pc = "search" /\ ~Fits(currentSeg)
    /\ seg[currentSeg].next # NULL
    /\ currentSeg' = IF seg[currentSeg].free THEN currentSeg ELSE seg[currentSeg].next
    /\ UNCHANGED <<heap, end, nullLast, pc, size, expansions, held>>

Advance ==
    /\ pc = "search" /\ ~Fits(currentSeg)
    /\ seg[currentSeg].next # NULL
    /\ currentSeg' = seg[currentSeg].next
    /\ UNCHANGED <<heap, end, nullLast, pc, size, expansions, held>>

\* Mutant: the new segment is not merged with a free one before it.
ExpandWithoutMerge ==
    /\ pc = "search" /\ ~Fits(currentSeg)
    /\ seg[currentSeg].next = NULL
    /\ LET length == RoundUp(size, PageSize) IN
       /\ heap' = Append(heap, end, length)
       /\ end' = end + length
    /\ currentSeg' = Start
    /\ expansions' = expansions + 1
    /\ UNCHANGED <<nullLast, pc, size, held>>

\* ExpandHeap, then malloc again from the first segment.
Expand ==
    /\ pc = "search" /\ ~Fits(currentSeg)
    /\ seg[currentSeg].next = NULL
    /\ LET length == RoundUp(size, PageSize) IN
       /\ heap' = CombineBackward(Append(heap, end, length), end)
       /\ end' = end + length
    /\ currentSeg' = Start
    /\ expansions' = expansions + 1
    /\ UNCHANGED <<nullLast, pc, size, held>>

\* Mutant: the segments before the one freed are not looked at.
FreeForwardOnly(b) ==
    /\ pc = "idle" /\ b \in DOMAIN held
    /\ LET a == b - HeaderSize IN
       heap' = CombineForward(SetFree(heap, a, TRUE), a)
    /\ held' = [x \in DOMAIN held \ {b} |-> held[x]]
    /\ UNCHANGED <<end, nullLast, pc, size, currentSeg, expansions>>

Free(b) ==
    /\ pc = "idle" /\ b \in DOMAIN held
    /\ LET a == b - HeaderSize IN
       heap' = CombineBackward(CombineForward(SetFree(heap, a, TRUE), a), a)
    /\ held' = [x \in DOMAIN held \ {b} |-> held[x]]
    /\ UNCHANGED <<end, nullLast, pc, size, currentSeg, expansions>>

MallocStep == TakeSplit \/ TakeWhole \/ Advance \/ Expand

Next ==
    \/ \E n \in Requests : Malloc(n)
    \/ MallocStep
    \/ \E b \in DOMAIN held : Free(b)

\* malloc and free run to their end with interrupts off: a call under way is
\* never abandoned.  Nobody has to call them.
Fairness == WF_vars(MallocStep)

Spec == Init /\ [][Next]_vars /\ Fairness

-----------------------------------------------------------------------------
(* Properties.                                                             *)

Segments == DOMAIN seg

TypeOK ==
    /\ Segments \subseteq Nat \ {NULL} /\ IsFiniteSet(Segments)
    /\ \A a \in Segments : seg[a] \in
          [length : Nat, next : Nat, last : Nat, free : BOOLEAN]
    /\ LastHdr \in Nat /\ end \in Nat /\ nullLast \in Nat
    /\ pc \in {"idle", "search"} /\ size \in Nat
    /\ pc = "search" => currentSeg \in Segments
    /\ DOMAIN held \subseteq Nat /\ \A b \in DOMAIN held : held[b] \in Nat

\* The segments tile the heap from Start to end, the links forward are the
\* links backward reversed, and LastHdr is the last segment, whatever
\* splits, merges and expansions came before.
Tiled ==
    /\ Start \in Segments /\ seg[Start].last = NULL
    /\ LastHdr \in Segments /\ seg[LastHdr].next = NULL
    /\ \A a \in Segments :
        LET next == seg[a].next
            top  == a + HeaderSize + seg[a].length
        IN  IF next = NULL THEN a = LastHdr /\ top = end
            ELSE /\ next \in Segments /\ top = next
                 /\ seg[next].last = a

\* Every segment length and address is a multiple of 16, so every block is
\* aligned as the code that stores pointers in it expects.
Aligned ==
    \A a \in Segments : a % Unit = 0 /\ seg[a].length % Unit = 0
                          /\ seg[a].length >= Unit

\* No two neighbours are both free: freed memory never stays in pieces.
Coalesced ==
    \A a \in Segments :
        seg[a].free /\ seg[a].next # NULL => ~seg[seg[a].next].free

\* The segments that are not free are those of the blocks held, each at least
\* as long as the block and at most a header and a remainder longer.
BlocksInSegments ==
    /\ {a \in Segments : ~seg[a].free} = {b - HeaderSize : b \in DOMAIN held}
    /\ \A b \in DOMAIN held :
          seg[b - HeaderSize].length - held[b] \in 0 .. HeaderSize

\* malloc calls itself at most twice: a page count rounded up and merged with
\* the free tail may be a header short once, never twice.
RecursionBounded == expansions <= 2

\* A request that began to search is answered.
MallocReturns == pc = "search" ~> pc = "idle"

Store == INSTANCE BlockStore WITH Base <- Start

\* Blocks held at the same time are disjoint.
ImplementsStore == Store!Spec
=============================================================================
