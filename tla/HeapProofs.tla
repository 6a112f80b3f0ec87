------------------------------ MODULE HeapProofs ------------------------------
(***************************************************************************)
(* Theorems about malloc and free, for every start, every size of the heap *)
(* and every sizes that are asked for.                                     *)
(*                                                                         *)
(* The list of segments is reasoned about locally, one neighbour at a      *)
(* time; that no segment lies inside another one is kept as an order of    *)
(* all of them.                                                            *)
(***************************************************************************)
EXTENDS Heap, FiniteSetTheorems, TLAPS

Header == [length : Nat, next : Nat, last : Nat, free : BOOLEAN]

Typed(h) ==
    /\ h \in [seg : [DOMAIN h.seg -> Header], LastHdr : Nat]
    /\ DOMAIN h.seg \subseteq Nat /\ IsFiniteSet(DOMAIN h.seg)

\* The first address after a segment.
Top(h, a) == a + HeaderSize + h.seg[a].length

Units(h) ==
    \A a \in DOMAIN h.seg :
        a % Unit = 0 /\ h.seg[a].length % Unit = 0 /\ h.seg[a].length >= Unit

Forward(h, e) ==
    /\ h.LastHdr \in DOMAIN h.seg /\ h.seg[h.LastHdr].next = NULL
    /\ \A a \in DOMAIN h.seg :
        LET next == h.seg[a].next IN
        IF next = NULL THEN a = h.LastHdr /\ Top(h, a) = e
        ELSE next \in DOMAIN h.seg /\ Top(h, a) = next /\ h.seg[next].last = a

\* Every segment but the first one follows one.
Backward(h) ==
    /\ Start \in DOMAIN h.seg
    /\ \A a \in DOMAIN h.seg :
        LET last == h.seg[a].last IN
        IF a = Start THEN last = NULL
        ELSE last \in DOMAIN h.seg /\ h.seg[last].next = a

\* No segment reaches into another one or out of the heap.
Ordered(h, e) ==
    /\ \A a \in DOMAIN h.seg : Start <= a /\ Top(h, a) <= e
    /\ \A a, b \in DOMAIN h.seg : a < b => Top(h, a) <= b

Sound(h, e) == Typed(h) /\ Units(h) /\ Forward(h, e) /\ Backward(h) /\ Ordered(h, e)

\* A free segment is followed by one that is held.
Joint(h, a) == h.seg[a].free /\ h.seg[a].next # NULL => ~h.seg[h.seg[a].next].free

\* The segments that are not free are those of the blocks.
Blocks(h, blocks) ==
    /\ \A a \in DOMAIN h.seg : ~h.seg[a].free <=> a + HeaderSize \in DOMAIN blocks
    /\ \A b \in DOMAIN blocks :
        /\ b \in Nat /\ b - HeaderSize \in DOMAIN h.seg
        /\ blocks[b] \in Nat /\ h.seg[b - HeaderSize].length - blocks[b] \in 0 .. HeaderSize

\* What malloc looks for, and how long the last segment is after an expansion.
Search(h) ==
    /\ pc \in {"idle", "search"} /\ size \in Nat /\ size % Unit = 0
    /\ pc = "search" => size >= Unit /\ currentSeg \in DOMAIN h.seg
    /\ expansions \in 0 .. 2
    /\ expansions > 0 => /\ h.seg[h.LastHdr].free
                         /\ h.seg[h.LastHdr].length >= RoundUp(size, PageSize) - HeaderSize
    /\ expansions = 2 => h.seg[h.LastHdr].length >= size
    /\ pc = "idle" => expansions = 0

IInv ==
    /\ Sound(heap, end) /\ end \in Nat /\ nullLast \in Nat
    /\ \A a \in DOMAIN heap.seg : Joint(heap, a)
    /\ Blocks(heap, held)
    /\ Search(heap)

-----------------------------------------------------------------------------
(* Lemmas about numbers.                                                     *)

\* Rounding up gives the next multiple.
LEMMA RoundUpUnit ==
    ASSUME NEW n \in Nat
    PROVE  RoundUp(n, Unit) \in Nat /\ RoundUp(n, Unit) % Unit = 0 /\ RoundUp(n, Unit) >= n
  BY DEF RoundUp, Unit

\* The pages asked for are at least one, when a size is.
LEMMA RoundUpPage ==
    ASSUME NEW n \in Nat
    PROVE  /\ RoundUp(n, PageSize) \in Nat /\ RoundUp(n, PageSize) % Unit = 0
           /\ RoundUp(n, PageSize) >= n /\ (n > 0 => RoundUp(n, PageSize) >= PageSize)
<1>1. /\ RoundUp(n, PageSize) \in Nat /\ RoundUp(n, PageSize) % PageSize = 0
      /\ RoundUp(n, PageSize) >= n
  BY DEF RoundUp, PageSize
<1>2. \A m \in Nat : m % PageSize = 0 => m % Unit = 0 /\ (m > 0 => m >= PageSize)
  BY DEF Unit, PageSize
<1> QED
  BY <1>1, <1>2

\* The heap starts at a multiple of Unit.
LEMMA StartUnit == Start \in Nat /\ Start > 0 /\ Start % Unit = 0
<1>1. \A m \in Nat : m % PageSize = 0 => m % Unit = 0
  BY DEF Unit, PageSize
<1> QED
  BY <1>1, StartAssumption

\* Sums and differences of multiples of Unit are multiples of Unit.
LEMMA UnitSums ==
    ASSUME NEW m \in Int, NEW n \in Int, m % Unit = 0, n % Unit = 0
    PROVE  (m + n) % Unit = 0 /\ (m - n) % Unit = 0 /\ (m + HeaderSize) % Unit = 0 /\ (m - HeaderSize) % Unit = 0
  BY DEF Unit, HeaderSize

-----------------------------------------------------------------------------
(* Lemmas about the list.                                                    *)

\* A segment's fields.
LEMMA Fields ==
    ASSUME NEW h, NEW e \in Nat, Sound(h, e), NEW a \in DOMAIN h.seg
    PROVE  /\ a \in Nat /\ a > 0 /\ Start <= a
           /\ h.seg[a].length \in Nat /\ h.seg[a].length >= Unit
           /\ h.seg[a].next \in Nat /\ h.seg[a].last \in Nat /\ h.seg[a].free \in BOOLEAN
           /\ h.seg[a] \in Header
           /\ Top(h, a) \in Nat /\ Top(h, a) > a + HeaderSize /\ Top(h, a) <= e
<1>1. h.seg \in [DOMAIN h.seg -> Header] /\ a \in Nat
  BY DEF Sound, Typed
<1>2. h.seg[a] \in Header
  BY <1>1
<1>3. /\ h.seg[a].length \in Nat /\ h.seg[a].next \in Nat
      /\ h.seg[a].last \in Nat /\ h.seg[a].free \in BOOLEAN
  BY <1>2 DEF Header
<1>4. h.seg[a].length >= Unit /\ Start <= a /\ Top(h, a) <= e
  BY DEF Sound, Units, Ordered
<1> QED
  BY <1>1, <1>2, <1>3, <1>4, StartUnit DEF Top, HeaderSize, Unit

\* The list g is h with the mark of segment a set to value.
Marked(g, h, a, value) ==
    /\ g \in [seg : [DOMAIN h.seg -> Header], LastHdr : Nat]
    /\ DOMAIN g.seg = DOMAIN h.seg
    /\ g.LastHdr = h.LastHdr
    /\ \A x \in DOMAIN h.seg :
         /\ g.seg[x].length = h.seg[x].length
         /\ g.seg[x].next = h.seg[x].next
         /\ g.seg[x].last = h.seg[x].last
         /\ g.seg[x].free = IF x = a THEN value ELSE h.seg[x].free

\* Setting the mark of a segment changes nothing else.
LEMMA SetFreeFields ==
    ASSUME NEW h, NEW e \in Nat, Sound(h, e), NEW a \in DOMAIN h.seg, NEW value \in BOOLEAN
    PROVE  Marked(SetFree(h, a, value), h, a, value)
<1> DEFINE new == [h.seg[a] EXCEPT !.free = value]
           s   == [h.seg EXCEPT ![a] = new]
<1>1. SetFree(h, a, value) = [h EXCEPT !.seg = s]
  BY DEF SetFree
<1>2. h.seg \in [DOMAIN h.seg -> Header] /\ h.LastHdr \in Nat /\ h \in [seg : [DOMAIN h.seg -> Header], LastHdr : Nat]
  BY DEF Sound, Typed
<1>3. new \in Header /\ new.length = h.seg[a].length /\ new.next = h.seg[a].next
      /\ new.last = h.seg[a].last /\ new.free = value
  BY <1>2 DEF Header
<1> HIDE DEF new
<1>4. s \in [DOMAIN h.seg -> Header] /\ \A x \in DOMAIN h.seg : s[x] = IF x = a THEN new ELSE h.seg[x]
  BY <1>2, <1>3
<1> HIDE DEF s
<1>5. SetFree(h, a, value) = [seg |-> s, LastHdr |-> h.LastHdr]
  BY <1>1, <1>2
<1>6. SetFree(h, a, value).seg = s /\ SetFree(h, a, value).LastHdr = h.LastHdr
  BY <1>5
<1>7. SetFree(h, a, value) \in [seg : [DOMAIN h.seg -> Header], LastHdr : Nat]
  BY <1>2, <1>4, <1>5
<1> QED
  BY <1>3, <1>4, <1>6, <1>7 DEF Marked

\* And so it keeps the list sound.
LEMMA SetFreeSound ==
    ASSUME NEW h, NEW e \in Nat, Sound(h, e), NEW a \in DOMAIN h.seg, NEW value \in BOOLEAN
    PROVE  Sound(SetFree(h, a, value), e)
<1> DEFINE g == SetFree(h, a, value)
<1>1. /\ g \in [seg : [DOMAIN h.seg -> Header], LastHdr : Nat]
      /\ DOMAIN g.seg = DOMAIN h.seg /\ g.LastHdr = h.LastHdr
      /\ \A x \in DOMAIN h.seg : /\ g.seg[x].length = h.seg[x].length
                                 /\ g.seg[x].next = h.seg[x].next
                                 /\ g.seg[x].last = h.seg[x].last
  BY SetFreeFields DEF Marked
<1> HIDE DEF g
<1>2. \A x \in DOMAIN h.seg : Top(g, x) = Top(h, x)
  BY <1>1 DEF Top
<1>3. Typed(g) /\ Units(g)
  BY <1>1 DEF Sound, Typed, Units
<1>4. Forward(g, e)
  BY <1>1, <1>2 DEF Sound, Forward
<1>5. Backward(g)
  BY <1>1 DEF Sound, Backward
<1>6. Ordered(g, e)
  BY <1>1, <1>2 DEF Sound, Ordered
<1> QED
  BY <1>3, <1>4, <1>5, <1>6 DEF Sound, g

\* The neighbours of a segment that is followed by another one.
LEMMA Neighbours ==
    ASSUME NEW h, NEW e \in Nat, Sound(h, e), NEW a \in DOMAIN h.seg, h.seg[a].next # NULL
    PROVE  LET n  == h.seg[a].next
               nn == h.seg[n].next
           IN  /\ n \in DOMAIN h.seg /\ n = Top(h, a) /\ a < n /\ n # Start
               /\ h.seg[n].last = a
               /\ a # h.LastHdr
               /\ nn # NULL => /\ nn \in DOMAIN h.seg /\ nn = Top(h, n) /\ n < nn
                               /\ h.seg[nn].last = n
               /\ nn = NULL <=> n = h.LastHdr
               /\ nn = NULL => Top(h, n) = e
               /\ \A x \in DOMAIN h.seg : h.seg[x].next = n <=> x = a
               /\ \A x \in DOMAIN h.seg : h.seg[x].last = n <=> x = nn
               /\ \A x \in DOMAIN h.seg : a < x /\ x # n => Top(h, n) <= x
<1> DEFINE n  == h.seg[a].next
           nn == h.seg[n].next
<1>1. n \in DOMAIN h.seg /\ n = Top(h, a) /\ h.seg[n].last = a /\ a # h.LastHdr
  BY DEF Sound, Forward
<1>2. a \in Nat /\ a < n /\ a > 0 /\ Start <= a
  BY <1>1, Fields DEF HeaderSize
<1>3. n # Start
  BY <1>1, <1>2, StartUnit
<1>4. nn # NULL => nn \in DOMAIN h.seg /\ nn = Top(h, n) /\ n < nn /\ h.seg[nn].last = n
  <2>1. nn # NULL => nn \in DOMAIN h.seg /\ nn = Top(h, n) /\ h.seg[nn].last = n
    BY <1>1 DEF Sound, Forward
  <2>2. n \in Nat /\ n + HeaderSize < Top(h, n)
    BY <1>1, Fields
  <2> QED
    BY <2>1, <2>2, Fields DEF HeaderSize
<1>5. (nn = NULL <=> n = h.LastHdr) /\ (nn = NULL => Top(h, n) = e)
  BY <1>1 DEF Sound, Forward
<1>6. \A x \in DOMAIN h.seg : h.seg[x].next = n <=> x = a
  <2>1. n # NULL
    OBVIOUS
  <2> QED
    BY <1>1, <2>1 DEF Sound, Forward
<1>7. \A x \in DOMAIN h.seg : h.seg[x].last = n <=> x = nn
  <2> SUFFICES ASSUME NEW x \in DOMAIN h.seg
               PROVE  h.seg[x].last = n <=> x = nn
    OBVIOUS
  <2>1. h.seg[x].last = n => x = nn
    BY <1>1 DEF Sound, Backward
  <2>2. x = nn => h.seg[x].last = n
    <3>1. x # NULL
      BY Fields DEF NULL
    <3> QED
      BY <1>4, <3>1
  <2> QED
    BY <2>1, <2>2
<1>8. \A x \in DOMAIN h.seg : a < x /\ x # n => Top(h, n) <= x
  <2> SUFFICES ASSUME NEW x \in DOMAIN h.seg, a < x, x # n
               PROVE  Top(h, n) <= x
    OBVIOUS
  <2>1. n <= x
    BY <1>1 DEF Sound, Ordered
  <2>2. n < x
    BY <1>1, <2>1, Fields
  <2> QED
    BY <1>1, <2>2 DEF Sound, Ordered
<1> QED
  BY <1>1, <1>2, <1>3, <1>4, <1>5, <1>6, <1>7, <1>8

\* The list g is h with the segment after a merged into a.
Merged(g, h, a) ==
    LET n  == h.seg[a].next
        nn == h.seg[n].next
    IN  /\ g \in [seg : [DOMAIN h.seg \ {n} -> Header], LastHdr : Nat]
        /\ DOMAIN g.seg = DOMAIN h.seg \ {n}
        /\ g.LastHdr = IF n = h.LastHdr THEN a ELSE h.LastHdr
        /\ \A x \in DOMAIN h.seg \ {n} :
             /\ g.seg[x].length = IF x = a THEN h.seg[a].length + h.seg[n].length + HeaderSize
                                  ELSE h.seg[x].length
             /\ g.seg[x].next = IF x = a THEN nn ELSE h.seg[x].next
             /\ g.seg[x].last = IF x = nn THEN a ELSE h.seg[x].last
             /\ g.seg[x].free = h.seg[x].free

\* A segment that swallows the free one after it: what changes.  (heap.cpp 106-119)
LEMMA MergeFields ==
    ASSUME NEW h, NEW e \in Nat, Sound(h, e), NEW a \in DOMAIN h.seg,
           h.seg[a].next # NULL, h.seg[h.seg[a].next].free
    PROVE  Merged(CombineForward(h, a), h, a)
<1> DEFINE n  == h.seg[a].next
           nn == h.seg[n].next
           g  == CombineForward(h, a)
           length == h.seg[a].length + h.seg[n].length + HeaderSize
           longer == [h.seg[a] EXCEPT !.length = length, !.next = nn]
           linked(x) == [h.seg[x] EXCEPT !.last = a]
           s == [x \in DOMAIN h.seg \ {n} |->
                   CASE x = a -> longer [] x = nn -> linked(x) [] OTHER -> h.seg[x]]
           l == IF n = h.LastHdr THEN a ELSE h.LastHdr
<1>1. g = [seg |-> s, LastHdr |-> l]
  BY DEF CombineForward
<1>2. n \in DOMAIN h.seg /\ a < n /\ a # nn
  <2>1. n \in DOMAIN h.seg /\ a < n /\ (nn # NULL => n < nn)
    BY Neighbours
  <2>2. a \in Nat /\ a # NULL /\ n \in Nat /\ nn \in Nat
    BY <2>1, Fields DEF NULL
  <2> QED
    BY <2>1, <2>2
<1>3. \A x \in DOMAIN h.seg : h.seg[x] \in Header
  BY Fields
<1>4. a \in Nat /\ h.LastHdr \in Nat
  BY Fields DEF Sound, Typed
<1>5. /\ longer \in Header
      /\ longer.length = length
      /\ longer.next = nn /\ longer.last = h.seg[a].last /\ longer.free = h.seg[a].free
  <2>1. h.seg[a] \in Header /\ h.seg[n].length \in Nat /\ nn \in Nat
    BY <1>2, <1>3, Fields
  <2>2. length \in Nat
    BY <2>1 DEF Header, HeaderSize
  <2> HIDE DEF n, nn, length
  <2> QED
    BY <2>1, <2>2 DEF Header
<1>6. ASSUME NEW x \in DOMAIN h.seg
      PROVE  /\ linked(x) \in Header
             /\ linked(x).length = h.seg[x].length /\ linked(x).next = h.seg[x].next
             /\ linked(x).last = a /\ linked(x).free = h.seg[x].free
  BY <1>3, <1>4 DEF Header
<1> HIDE DEF longer, linked
<1>7. /\ s \in [DOMAIN h.seg \ {n} -> Header]
      /\ s[a] = longer /\ a \in DOMAIN h.seg \ {n}
      /\ \A x \in DOMAIN h.seg \ {n} : x # a => s[x] = IF x = nn THEN linked(x) ELSE h.seg[x]
  BY <1>2, <1>3, <1>4, <1>5, <1>6, Fields
<1> HIDE DEF s
<1>8. g.seg = s /\ g.LastHdr = l /\ DOMAIN g.seg = DOMAIN h.seg \ {n}
  BY <1>1, <1>7
<1>9. g \in [seg : [DOMAIN h.seg \ {n} -> Header], LastHdr : Nat]
  BY <1>1, <1>4, <1>7
<1>10. ASSUME NEW x \in DOMAIN h.seg \ {n}
       PROVE  /\ g.seg[x].length = IF x = a THEN h.seg[a].length + h.seg[n].length + HeaderSize
                                   ELSE h.seg[x].length
              /\ g.seg[x].next = IF x = a THEN nn ELSE h.seg[x].next
              /\ g.seg[x].last = IF x = nn THEN a ELSE h.seg[x].last
              /\ g.seg[x].free = h.seg[x].free
  <2> HIDE DEF n, nn, g
  <2>1. CASE x = a
    BY <1>2, <1>5, <1>7, <1>8, <2>1
  <2>2. CASE x # a
    BY <1>6, <1>7, <1>8, <2>2
  <2> QED
    BY <2>1, <2>2
<1>11. Merged(g, h, a)
  BY <1>8, <1>9, <1>10 DEF Merged
<1> QED
  BY <1>11 DEF g

\* A merge keeps the list sound.
LEMMA MergeSound ==
    ASSUME NEW h, NEW e \in Nat, Sound(h, e), NEW a \in DOMAIN h.seg,
           h.seg[a].next # NULL, h.seg[h.seg[a].next].free
    PROVE  Sound(CombineForward(h, a), e)
<1> DEFINE n  == h.seg[a].next
           nn == h.seg[n].next
           g  == CombineForward(h, a)
           S  == DOMAIN h.seg \ {n}
<1>1. /\ n \in DOMAIN h.seg /\ n = Top(h, a) /\ a < n /\ n # Start /\ a # h.LastHdr
      /\ nn # NULL => nn \in DOMAIN h.seg /\ nn = Top(h, n) /\ n < nn
      /\ nn = NULL <=> n = h.LastHdr
      /\ nn = NULL => Top(h, n) = e
      /\ \A x \in DOMAIN h.seg : h.seg[x].next = n <=> x = a
      /\ \A x \in DOMAIN h.seg : h.seg[x].last = n <=> x = nn
      /\ \A x \in DOMAIN h.seg : a < x /\ x # n => Top(h, n) <= x
  BY Neighbours
<1>2. /\ g \in [seg : [S -> Header], LastHdr : Nat]
      /\ DOMAIN g.seg = S
      /\ g.LastHdr = IF n = h.LastHdr THEN a ELSE h.LastHdr
      /\ \A x \in S :
            /\ g.seg[x].length = IF x = a THEN h.seg[a].length + h.seg[n].length + HeaderSize
                                 ELSE h.seg[x].length
            /\ g.seg[x].next = IF x = a THEN nn ELSE h.seg[x].next
            /\ g.seg[x].last = IF x = nn THEN a ELSE h.seg[x].last
  <2>1. Merged(g, h, a)
    BY MergeFields
  <2> HIDE DEF g
  <2> QED
    BY <2>1 DEF Merged
<1>3. /\ \A x \in DOMAIN h.seg : /\ x \in Nat /\ Start <= x /\ x # NULL
                                 /\ h.seg[x].length \in Nat /\ h.seg[x].length >= Unit
                                 /\ Top(h, x) \in Nat /\ Top(h, x) <= e
  BY Fields DEF NULL
<1>4. a \in S /\ Start \in S /\ (nn # NULL => nn \in S)
  <2>1. Start \in DOMAIN h.seg
    BY DEF Sound, Backward
  <2> QED
    BY <1>1, <1>3, <2>1
<1> HIDE DEF n, nn, g
<1>5. \A x \in S : Top(g, x) = IF x = a THEN Top(h, n) ELSE Top(h, x)
  BY <1>1, <1>2, <1>3 DEF Top, HeaderSize
<1>6. Typed(g)
  <2>1. IsFiniteSet(S) /\ S \subseteq Nat
    BY FS_Subset DEF Sound, Typed
  <2> QED
    BY <1>2, <2>1 DEF Typed
<1>7. Units(g)
  <2>1. \A x \in DOMAIN h.seg : x % Unit = 0 /\ h.seg[x].length % Unit = 0
    BY DEF Sound, Units
  <2>2. (h.seg[a].length + h.seg[n].length) % Unit = 0
    <3>1. h.seg[a].length \in Int /\ h.seg[n].length \in Int
      BY <1>1, <1>3
    <3>2. h.seg[a].length % Unit = 0 /\ h.seg[n].length % Unit = 0
      BY <1>1, <2>1
    <3> QED
      BY <3>1, <3>2, UnitSums
  <2>3. ((h.seg[a].length + h.seg[n].length) + HeaderSize) % Unit = 0
    BY <1>1, <1>3, <2>2 DEF Unit, HeaderSize
  <2>4. h.seg[a].length + h.seg[n].length + HeaderSize >= Unit
    BY <1>1, <1>3 DEF Unit, HeaderSize
  <2> QED
    BY <1>2, <2>1, <2>3, <2>4, <1>3 DEF Units
<1>8. Forward(g, e)
  <2>1. g.LastHdr \in S /\ g.seg[g.LastHdr].next = NULL
    BY <1>1, <1>2, <1>4 DEF Sound, Forward
  <2>2. ASSUME NEW x \in S, g.seg[x].next = NULL
        PROVE  x = g.LastHdr /\ Top(g, x) = e
    BY <1>1, <1>2, <1>4, <1>5, <2>2 DEF Sound, Forward
  <2>3. ASSUME NEW x \in S, g.seg[x].next # NULL
        PROVE  /\ g.seg[x].next \in S /\ Top(g, x) = g.seg[x].next
               /\ g.seg[g.seg[x].next].last = x
    <3>1. CASE x = a
      BY <1>1, <1>2, <1>4, <1>5, <2>3, <3>1
    <3>2. CASE x # a
      <4>1. /\ h.seg[x].next # NULL /\ h.seg[x].next \in DOMAIN h.seg /\ Top(h, x) = h.seg[x].next
            /\ h.seg[h.seg[x].next].last = x /\ h.seg[x].next # n
        BY <1>1, <1>2, <2>3, <3>2 DEF Sound, Forward
      <4>2. h.seg[x].next # nn
        BY <1>1, <4>1
      <4> QED
        BY <1>2, <1>5, <3>2, <4>1, <4>2
    <3> QED
      BY <3>1, <3>2
  <2> QED
    BY <1>2, <2>1, <2>2, <2>3 DEF Forward
<1>9. Backward(g)
  <2>1. ASSUME NEW x \in S
        PROVE  IF x = Start THEN g.seg[x].last = NULL
               ELSE g.seg[x].last \in S /\ g.seg[g.seg[x].last].next = x
    <3>1. IF x = Start THEN h.seg[x].last = NULL
          ELSE h.seg[x].last \in DOMAIN h.seg /\ h.seg[h.seg[x].last].next = x
      BY DEF Sound, Backward
    <3>2. CASE x = nn
      <4>1. x # Start
        BY <1>1, <1>3, <3>2
      <4> QED
        BY <1>2, <1>4, <3>2, <4>1
    <3>3. CASE x # nn
      BY <1>1, <1>2, <3>1, <3>3
    <3> QED
      BY <3>2, <3>3
  <2> QED
    BY <1>2, <1>4, <2>1 DEF Backward
<1>10. Ordered(g, e)
  <2>1. \A x \in S : Start <= x /\ Top(g, x) <= e
    BY <1>1, <1>3, <1>5
  <2>2. ASSUME NEW x \in S, NEW y \in S, x < y
        PROVE  Top(g, x) <= y
    <3>1. CASE x = a
      BY <1>1, <1>5, <2>2, <3>1
    <3>2. CASE x # a
      <4>1. Top(h, x) <= y
        BY <2>2 DEF Sound, Ordered
      <4> QED
        BY <1>5, <3>2, <4>1
    <3> QED
      BY <3>1, <3>2
  <2> QED
    BY <1>2, <2>1, <2>2 DEF Ordered
<1> QED
  BY <1>6, <1>7, <1>8, <1>9, <1>10 DEF Sound, g

\* The segment that Split cuts off lies inside the one that is split.
LEMMA SplitPlace ==
    ASSUME NEW h, NEW e \in Nat, Sound(h, e), NEW a \in DOMAIN h.seg,
           NEW n \in Nat, n % Unit = 0, Splits(h, a, n)
    PROVE  LET new  == a + n + HeaderSize
               rest == h.seg[a].length - n - HeaderSize
           IN  /\ new \in Nat /\ a + HeaderSize < new /\ new # NULL
               /\ new + HeaderSize + rest = Top(h, a)
               /\ rest \in Nat /\ rest >= Unit /\ rest % Unit = 0
               /\ n >= Unit /\ new % Unit = 0
               /\ new \notin DOMAIN h.seg
<1> DEFINE new  == a + n + HeaderSize
           rest == h.seg[a].length - n - HeaderSize
           len  == h.seg[a].length
<1>1. a \in Nat /\ len \in Nat /\ a % Unit = 0 /\ len % Unit = 0
  BY Fields DEF Sound, Units
<1>2. n >= Unit /\ rest >= Unit
  BY DEF Splits
<1>3. Top(h, a) = a + HeaderSize + len
  BY DEF Top
<1> HIDE DEF len
<1>4. (a + n) % Unit = 0 /\ (len - n) % Unit = 0
  BY <1>1, UnitSums
<1>5. new \in Nat /\ a + HeaderSize < new /\ rest \in Nat
      /\ new + HeaderSize + rest = Top(h, a) /\ new < Top(h, a)
  <2>1. rest = len - n - HeaderSize
    BY DEF len
  <2> HIDE DEF rest
  <2> QED
    BY <1>1, <1>2, <1>3, <2>1 DEF Unit, HeaderSize
<1>6. new % Unit = 0 /\ rest % Unit = 0
  <2>1. ((a + n) + HeaderSize) % Unit = 0 /\ ((len - n) - HeaderSize) % Unit = 0
    BY <1>1, <1>4 DEF Unit, HeaderSize
  <2>2. new = (a + n) + HeaderSize /\ rest = (len - n) - HeaderSize
    BY <1>1 DEF len, HeaderSize
  <2> QED
    BY <2>1, <2>2
<1>7. new \notin DOMAIN h.seg
  <2>1. new \in DOMAIN h.seg => Top(h, a) <= new
    BY <1>1, <1>5 DEF Sound, Ordered, HeaderSize
  <2>2. Top(h, a) \in Nat
    BY Fields
  <2> QED
    BY <1>5, <2>1, <2>2
<1>8. new # NULL
  <2> HIDE DEF new
  <2> QED
    BY <1>1, <1>5 DEF NULL, HeaderSize
<1> QED
  BY <1>2, <1>5, <1>6, <1>7, <1>8

\* The list g is h with segment a cut to n bytes and the rest put at new.
CutInTwo(g, h, a, n, new) ==
    LET nxt == h.seg[a].next IN
    /\ g \in [seg : [DOMAIN h.seg \cup {new} -> Header], LastHdr : Nat]
    /\ DOMAIN g.seg = DOMAIN h.seg \cup {new}
    /\ g.LastHdr = IF h.LastHdr = a THEN new ELSE h.LastHdr
    /\ g.seg[new].length = h.seg[a].length - n - HeaderSize /\ g.seg[new].next = nxt
    /\ g.seg[new].last = a /\ g.seg[new].free = h.seg[a].free
    /\ \A x \in DOMAIN h.seg :
         /\ g.seg[x].length = IF x = a THEN n ELSE h.seg[x].length
         /\ g.seg[x].next = IF x = a THEN new ELSE h.seg[x].next
         /\ g.seg[x].last = IF x = nxt THEN new ELSE h.seg[x].last
         /\ g.seg[x].free = h.seg[x].free

\* What changes when a segment is split.  (heap.cpp 64-80)
LEMMA SplitFields ==
    ASSUME NEW h, NEW e \in Nat, Sound(h, e), NEW a \in DOMAIN h.seg,
           NEW n \in Nat, n % Unit = 0, Splits(h, a, n)
    PROVE  CutInTwo(SplitAt(h, a, n), h, a, n, a + n + HeaderSize)
<1> DEFINE new  == a + n + HeaderSize
           rest == h.seg[a].length - n - HeaderSize
           nxt  == h.seg[a].next
           g    == SplitAt(h, a, n)
           shorter == [h.seg[a] EXCEPT !.length = n, !.next = new]
           cut == [length |-> rest, next |-> nxt, last |-> a, free |-> h.seg[a].free]
           linked(x) == [h.seg[x] EXCEPT !.last = new]
           s == [x \in DOMAIN h.seg \cup {new} |->
                   CASE x = a -> shorter [] x = new -> cut
                     [] x = nxt -> linked(x) [] OTHER -> h.seg[x]]
           l == IF h.LastHdr = a THEN new ELSE h.LastHdr
<1>1. g = [seg |-> s, LastHdr |-> l]
  BY DEF SplitAt
<1>2. new \in Nat /\ rest \in Nat /\ new \notin DOMAIN h.seg
  BY SplitPlace
<1>3. \A x \in DOMAIN h.seg : h.seg[x] \in Header
  BY Fields
<1>4. a \in Nat /\ h.LastHdr \in Nat /\ nxt \in Nat /\ h.seg[a].free \in BOOLEAN /\ a # nxt
  <2>1. a \in Nat /\ a # NULL /\ h.LastHdr \in Nat /\ nxt \in Nat /\ h.seg[a].free \in BOOLEAN
    BY Fields DEF Sound, Typed, NULL
  <2>2. nxt # NULL => a < nxt
    BY Neighbours
  <2> QED
    BY <2>1, <2>2
<1> HIDE DEF new, rest, nxt, g
<1>5. /\ shorter \in Header /\ shorter.length = n /\ shorter.next = new
      /\ shorter.last = h.seg[a].last /\ shorter.free = h.seg[a].free
  BY <1>2, <1>3 DEF Header
<1>6. /\ cut \in Header /\ cut.length = rest /\ cut.next = nxt
      /\ cut.last = a /\ cut.free = h.seg[a].free
  BY <1>2, <1>4 DEF Header
<1>7. ASSUME NEW x \in DOMAIN h.seg
      PROVE  /\ linked(x) \in Header
             /\ linked(x).length = h.seg[x].length /\ linked(x).next = h.seg[x].next
             /\ linked(x).last = new /\ linked(x).free = h.seg[x].free
  BY <1>2, <1>3 DEF Header
<1> HIDE DEF shorter, cut, linked
<1>8. /\ s \in [DOMAIN h.seg \cup {new} -> Header]
      /\ s[a] = shorter /\ s[new] = cut
      /\ \A x \in DOMAIN h.seg : x # a => s[x] = IF x = nxt THEN linked(x) ELSE h.seg[x]
  <2>1. ASSUME NEW x \in DOMAIN h.seg, x # a
        PROVE  s[x] = IF x = nxt THEN linked(x) ELSE h.seg[x]
    <3>1. x # new
      BY <1>2
    <3> QED
      BY <2>1, <3>1
  <2>2. s[a] = shorter /\ s[new] = cut
    <3>1. a # new /\ new # nxt
      <4>1. new # NULL /\ (nxt # NULL => nxt \in DOMAIN h.seg)
        BY SplitPlace DEF Sound, Forward, new, nxt
      <4> QED
        BY <1>2, <4>1
    <3>2. s[a] = shorter
      BY <1>4, <3>1
    <3>3. s[new] = cut
      BY <3>1
    <3> QED
      BY <3>2, <3>3
  <2>3. \A x \in DOMAIN h.seg \cup {new} : s[x] \in Header
    BY <1>3, <1>5, <1>6, <1>7, <2>1, <2>2
  <2>4. s = [x \in DOMAIN h.seg \cup {new} |-> s[x]]
    OBVIOUS
  <2> HIDE DEF s
  <2> QED
    BY <2>1, <2>2, <2>3, <2>4
<1> HIDE DEF s
<1>9. g.seg = s /\ g.LastHdr = l /\ DOMAIN g.seg = DOMAIN h.seg \cup {new}
  BY <1>1, <1>8
<1>10. g \in [seg : [DOMAIN h.seg \cup {new} -> Header], LastHdr : Nat]
  BY <1>1, <1>2, <1>4, <1>8
<1>11. ASSUME NEW x \in DOMAIN h.seg
       PROVE  /\ g.seg[x].length = IF x = a THEN n ELSE h.seg[x].length
              /\ g.seg[x].next = IF x = a THEN new ELSE h.seg[x].next
              /\ g.seg[x].last = IF x = nxt THEN new ELSE h.seg[x].last
              /\ g.seg[x].free = h.seg[x].free
  <2>1. CASE x = a
    BY <1>4, <1>5, <1>8, <1>9, <2>1
  <2>2. CASE x # a
    BY <1>7, <1>8, <1>9, <2>2
  <2> QED
    BY <2>1, <2>2
<1>12. g.seg[new].length = rest /\ g.seg[new].next = nxt
       /\ g.seg[new].last = a /\ g.seg[new].free = h.seg[a].free
  BY <1>6, <1>8, <1>9
<1> QED
  <2>1. CutInTwo(g, h, a, n, new)
    BY <1>9, <1>10, <1>11, <1>12 DEF CutInTwo, rest, nxt
  <2> QED
    BY <2>1 DEF g, new

\* Splitting a segment keeps the list sound.
LEMMA SplitSound ==
    ASSUME NEW h, NEW e \in Nat, Sound(h, e), NEW a \in DOMAIN h.seg,
           NEW n \in Nat, n % Unit = 0, Splits(h, a, n)
    PROVE  Sound(SplitAt(h, a, n), e)
<1> DEFINE new  == a + n + HeaderSize
           rest == h.seg[a].length - n - HeaderSize
           nxt  == h.seg[a].next
           g    == SplitAt(h, a, n)
           S    == DOMAIN h.seg \cup {new}
<1>1. /\ new \in Nat /\ a + HeaderSize < new /\ new # NULL
      /\ new + HeaderSize + rest = Top(h, a)
      /\ rest \in Nat /\ rest >= Unit /\ rest % Unit = 0
      /\ n >= Unit /\ new % Unit = 0
      /\ new \notin DOMAIN h.seg
  BY SplitPlace
<1>2. /\ g \in [seg : [S -> Header], LastHdr : Nat]
      /\ DOMAIN g.seg = S
      /\ g.LastHdr = IF h.LastHdr = a THEN new ELSE h.LastHdr
      /\ g.seg[new].length = rest /\ g.seg[new].next = nxt /\ g.seg[new].last = a
      /\ \A x \in DOMAIN h.seg :
            /\ g.seg[x].length = IF x = a THEN n ELSE h.seg[x].length
            /\ g.seg[x].next = IF x = a THEN new ELSE h.seg[x].next
            /\ g.seg[x].last = IF x = nxt THEN new ELSE h.seg[x].last
  <2>1. CutInTwo(g, h, a, n, new)
    BY SplitFields
  <2> HIDE DEF new, g
  <2> QED
    BY <2>1 DEF CutInTwo
<1>3. /\ \A x \in DOMAIN h.seg : /\ x \in Nat /\ Start <= x /\ x # NULL
                                 /\ h.seg[x].length \in Nat /\ h.seg[x].length >= Unit
                                 /\ Top(h, x) \in Nat /\ Top(h, x) <= e
                                 /\ x + HeaderSize < Top(h, x)
      /\ Start \in Nat
  BY Fields, StartUnit DEF NULL
<1>4. /\ nxt # NULL => nxt \in DOMAIN h.seg /\ nxt = Top(h, a) /\ a # h.LastHdr
      /\ nxt = NULL => a = h.LastHdr /\ Top(h, a) = e
  BY DEF Sound, Forward
<1>5. /\ Start \in DOMAIN h.seg
      /\ \A x \in DOMAIN h.seg : IF x = Start THEN h.seg[x].last = NULL
                                 ELSE h.seg[x].last \in DOMAIN h.seg /\ h.seg[h.seg[x].last].next = x
  BY DEF Sound, Backward
<1>6. \A x \in DOMAIN h.seg :
        IF h.seg[x].next = NULL THEN x = h.LastHdr /\ Top(h, x) = e
        ELSE h.seg[x].next \in DOMAIN h.seg /\ Top(h, x) = h.seg[x].next
             /\ h.seg[h.seg[x].next].last = x
  BY DEF Sound, Forward
<1>7. h.LastHdr \in DOMAIN h.seg /\ h.seg[h.LastHdr].next = NULL
  BY DEF Sound, Forward
<1>8. \A x, y \in DOMAIN h.seg : x < y => Top(h, x) <= y
  BY DEF Sound, Ordered
<1>9. nxt # NULL => nxt # Start
  BY <1>3, <1>4 DEF HeaderSize
<1>10. /\ \A x \in DOMAIN h.seg : Top(g, x) = IF x = a THEN new ELSE Top(h, x)
       /\ Top(g, new) = Top(h, a)
  <2>1. a \in Nat /\ n \in Nat /\ new = a + n + HeaderSize
    BY <1>3
  <2> HIDE DEF new, rest, nxt, g
  <2>2. Top(g, a) = new
    BY <1>2, <2>1 DEF Top, HeaderSize
  <2>3. Top(g, new) = Top(h, a)
    BY <1>1, <1>2 DEF Top
  <2>4. \A x \in DOMAIN h.seg : x # a => Top(g, x) = Top(h, x)
    BY <1>2 DEF Top
  <2> QED
    BY <2>2, <2>3, <2>4
<1> HIDE DEF new, rest, nxt, g
<1>11. Typed(g)
  <2>1. IsFiniteSet(S) /\ S \subseteq Nat
    BY <1>1, FS_AddElement DEF Sound, Typed
  <2> QED
    BY <1>2, <2>1 DEF Typed
<1>12. Units(g)
  <2>1. \A x \in DOMAIN h.seg : x % Unit = 0 /\ h.seg[x].length % Unit = 0
                                /\ h.seg[x].length >= Unit
    BY DEF Sound, Units
  <2> QED
    BY <1>1, <1>2, <2>1 DEF Units
<1>13. Forward(g, e)
  <2>1. g.LastHdr \in S /\ g.seg[g.LastHdr].next = NULL
    BY <1>1, <1>2, <1>4, <1>7
  <2>2. ASSUME NEW x \in S, g.seg[x].next = NULL
        PROVE  x = g.LastHdr /\ Top(g, x) = e
    <3>1. CASE x = new
      BY <1>2, <1>4, <1>10, <2>2, <3>1
    <3>2. CASE x # new
      BY <1>1, <1>2, <1>6, <1>10, <2>2, <3>2
    <3> QED
      BY <3>1, <3>2
  <2>3. ASSUME NEW x \in S, g.seg[x].next # NULL
        PROVE  /\ g.seg[x].next \in S /\ Top(g, x) = g.seg[x].next
               /\ g.seg[g.seg[x].next].last = x
    <3>1. CASE x = new
      BY <1>2, <1>4, <1>10, <2>3, <3>1
    <3>2. CASE x = a
      BY <1>1, <1>2, <1>10, <3>2
    <3>3. CASE x # new /\ x # a
      <4>1. x \in DOMAIN h.seg /\ g.seg[x].next = h.seg[x].next
        BY <1>2, <3>3
      <4>2. h.seg[x].next \in DOMAIN h.seg /\ Top(h, x) = h.seg[x].next
            /\ h.seg[h.seg[x].next].last = x
        BY <1>6, <2>3, <4>1
      <4>3. h.seg[x].next # nxt
        <5>1. nxt # NULL => h.seg[nxt].last = a
          BY <1>6 DEF nxt
        <5> QED
          BY <5>1, <4>1, <4>2, <2>3, <3>3
      <4> QED
        BY <1>2, <1>10, <3>3, <4>1, <4>2, <4>3
    <3> QED
      BY <3>1, <3>2, <3>3
  <2> QED
    BY <1>2, <2>1, <2>2, <2>3 DEF Forward
<1>14. Backward(g)
  <2>1. ASSUME NEW x \in S
        PROVE  IF x = Start THEN g.seg[x].last = NULL
               ELSE g.seg[x].last \in S /\ g.seg[g.seg[x].last].next = x
    <3>1. CASE x = new
      BY <1>1, <1>2, <1>5, <3>1
    <3>2. CASE x # new /\ x = nxt
      <4>1. x # Start /\ nxt # NULL
        BY <1>3, <1>9, <3>2
      <4> QED
        BY <1>2, <3>2, <4>1
    <3>3. CASE x # new /\ x # nxt
      <4>1. x \in DOMAIN h.seg /\ g.seg[x].last = h.seg[x].last
        BY <1>2, <3>3
      <4>2. x # Start => h.seg[x].last # a
        BY <1>5, <3>3, <4>1 DEF nxt
      <4> QED
        BY <1>2, <1>5, <4>1, <4>2
    <3> QED
      BY <3>1, <3>2, <3>3
  <2> QED
    BY <1>2, <1>5, <2>1 DEF Backward
<1>15. Ordered(g, e)
  <2>1. Start <= new /\ Top(g, new) <= e
    BY <1>1, <1>3, <1>10 DEF HeaderSize
  <2>2. \A x \in DOMAIN h.seg : Start <= x /\ Top(g, x) <= e
    <3>1. new <= e
      BY <1>1, <1>3 DEF HeaderSize
    <3> QED
      BY <1>3, <1>10, <3>1
  <2>3. ASSUME NEW x \in S, NEW y \in S, x < y
        PROVE  Top(g, x) <= y
    <3>1. CASE x = new
      <4>1. y \in DOMAIN h.seg /\ a < y
        BY <1>1, <1>3, <2>3, <3>1 DEF HeaderSize
      <4> QED
        BY <1>8, <1>10, <3>1, <4>1
    <3>2. CASE x = a
      <4>1. y \in DOMAIN h.seg => Top(h, a) <= y
        BY <1>8, <2>3, <3>2
      <4>2. new <= Top(h, a)
        BY <1>1, <1>3 DEF HeaderSize
      <4> QED
        BY <1>1, <1>3, <1>10, <3>2, <4>1, <4>2
    <3>3. CASE x # new /\ x # a
      <4>1. CASE y = new
        <5>1. x \in DOMAIN h.seg /\ (x < a => Top(h, x) <= a) /\ (a < x => Top(h, a) <= x)
          BY <1>8, <3>3
        <5>2. x < a
          BY <1>1, <1>3, <2>3, <3>3, <4>1, <5>1 DEF HeaderSize
        <5> QED
          BY <1>1, <1>3, <1>10, <3>3, <4>1, <5>1, <5>2 DEF HeaderSize
      <4>2. CASE y # new
        BY <1>8, <1>10, <2>3, <3>3, <4>2
      <4> QED
        BY <4>1, <4>2
    <3> QED
      BY <3>1, <3>2, <3>3
  <2> QED
    BY <1>2, <2>1, <2>2, <2>3 DEF Ordered
<1> QED
  BY <1>11, <1>12, <1>13, <1>14, <1>15 DEF Sound, g

\* The list g is h with a free segment put at its end e.
GrownBy(g, h, e, n) ==
    /\ g \in [seg : [DOMAIN h.seg \cup {e} -> Header], LastHdr : Nat]
    /\ DOMAIN g.seg = DOMAIN h.seg \cup {e}
    /\ g.LastHdr = e
    /\ g.seg[e].length = n - HeaderSize /\ g.seg[e].next = NULL
    /\ g.seg[e].last = h.LastHdr /\ g.seg[e].free = TRUE
    /\ \A x \in DOMAIN h.seg :
         /\ g.seg[x].length = h.seg[x].length
         /\ g.seg[x].next = IF x = h.LastHdr THEN e ELSE h.seg[x].next
         /\ g.seg[x].last = h.seg[x].last
         /\ g.seg[x].free = h.seg[x].free

\* The end of the heap lies after every segment.
LEMMA EndPlace ==
    ASSUME NEW h, NEW e \in Nat, Sound(h, e)
    PROVE  /\ e \notin DOMAIN h.seg /\ e # NULL /\ e % Unit = 0
           /\ h.LastHdr \in DOMAIN h.seg /\ Top(h, h.LastHdr) = e
<1>1. h.LastHdr \in DOMAIN h.seg /\ Top(h, h.LastHdr) = e
  BY DEF Sound, Forward
<1>2. \A x \in DOMAIN h.seg : x \in Nat /\ x + HeaderSize < Top(h, x) /\ Top(h, x) <= e /\ Top(h, x) \in Nat
  BY Fields
<1>3. e \notin DOMAIN h.seg /\ e # NULL
  BY <1>1, <1>2 DEF HeaderSize, NULL
<1>4. e % Unit = 0
  <2> DEFINE x == h.LastHdr
             len == h.seg[x].length
  <2>1. x % Unit = 0 /\ len % Unit = 0 /\ x \in Nat /\ len \in Nat /\ e = x + HeaderSize + len
    BY <1>1, Fields DEF Sound, Units, Top
  <2> HIDE DEF x, len
  <2>2. (x + len) % Unit = 0
    BY <2>1, UnitSums
  <2>3. ((x + len) + HeaderSize) % Unit = 0
    BY <2>1, <2>2, UnitSums
  <2> QED
    BY <2>1, <2>3 DEF HeaderSize
<1> QED
  BY <1>1, <1>3, <1>4

\* What changes when the heap grows.  (heap.cpp 82-104)
LEMMA AppendFields ==
    ASSUME NEW h, NEW e \in Nat, Sound(h, e), NEW n \in Nat, n >= HeaderSize
    PROVE  GrownBy(Append(h, e, n), h, e, n)
<1> DEFINE g == Append(h, e, n)
           new == [length |-> n - HeaderSize, next |-> NULL, last |-> h.LastHdr, free |-> TRUE]
           linked(x) == [h.seg[x] EXCEPT !.next = e]
           s == [x \in DOMAIN h.seg \cup {e} |->
                   CASE x = e -> new [] x = h.LastHdr -> linked(x) [] OTHER -> h.seg[x]]
<1>1. g = [seg |-> s, LastHdr |-> e]
  BY DEF Append
<1>2. e \notin DOMAIN h.seg /\ h.LastHdr \in DOMAIN h.seg /\ h.LastHdr \in Nat
  BY EndPlace DEF Sound, Typed
<1>3. \A x \in DOMAIN h.seg : h.seg[x] \in Header
  BY Fields
<1> HIDE DEF g
<1>4. /\ new \in Header /\ new.length = n - HeaderSize /\ new.next = NULL
      /\ new.last = h.LastHdr /\ new.free = TRUE
  BY <1>2 DEF Header, NULL, HeaderSize
<1>5. ASSUME NEW x \in DOMAIN h.seg
      PROVE  /\ linked(x) \in Header
             /\ linked(x).length = h.seg[x].length /\ linked(x).next = e
             /\ linked(x).last = h.seg[x].last /\ linked(x).free = h.seg[x].free
  BY <1>3 DEF Header
<1> HIDE DEF new, linked
<1>6. /\ s \in [DOMAIN h.seg \cup {e} -> Header]
      /\ s[e] = new
      /\ \A x \in DOMAIN h.seg : s[x] = IF x = h.LastHdr THEN linked(x) ELSE h.seg[x]
  <2>1. ASSUME NEW x \in DOMAIN h.seg
        PROVE  s[x] = IF x = h.LastHdr THEN linked(x) ELSE h.seg[x]
    <3>1. x # e
      BY <1>2
    <3> QED
      BY <3>1
  <2>2. s[e] = new
    BY <1>2
  <2>3. \A x \in DOMAIN h.seg \cup {e} : s[x] \in Header
    BY <1>3, <1>4, <1>5, <2>1, <2>2
  <2>4. s = [x \in DOMAIN h.seg \cup {e} |-> s[x]]
    OBVIOUS
  <2> HIDE DEF s
  <2> QED
    BY <2>1, <2>2, <2>3, <2>4
<1> HIDE DEF s
<1>7. g.seg = s /\ g.LastHdr = e /\ DOMAIN g.seg = DOMAIN h.seg \cup {e}
  BY <1>1, <1>6
<1>8. g \in [seg : [DOMAIN h.seg \cup {e} -> Header], LastHdr : Nat]
  BY <1>1, <1>6
<1>9. ASSUME NEW x \in DOMAIN h.seg
      PROVE  /\ g.seg[x].length = h.seg[x].length
             /\ g.seg[x].next = IF x = h.LastHdr THEN e ELSE h.seg[x].next
             /\ g.seg[x].last = h.seg[x].last
             /\ g.seg[x].free = h.seg[x].free
  BY <1>5, <1>6, <1>7
<1>10. GrownBy(g, h, e, n)
  BY <1>4, <1>6, <1>7, <1>8, <1>9 DEF GrownBy
<1> QED
  BY <1>10 DEF g

\* A segment put at the end keeps the list sound.
LEMMA AppendSound ==
    ASSUME NEW h, NEW e \in Nat, Sound(h, e),
           NEW n \in Nat, n >= PageSize, n % Unit = 0
    PROVE  Sound(Append(h, e, n), e + n)
<1> DEFINE g == Append(h, e, n)
           S == DOMAIN h.seg \cup {e}
<1>1. GrownBy(g, h, e, n)
  BY AppendFields DEF HeaderSize, PageSize
<1> HIDE DEF g
<1>2. /\ e \notin DOMAIN h.seg /\ e # NULL /\ e % Unit = 0
      /\ h.LastHdr \in DOMAIN h.seg /\ Top(h, h.LastHdr) = e
  BY EndPlace
<1>3. /\ \A x \in DOMAIN h.seg : /\ x \in Nat /\ Start <= x
                                 /\ Top(h, x) \in Nat /\ Top(h, x) <= e
                                 /\ x + HeaderSize < Top(h, x)
      /\ Start \in Nat
  BY Fields, StartUnit
<1>4. /\ DOMAIN g.seg = S
      /\ \A x \in DOMAIN h.seg : Top(g, x) = Top(h, x)
      /\ Top(g, e) = e + n
  BY <1>1 DEF GrownBy, Top, HeaderSize
<1>5. Typed(g)
  <2>1. IsFiniteSet(S) /\ S \subseteq Nat
    BY FS_AddElement DEF Sound, Typed
  <2> QED
    BY <1>1, <2>1 DEF GrownBy, Typed
<1>6. Units(g)
  <2>1. \A x \in DOMAIN h.seg : x % Unit = 0 /\ h.seg[x].length % Unit = 0
                                /\ h.seg[x].length >= Unit
    BY DEF Sound, Units
  <2>2. (n - HeaderSize) % Unit = 0
    BY UnitSums
  <2>3. n - HeaderSize >= Unit
    BY DEF PageSize, HeaderSize, Unit
  <2> QED
    BY <1>1, <1>2, <2>1, <2>2, <2>3 DEF GrownBy, Units
<1>7. Forward(g, e + n)
  <2>1. ASSUME NEW x \in S
        PROVE  IF g.seg[x].next = NULL THEN x = g.LastHdr /\ Top(g, x) = e + n
               ELSE g.seg[x].next \in S /\ Top(g, x) = g.seg[x].next
                    /\ g.seg[g.seg[x].next].last = x
    <3>1. CASE x = e
      BY <1>1, <1>4, <3>1 DEF GrownBy
    <3>2. CASE x = h.LastHdr
      BY <1>1, <1>2, <1>4, <3>2 DEF GrownBy
    <3>3. CASE x # e /\ x # h.LastHdr
      <4>1. /\ x \in DOMAIN h.seg /\ h.seg[x].next # NULL /\ h.seg[x].next \in DOMAIN h.seg
            /\ Top(h, x) = h.seg[x].next /\ h.seg[h.seg[x].next].last = x
        BY <3>3 DEF Sound, Forward
      <4> QED
        BY <1>1, <1>4, <3>3, <4>1 DEF GrownBy
    <3> QED
      BY <3>1, <3>2, <3>3
  <2> QED
    BY <1>1, <1>4, <2>1 DEF Forward, GrownBy
<1>8. Backward(g)
  <2>1. Start \in DOMAIN h.seg /\ Start # e
    BY <1>2 DEF Sound, Backward
  <2>2. ASSUME NEW x \in S
        PROVE  IF x = Start THEN g.seg[x].last = NULL
               ELSE g.seg[x].last \in S /\ g.seg[g.seg[x].last].next = x
    <3>1. CASE x = e
      BY <1>1, <1>2, <2>1, <3>1 DEF GrownBy
    <3>2. CASE x # e
      <4>1. /\ x \in DOMAIN h.seg /\ g.seg[x].last = h.seg[x].last
            /\ IF x = Start THEN h.seg[x].last = NULL
               ELSE h.seg[x].last \in DOMAIN h.seg /\ h.seg[h.seg[x].last].next = x
        BY <1>1, <3>2 DEF GrownBy, Sound, Backward
      <4>2. h.seg[h.LastHdr].next = NULL /\ x # NULL
        BY Fields, <4>1 DEF Sound, Forward, NULL
      <4> QED
        BY <1>1, <4>1, <4>2 DEF GrownBy
    <3> QED
      BY <3>1, <3>2
  <2> QED
    BY <1>4, <2>1, <2>2 DEF Backward
<1>9. Ordered(g, e + n)
  <2>1. Start <= e
    BY <1>2, <1>3 DEF HeaderSize
  <2>2. \A x \in S : Start <= x /\ Top(g, x) <= e + n
    BY <1>3, <1>4, <2>1
  <2>3. ASSUME NEW x \in S, NEW y \in S, x < y
        PROVE  Top(g, x) <= y
    <3>1. CASE x = e
      <4>1. y \in DOMAIN h.seg => y < e
        BY <1>3 DEF HeaderSize
      <4> QED
        BY <2>3, <3>1, <4>1, <1>3
    <3>2. CASE x # e /\ y = e
      BY <1>3, <1>4, <3>2
    <3>3. CASE x # e /\ y # e
      <4>1. Top(h, x) <= y
        BY <2>3, <3>3 DEF Sound, Ordered
      <4> QED
        BY <1>4, <3>3, <4>1
    <3> QED
      BY <3>1, <3>2, <3>3
  <2> QED
    BY <1>4, <2>2, <2>3 DEF Ordered
<1> QED
  BY <1>5, <1>6, <1>7, <1>8, <1>9 DEF Sound, g

-----------------------------------------------------------------------------
(* Lemmas about what the merges join, and what they leave alone.             *)

\* From h to g only free segments were swallowed or changed.
Keeps(g, h) ==
    /\ DOMAIN g.seg \subseteq DOMAIN h.seg
    /\ \A x \in DOMAIN h.seg \ DOMAIN g.seg : h.seg[x].free
    /\ \A x \in DOMAIN g.seg : /\ g.seg[x].free = h.seg[x].free
                               /\ ~h.seg[x].free => g.seg[x].length = h.seg[x].length

\* A merge joins the segment to the one after the one it swallowed.
LEMMA MergeJoint ==
    ASSUME NEW h, NEW e \in Nat, Sound(h, e), NEW a \in DOMAIN h.seg,
           h.seg[a].next # NULL, h.seg[h.seg[a].next].free
    PROVE  LET n == h.seg[a].next
               g == CombineForward(h, a)
           IN  /\ DOMAIN g.seg = DOMAIN h.seg \ {n} /\ n \in DOMAIN h.seg /\ a # n
               /\ \A x \in DOMAIN g.seg : g.seg[x].free = h.seg[x].free
               /\ \A x \in DOMAIN g.seg : x # a => /\ g.seg[x].length = h.seg[x].length
                                                   /\ g.seg[x].next = h.seg[x].next
                                                   /\ Joint(h, x) => Joint(g, x)
               /\ Joint(h, n) => Joint(g, a)
<1> DEFINE n  == h.seg[a].next
           nn == h.seg[n].next
           g  == CombineForward(h, a)
           S  == DOMAIN h.seg \ {n}
<1>1. /\ n \in DOMAIN h.seg /\ a # n
      /\ nn # NULL => nn \in S
      /\ \A x \in DOMAIN h.seg : h.seg[x].next = n <=> x = a
  <2>1. /\ n \in DOMAIN h.seg /\ a < n
        /\ nn # NULL => nn \in DOMAIN h.seg /\ n < nn
        /\ \A x \in DOMAIN h.seg : h.seg[x].next = n <=> x = a
    BY Neighbours
  <2>2. a \in Nat /\ n \in Nat
    BY <2>1, Fields
  <2> QED
    BY <2>1, <2>2
<1>2. /\ DOMAIN g.seg = S
      /\ \A x \in S :
            /\ g.seg[x].length = IF x = a THEN h.seg[a].length + h.seg[n].length + HeaderSize
                                 ELSE h.seg[x].length
            /\ g.seg[x].next = IF x = a THEN nn ELSE h.seg[x].next
            /\ g.seg[x].free = h.seg[x].free
  <2>1. Merged(g, h, a)
    BY MergeFields
  <2> HIDE DEF g
  <2> QED
    BY <2>1 DEF Merged
<1> HIDE DEF g
<1>3. ASSUME NEW x \in S, x # a, Joint(h, x)
      PROVE  Joint(g, x)
  <2>1. h.seg[x].next # n
    BY <1>1, <1>3
  <2>2. h.seg[x].next # NULL => h.seg[x].next \in S
    BY <2>1 DEF Sound, Forward
  <2> HIDE DEF n
  <2> QED
    BY <1>2, <1>3, <2>2 DEF Joint
<1>4. Joint(h, n) => Joint(g, a)
  <2>1. h.seg[n].free
    OBVIOUS
  <2>2. a \in S
    BY <1>1
  <2> HIDE DEF n
  <2> QED
    BY <1>1, <1>2, <2>1, <2>2 DEF Joint
<1> QED
  BY <1>1, <1>2, <1>3, <1>4 DEF g

\* A merge swallows a free segment, and changes a free one when its own is.
LEMMA MergeKeeps ==
    ASSUME NEW h, NEW e \in Nat, Sound(h, e), NEW a \in DOMAIN h.seg, h.seg[a].free,
           h.seg[a].next # NULL, h.seg[h.seg[a].next].free
    PROVE  Keeps(CombineForward(h, a), h)
<1> DEFINE n == h.seg[a].next
           g == CombineForward(h, a)
<1>1. /\ DOMAIN g.seg = DOMAIN h.seg \ {n} /\ n \in DOMAIN h.seg /\ a # n
      /\ \A x \in DOMAIN g.seg : g.seg[x].free = h.seg[x].free
      /\ \A x \in DOMAIN g.seg : x # a => g.seg[x].length = h.seg[x].length
  BY MergeJoint
<1>2. h.seg[n].free
  OBVIOUS
<1> HIDE DEF n, g
<1>3. Keeps(g, h)
  BY <1>1, <1>2 DEF Keeps
<1> QED
  BY <1>3 DEF g

\* CombineForward leaves only the segments before a to be joined.
LEMMA CombineForwardKeeps ==
    ASSUME NEW h, NEW e \in Nat, Sound(h, e), NEW a \in DOMAIN h.seg, h.seg[a].free,
           \A x \in DOMAIN h.seg : x # a /\ h.seg[x].next # a => Joint(h, x)
    PROVE  LET g == CombineForward(h, a) IN
           /\ Sound(g, e) /\ Keeps(g, h)
           /\ a \in DOMAIN g.seg /\ g.seg[a].free
           /\ \A x \in DOMAIN g.seg : g.seg[x].next # a => Joint(g, x)
<1> DEFINE n == h.seg[a].next
           g == CombineForward(h, a)
<1>1. CASE n = NULL \/ ~h.seg[n].free
  <2>1. g = h
    BY <1>1 DEF CombineForward
  <2>2. Joint(h, a)
    BY <1>1 DEF Joint
  <2>3. Keeps(h, h)
    BY DEF Keeps
  <2> HIDE DEF g
  <2> QED
    BY <2>1, <2>2, <2>3 DEF g
<1>2. CASE n # NULL /\ h.seg[n].free
  <2>1. n # NULL /\ h.seg[n].free
    BY <1>2
  <2>2. Sound(g, e)
    BY <2>1, MergeSound
  <2>3. Keeps(g, h)
    BY <2>1, MergeKeeps
  <2>4. /\ DOMAIN g.seg = DOMAIN h.seg \ {n} /\ n \in DOMAIN h.seg /\ a # n
        /\ \A x \in DOMAIN g.seg : g.seg[x].free = h.seg[x].free
        /\ \A x \in DOMAIN g.seg : x # a => /\ g.seg[x].next = h.seg[x].next
                                            /\ Joint(h, x) => Joint(g, x)
        /\ Joint(h, n) => Joint(g, a)
    BY <2>1, MergeJoint
  <2>5. h.seg[n].next # a
    <3>1. a < n /\ (h.seg[n].next # NULL => n < h.seg[n].next)
      BY <2>1, Neighbours
    <3>2. a \in Nat /\ a # NULL /\ n \in Nat
      BY <2>4, Fields DEF NULL
    <3> QED
      BY <3>1, <3>2
  <2> HIDE DEF g, n
  <2>6. Joint(g, a)
    BY <2>4, <2>5
  <2> QED
    BY <2>2, <2>3, <2>4, <2>6 DEF g
<1> QED
  BY <1>1, <1>2

\* CombineBackward joins the segment before a, and so all of them.
LEMMA CombineBackwardKeeps ==
    ASSUME NEW h, NEW e \in Nat, Sound(h, e), NEW a \in DOMAIN h.seg, h.seg[a].free,
           \A x \in DOMAIN h.seg : h.seg[x].next # a => Joint(h, x)
    PROVE  LET g == CombineBackward(h, a) IN
           /\ Sound(g, e) /\ Keeps(g, h)
           /\ \A x \in DOMAIN g.seg : Joint(g, x)
<1> DEFINE p == h.seg[a].last
           g == CombineBackward(h, a)
<1>1. /\ a \in Nat /\ a # NULL
      /\ \A x \in DOMAIN h.seg : x # NULL
      /\ \A x \in DOMAIN h.seg : h.seg[x].next = a => x = p
  BY Fields DEF Sound, Forward, NULL
<1>2. CASE p = NULL \/ ~h.seg[p].free
  <2>1. g = h
    BY <1>2 DEF CombineBackward
  <2>2. Keeps(h, h)
    BY DEF Keeps
  <2>3. \A x \in DOMAIN h.seg : h.seg[x].next = a => Joint(h, x)
    BY <1>1, <1>2 DEF Joint
  <2> HIDE DEF g
  <2> QED
    BY <2>1, <2>2, <2>3 DEF g
<1>3. CASE p # NULL /\ h.seg[p].free
  <2>1. p \in DOMAIN h.seg /\ h.seg[p].next = a
    BY <1>3 DEF Sound, Backward
  <2>2. g = CombineForward(h, p)
    BY <1>3 DEF CombineBackward
  <2>3. h.seg[p].next # NULL /\ h.seg[h.seg[p].next].free /\ h.seg[p].free
    BY <1>1, <1>3, <2>1
  <2> HIDE DEF g, p
  <2>4. Sound(g, e)
    BY <2>1, <2>2, <2>3, MergeSound
  <2>5. Keeps(g, h)
    BY <2>1, <2>2, <2>3, MergeKeeps
  <2>6. /\ DOMAIN g.seg = DOMAIN h.seg \ {a} /\ p # a
        /\ \A x \in DOMAIN g.seg : x # p => (Joint(h, x) => Joint(g, x))
        /\ Joint(h, a) => Joint(g, p)
    BY <2>1, <2>2, <2>3, MergeJoint
  <2>7. h.seg[a].next # a
    BY <1>1, <2>6
  <2>8. Joint(g, p)
    BY <2>6, <2>7
  <2>9. \A x \in DOMAIN g.seg : x # p => Joint(h, x)
    BY <1>1, <2>6
  <2> QED
    BY <2>4, <2>5, <2>6, <2>8, <2>9 DEF g
<1> QED
  BY <1>2, <1>3

\* Where only free segments change, the blocks stay where they are.
LEMMA KeepsBlocks ==
    ASSUME NEW g, NEW h, NEW blocks, Keeps(g, h), Blocks(h, blocks), DOMAIN h.seg \subseteq Nat
    PROVE  Blocks(g, blocks)
<1>1. \A a \in DOMAIN g.seg : ~g.seg[a].free <=> a + HeaderSize \in DOMAIN blocks
  BY DEF Keeps, Blocks
<1>2. ASSUME NEW b \in DOMAIN blocks
      PROVE  /\ b \in Nat /\ b - HeaderSize \in DOMAIN g.seg
             /\ blocks[b] \in Nat /\ g.seg[b - HeaderSize].length - blocks[b] \in 0 .. HeaderSize
  <2> DEFINE a == b - HeaderSize
  <2>1. /\ b \in Nat /\ a \in DOMAIN h.seg
        /\ blocks[b] \in Nat /\ h.seg[a].length - blocks[b] \in 0 .. HeaderSize
    BY DEF Blocks
  <2>2. a + HeaderSize = b
    BY <2>1 DEF HeaderSize
  <2> HIDE DEF a
  <2>3. ~h.seg[a].free
    BY <2>1, <2>2 DEF Blocks
  <2>4. a \in DOMAIN g.seg /\ g.seg[a].length = h.seg[a].length
    BY <2>1, <2>3 DEF Keeps
  <2>5. g.seg[a].length - blocks[b] \in 0 .. HeaderSize
    BY <2>1, <2>4
  <2> QED
    BY <2>1, <2>4, <2>5 DEF a
<1> QED
  BY <1>1, <1>2 DEF Blocks

-----------------------------------------------------------------------------
(* The steps.                                                                *)

\* The invariant holds when the heap has been initialised.
LEMMA InvInit == Init => IInv
<1> SUFFICES ASSUME Init PROVE IInv
  OBVIOUS
<1> DEFINE len == InitialPages * PageSize
           new == [length |-> len - HeaderSize, next |-> NULL, last |-> NULL, free |-> TRUE]
           s   == [a \in {Start} |-> new]
<1>1. len \in Nat /\ len % Unit = 0 /\ len >= PageSize
  BY PagesAssumption DEF PageSize, Unit
<1>2. Start \in Nat /\ Start > 0 /\ Start % Unit = 0
  BY StartUnit
<1>3. heap = [seg |-> s, LastHdr |-> Start] /\ end = Start + len
  BY DEF Init, InitializeHeap
<1> HIDE DEF len
<1>4. /\ new \in Header /\ new.length = len - HeaderSize /\ new.next = NULL /\ new.last = NULL /\ new.free = TRUE
  BY <1>1 DEF Header, NULL, HeaderSize, PageSize
<1> HIDE DEF new
<1>5. s \in [{Start} -> Header] /\ s[Start] = new
  BY <1>4
<1> HIDE DEF s
<1>6. /\ DOMAIN heap.seg = {Start} /\ heap.seg[Start] = new /\ heap.LastHdr = Start
      /\ heap \in [seg : [DOMAIN heap.seg -> Header], LastHdr : Nat]
  BY <1>2, <1>3, <1>5
<1>7. Typed(heap)
  BY <1>2, <1>6, FS_Singleton DEF Typed
<1>8. Units(heap)
  <2>1. (len - HeaderSize) % Unit = 0
    BY <1>1, UnitSums
  <2>2. len - HeaderSize >= Unit
    BY <1>1 DEF PageSize, HeaderSize, Unit
  <2> QED
    BY <1>2, <1>4, <1>6, <2>1, <2>2 DEF Units
<1>9. Top(heap, Start) = end
  BY <1>1, <1>2, <1>3, <1>4, <1>6 DEF Top, HeaderSize
<1>10. Forward(heap, end) /\ Backward(heap)
  BY <1>4, <1>6, <1>9 DEF Forward, Backward
<1>11. end \in Nat
  BY <1>1, <1>2, <1>3
<1>12. Ordered(heap, end)
  BY <1>2, <1>6, <1>9, <1>11 DEF Ordered
<1>13. \A a \in DOMAIN heap.seg : Joint(heap, a)
  BY <1>4, <1>6 DEF Joint
<1>14. Blocks(heap, held)
  <2>1. DOMAIN held = {}
    BY DEF Init
  <2> QED
    BY <1>4, <1>6, <2>1 DEF Blocks
<1>15. Search(heap)
  BY DEF Init, Search, Unit
<1>16. nullLast \in Nat
  BY DEF Init, NULL
<1> QED
  BY <1>7, <1>8, <1>10, <1>11, <1>12, <1>13, <1>14, <1>15, <1>16 DEF IInv, Sound

\* A call of malloc starts at the first segment.
LEMMA StepMalloc ==
    ASSUME IInv, NEW n \in Requests, Malloc(n)
    PROVE  IInv'
<1> DEFINE m == RoundUp(n, Unit)
<1>1. m \in Nat /\ m % Unit = 0 /\ m # 0
  BY RequestAssumption, RoundUpUnit DEF Malloc
<1>2. m >= Unit
  <2> HIDE DEF m
  <2> QED
    BY <1>1 DEF Unit
<1>3. Start \in DOMAIN heap.seg
  BY DEF IInv, Sound, Backward
<1>4. /\ heap' = heap /\ end' = end /\ nullLast' = nullLast /\ held' = held
      /\ pc' = "search" /\ size' = m /\ currentSeg' = Start /\ expansions' = 0
  BY DEF Malloc
<1> HIDE DEF m
<1>5. Search(heap)'
  BY <1>1, <1>2, <1>3, <1>4 DEF Search
<1> QED
  BY <1>4, <1>5 DEF IInv

\* The search goes on to the next segment.
LEMMA StepAdvance ==
    ASSUME IInv, Advance
    PROVE  IInv'
<1>1. currentSeg' \in DOMAIN heap.seg
  BY DEF Advance, IInv, Search, seg, Sound, Forward
<1>2. UNCHANGED <<heap, end, nullLast, pc, size, expansions, held>>
  BY DEF Advance
<1>3. Search(heap)'
  BY <1>1, <1>2 DEF IInv, Search
<1> QED
  BY <1>2, <1>3 DEF IInv

\* What a block that has been handed out leaves of the search.
LEMMA StepHold ==
    ASSUME IInv, NEW a, Hold(a)
    PROVE  Search(heap)' /\ end' = end /\ end' \in Nat
           /\ held' = [b \in DOMAIN held \cup {a} |-> IF b = a THEN size ELSE held[b]]
  BY DEF Hold, Search, IInv, Unit

\* The list g is sound and joined, and its blocks are the given ones and one
\* of n bytes at b.
Handed(g, e, blocks, b, n) ==
    /\ Sound(g, e)
    /\ \A x \in DOMAIN g.seg : Joint(g, x)
    /\ Blocks(g, [c \in DOMAIN blocks \cup {b} |-> IF c = b THEN n ELSE blocks[c]])

\* Marking a free segment as held, and with it the block in it.
LEMMA TakeBlocks ==
    ASSUME NEW h, NEW e \in Nat, Sound(h, e), NEW a \in DOMAIN h.seg, h.seg[a].free,
           NEW blocks, Blocks(h, blocks), NEW n \in Nat, h.seg[a].length - n \in 0 .. HeaderSize,
           \A x \in DOMAIN h.seg : x # a => Joint(h, x)
    PROVE  Handed(SetFree(h, a, FALSE), e, blocks, a + HeaderSize, n)
<1> DEFINE g == SetFree(h, a, FALSE)
           b == a + HeaderSize
           after == [c \in DOMAIN blocks \cup {b} |-> IF c = b THEN n ELSE blocks[c]]
<1>1. /\ DOMAIN g.seg = DOMAIN h.seg
      /\ \A x \in DOMAIN h.seg :
            /\ g.seg[x].length = h.seg[x].length
            /\ g.seg[x].next = h.seg[x].next
            /\ g.seg[x].free = (IF x = a THEN FALSE ELSE h.seg[x].free)
  <2>1. Marked(g, h, a, FALSE)
    BY SetFreeFields
  <2> HIDE DEF g
  <2> QED
    BY <2>1 DEF Marked
<1>2. Sound(g, e)
  BY SetFreeSound
<1>3. a \in Nat /\ \A x \in DOMAIN h.seg : x \in Nat
  BY Fields
<1> HIDE DEF g
<1>4. ASSUME NEW x \in DOMAIN g.seg
      PROVE  Joint(g, x)
  <2>1. CASE x = a
    BY <1>1, <2>1 DEF Joint
  <2>2. CASE x # a
    <3>1. h.seg[x].next # NULL => h.seg[x].next \in DOMAIN h.seg
      BY <1>1 DEF Sound, Forward
    <3> QED
      BY <1>1, <2>2, <3>1 DEF Joint
  <2> QED
    BY <2>1, <2>2
<1>5. /\ b \in Nat /\ b - HeaderSize = a /\ b \notin DOMAIN blocks
      /\ \A x \in DOMAIN h.seg : x + HeaderSize = b => x = a
  <2>1. b \in Nat /\ b - HeaderSize = a /\ \A x \in DOMAIN h.seg : x + HeaderSize = b => x = a
    BY <1>3 DEF HeaderSize
  <2>2. b \notin DOMAIN blocks
    BY DEF Blocks
  <2> QED
    BY <2>1, <2>2
<1>6. /\ DOMAIN after = DOMAIN blocks \cup {b} /\ after[b] = n
      /\ \A c \in DOMAIN blocks : c # b => after[c] = blocks[c]
  OBVIOUS
<1> HIDE DEF b, after
<1>7. \A x \in DOMAIN g.seg : ~g.seg[x].free <=> x + HeaderSize \in DOMAIN after
  <2>1. \A x \in DOMAIN h.seg : ~h.seg[x].free <=> x + HeaderSize \in DOMAIN blocks
    BY DEF Blocks
  <2>2. a + HeaderSize = b
    BY DEF b
  <2> QED
    BY <1>1, <1>5, <1>6, <2>1, <2>2
<1>8. ASSUME NEW c \in DOMAIN after
      PROVE  /\ c \in Nat /\ c - HeaderSize \in DOMAIN g.seg
             /\ after[c] \in Nat /\ g.seg[c - HeaderSize].length - after[c] \in 0 .. HeaderSize
  <2>1. CASE c = b
    <3>1. g.seg[a].length = h.seg[a].length
      BY <1>1
    <3> QED
      BY <1>1, <1>5, <1>6, <2>1, <3>1
  <2>2. CASE c # b
    <3>1. /\ c \in DOMAIN blocks /\ c \in Nat /\ c - HeaderSize \in DOMAIN h.seg
          /\ blocks[c] \in Nat /\ h.seg[c - HeaderSize].length - blocks[c] \in 0 .. HeaderSize
      BY <1>6, <2>2 DEF Blocks
    <3>2. after[c] = blocks[c] /\ g.seg[c - HeaderSize].length = h.seg[c - HeaderSize].length
      BY <1>1, <1>6, <2>2, <3>1
    <3> QED
      BY <1>1, <3>1, <3>2
  <2> QED
    BY <2>1, <2>2
<1>9. Blocks(g, after)
  BY <1>7, <1>8 DEF Blocks
<1>10. Handed(g, e, blocks, b, n)
  BY <1>2, <1>4, <1>9 DEF Handed, after
<1> QED
  BY <1>10 DEF g, b

\* The segment is long enough and too short to be split.
LEMMA StepTakeWhole ==
    ASSUME IInv, TakeWhole
    PROVE  IInv'
<1> DEFINE len == heap.seg[currentSeg].length
<1>1. /\ Sound(heap, end) /\ end \in Nat /\ Blocks(heap, held)
      /\ \A x \in DOMAIN heap.seg : Joint(heap, x)
      /\ currentSeg \in DOMAIN heap.seg /\ size \in Nat /\ size % Unit = 0 /\ size >= Unit
      /\ heap.seg[currentSeg].free /\ len >= size
  BY DEF IInv, Search, TakeWhole, Fits, seg
<1>2. len \in Nat /\ len % Unit = 0
  BY <1>1, Fields DEF Sound, Units
<1>3. len = size \/ len - size - HeaderSize < Unit
  <2>1. len = size \/ ~(size >= Unit /\ len - size - HeaderSize >= Unit)
    BY DEF TakeWhole, Splits, seg
  <2> HIDE DEF len
  <2> QED
    BY <1>1, <1>2, <2>1 DEF Unit, HeaderSize
<1>4. len - size \in 0 .. HeaderSize
  <2> HIDE DEF len
  <2> QED
    BY <1>1, <1>2, <1>3 DEF Unit, HeaderSize
<1> DEFINE g == SetFree(heap, currentSeg, FALSE)
           b == currentSeg + HeaderSize
           after == [c \in DOMAIN held \cup {b} |-> IF c = b THEN size ELSE held[c]]
<1>5. Sound(g, end) /\ Blocks(g, after) /\ \A x \in DOMAIN g.seg : Joint(g, x)
  <2>1. Handed(g, end, held, b, size)
    BY <1>1, <1>4, TakeBlocks
  <2> HIDE DEF g
  <2> QED
    BY <2>1 DEF Handed
<1>6. Hold(currentSeg + HeaderSize) /\ heap' = g /\ nullLast' = nullLast
  BY DEF TakeWhole
<1>7. held' = after /\ end' = end /\ end' \in Nat
  BY <1>6, StepHold
<1>8. Search(heap)'
  BY <1>6 DEF Hold, Search, Unit
<1> HIDE DEF g, after
<1> QED
  BY <1>5, <1>6, <1>7, <1>8 DEF IInv

\* The segment is split, and the first part handed out.
LEMMA StepTakeSplit ==
    ASSUME IInv, TakeSplit
    PROVE  IInv'
<1> DEFINE a == currentSeg
           new == a + size + HeaderSize
           h == SplitAt(heap, a, size)
<1>1. /\ Sound(heap, end) /\ end \in Nat /\ Blocks(heap, held)
      /\ \A x \in DOMAIN heap.seg : Joint(heap, x)
      /\ a \in DOMAIN heap.seg /\ size \in Nat /\ size % Unit = 0
      /\ heap.seg[a].free /\ Splits(heap, a, size)
  BY DEF IInv, Search, TakeSplit, Fits, seg
<1>2. Sound(h, end)
  BY <1>1, SplitSound
<1>3. CutInTwo(h, heap, a, size, new)
  BY <1>1, SplitFields
<1>4. new \in Nat /\ new \notin DOMAIN heap.seg /\ new # NULL /\ a # new
  BY <1>1, SplitPlace
<1>5. \A x \in DOMAIN heap.seg :
        heap.seg[x].next # NULL => heap.seg[x].next \in DOMAIN heap.seg
  BY <1>1 DEF Sound, Forward
<1>6. \A x \in DOMAIN heap.seg : x \in Nat
  BY <1>1, Fields
<1>7. (new + HeaderSize) - HeaderSize = new
  <2> HIDE DEF new
  <2> QED
    BY <1>4 DEF HeaderSize
<1> HIDE DEF a, new, h
<1>8. ASSUME NEW x \in DOMAIN h.seg, x # a
      PROVE  Joint(h, x)
  <2>1. CASE x = new
    BY <1>1, <1>3, <1>5, <2>1 DEF Joint, CutInTwo
  <2>2. CASE x # new
    <3>1. x \in DOMAIN heap.seg /\ h.seg[x].next = heap.seg[x].next /\ h.seg[x].free = heap.seg[x].free
      BY <1>3, <1>8, <2>2 DEF CutInTwo
    <3> QED
      BY <1>1, <1>3, <1>5, <3>1 DEF Joint, CutInTwo
  <2> QED
    BY <2>1, <2>2
<1>9. Blocks(h, held)
  <2>1. new + HeaderSize \notin DOMAIN held
    BY <1>1, <1>4, <1>7 DEF Blocks
  <2>2. \A x \in DOMAIN h.seg : ~h.seg[x].free <=> x + HeaderSize \in DOMAIN held
    BY <1>1, <1>3, <2>1 DEF Blocks, CutInTwo
  <2>3. ASSUME NEW c \in DOMAIN held
        PROVE  /\ c \in Nat /\ c - HeaderSize \in DOMAIN h.seg
               /\ held[c] \in Nat /\ h.seg[c - HeaderSize].length - held[c] \in 0 .. HeaderSize
    <3> DEFINE d == c - HeaderSize
    <3>1. /\ c \in Nat /\ d \in DOMAIN heap.seg
          /\ held[c] \in Nat /\ heap.seg[d].length - held[c] \in 0 .. HeaderSize
      BY <1>1 DEF Blocks
    <3>2. d + HeaderSize = c
      BY <3>1 DEF HeaderSize
    <3> HIDE DEF d
    <3>3. d # a
      BY <1>1, <3>2 DEF Blocks
    <3>4. d \in DOMAIN h.seg /\ h.seg[d].length = heap.seg[d].length
      BY <1>3, <3>1, <3>3 DEF CutInTwo
    <3> QED
      BY <3>1, <3>4 DEF d
  <2> QED
    BY <2>2, <2>3 DEF Blocks
<1>10. a \in DOMAIN h.seg /\ h.seg[a].free /\ h.seg[a].length - size \in 0 .. HeaderSize
  BY <1>1, <1>3 DEF CutInTwo, HeaderSize
<1> DEFINE g == SetFree(h, a, FALSE)
           b == a + HeaderSize
           after == [c \in DOMAIN held \cup {b} |-> IF c = b THEN size ELSE held[c]]
<1>11. Sound(g, end) /\ Blocks(g, after) /\ \A x \in DOMAIN g.seg : Joint(g, x)
  <2>1. Handed(g, end, held, b, size)
    BY <1>1, <1>2, <1>8, <1>9, <1>10, TakeBlocks
  <2> HIDE DEF g
  <2> QED
    BY <2>1 DEF Handed
<1>12. Hold(b) /\ heap' = g /\ nullLast' \in Nat
  <2>1. Hold(currentSeg + HeaderSize) /\ heap' = SetFree(SplitAt(heap, currentSeg, size), currentSeg, FALSE)
        /\ nullLast' = IF seg[currentSeg].next = NULL THEN currentSeg + size + HeaderSize ELSE nullLast
    BY DEF TakeSplit
  <2>2. nullLast \in Nat
    BY DEF IInv
  <2> QED
    BY <1>4, <2>1, <2>2 DEF a, h, new
<1>13. held' = after /\ end' = end /\ end' \in Nat
  BY <1>12, StepHold
<1>14. Search(heap)'
  BY <1>12 DEF Hold, Search, Unit
<1> HIDE DEF g, after
<1> QED
  BY <1>11, <1>12, <1>13, <1>14 DEF IInv

\* The last segment after the heap grew by n bytes: it is free, and longer by
\* all of them than the last one was when that was free.
LEMMA GrownTail ==
    ASSUME NEW h, NEW e \in Nat, Sound(h, e), NEW n \in Nat, n >= PageSize, n % Unit = 0
    PROVE  LET g == CombineBackward(Append(h, e, n), e) IN
           /\ g.seg[g.LastHdr].free
           /\ g.seg[g.LastHdr].length \in Nat
           /\ g.seg[g.LastHdr].length >= n - HeaderSize
           /\ h.seg[h.LastHdr].free => g.seg[g.LastHdr].length = h.seg[h.LastHdr].length + n
<1> DEFINE k == Append(h, e, n)
           g == CombineBackward(k, e)
           p == h.LastHdr
<1>1. GrownBy(k, h, e, n)
  BY AppendFields DEF HeaderSize, PageSize
<1>2. Sound(k, e + n) /\ e + n \in Nat
  BY AppendSound
<1>3. e \notin DOMAIN h.seg /\ p \in DOMAIN h.seg /\ p # NULL
  BY EndPlace, Fields DEF NULL
<1>4. h.seg[p].length \in Nat
  BY <1>3, Fields
<1>5. n - HeaderSize \in Nat
  BY DEF PageSize, HeaderSize
<1> HIDE DEF k, p
<1>6. /\ e \in DOMAIN k.seg /\ k.seg[e].last = p /\ k.seg[e].free /\ k.seg[e].length = n - HeaderSize
      /\ k.LastHdr = e
      /\ p \in DOMAIN k.seg /\ k.seg[p].next = e /\ k.seg[p].free = h.seg[p].free
      /\ k.seg[p].length = h.seg[p].length
  BY <1>1, <1>3 DEF GrownBy, p
<1>7. CASE ~h.seg[p].free
  <2>1. g = k
    BY <1>3, <1>6, <1>7 DEF CombineBackward
  <2> HIDE DEF g
  <2> QED
    BY <1>5, <1>6, <1>7, <2>1 DEF k, g, p
<1>8. CASE h.seg[p].free
  <2>1. g = CombineForward(k, p)
    BY <1>3, <1>6, <1>8 DEF CombineBackward
  <2>2. k.seg[p].next # NULL /\ k.seg[k.seg[p].next].free
    BY <1>6, <1>2, Fields DEF NULL
  <2>3. Merged(CombineForward(k, p), k, p)
    BY <1>2, <1>6, <2>2, MergeFields
  <2> HIDE DEF g
  <2>4. Merged(g, k, p)
    BY <2>1, <2>3
  <2>5. p # e
    BY <1>3
  <2>6. /\ g.LastHdr = p /\ g.seg[p].free = k.seg[p].free
        /\ g.seg[p].length = k.seg[p].length + k.seg[e].length + HeaderSize
    BY <1>6, <2>4, <2>5 DEF Merged
  <2>7. g.seg[p].length = h.seg[p].length + n
    BY <1>4, <1>6, <2>6 DEF HeaderSize
  <2> QED
    BY <1>4, <1>6, <1>8, <2>6, <2>7 DEF g, k, p, HeaderSize
<1> QED
  BY <1>7, <1>8

\* The heap grows, and the search starts again: a second time only when the
\* pages of the first one were a header short.
LEMMA StepExpand ==
    ASSUME IInv, Expand
    PROVE  IInv'
<1> DEFINE n == RoundUp(size, PageSize)
           h == Append(heap, end, n)
           g == CombineBackward(h, end)
           tail == heap.seg[heap.LastHdr].length
           last == g.seg[g.LastHdr].length
<1>1. /\ Sound(heap, end) /\ end \in Nat /\ Blocks(heap, held) /\ nullLast \in Nat
      /\ \A x \in DOMAIN heap.seg : Joint(heap, x)
      /\ currentSeg \in DOMAIN heap.seg /\ size \in Nat /\ size % Unit = 0 /\ size >= Unit
      /\ expansions \in 0 .. 2
      /\ expansions > 0 => heap.seg[heap.LastHdr].free /\ tail >= n - HeaderSize
      /\ expansions = 2 => tail >= size
      /\ pc = "search" /\ heap.seg[currentSeg].next = NULL
      /\ ~(heap.seg[currentSeg].free /\ heap.seg[currentSeg].length >= size)
  BY DEF IInv, Search, Expand, Fits, seg
<1>2. /\ heap' = g /\ end' = end + n /\ currentSeg' = Start /\ expansions' = expansions + 1
      /\ nullLast' = nullLast /\ pc' = pc /\ size' = size /\ held' = held
  BY DEF Expand
<1>3. n \in Nat /\ n % Unit = 0 /\ n >= size /\ n >= PageSize
  BY <1>1, RoundUpPage DEF Unit
<1> HIDE DEF n
<1>4. currentSeg = heap.LastHdr
  BY <1>1 DEF Sound, Forward
<1>5. expansions \in 0 .. 1
  BY <1>1, <1>4
<1>6. Sound(h, end + n) /\ end + n \in Nat
  BY <1>1, <1>3, AppendSound
<1>7. GrownBy(h, heap, end, n)
  BY <1>1, <1>3, AppendFields DEF HeaderSize, PageSize
<1>8. end \notin DOMAIN heap.seg /\ end % Unit = 0
  BY <1>1, EndPlace
<1> HIDE DEF h
<1>9. end \in DOMAIN h.seg /\ h.seg[end].free
  BY <1>7 DEF GrownBy
<1>10. ASSUME NEW x \in DOMAIN h.seg, h.seg[x].next # end
       PROVE  Joint(h, x)
  <2>1. CASE x = end
    BY <1>7, <2>1 DEF Joint, GrownBy
  <2>2. CASE x # end
    <3>1. /\ x \in DOMAIN heap.seg /\ h.seg[x].next = heap.seg[x].next
          /\ h.seg[x].free = heap.seg[x].free
      BY <1>7, <1>10, <2>2 DEF GrownBy
    <3>2. heap.seg[x].next # NULL => heap.seg[x].next \in DOMAIN heap.seg
      BY <1>1, <3>1 DEF Sound, Forward
    <3> QED
      BY <1>1, <1>7, <3>1, <3>2 DEF Joint, GrownBy
  <2> QED
    BY <2>1, <2>2
<1>11. Sound(g, end + n) /\ Keeps(g, h) /\ \A x \in DOMAIN g.seg : Joint(g, x)
  BY <1>6, <1>9, <1>10, CombineBackwardKeeps
<1>12. Blocks(h, held)
  <2>1. end + HeaderSize \notin DOMAIN held
    <3>1. (end + HeaderSize) - HeaderSize = end
      BY <1>1 DEF HeaderSize
    <3> QED
      BY <1>1, <1>8, <3>1 DEF Blocks
  <2>2. \A x \in DOMAIN h.seg : ~h.seg[x].free <=> x + HeaderSize \in DOMAIN held
    BY <1>1, <1>7, <2>1 DEF Blocks, GrownBy
  <2>3. ASSUME NEW c \in DOMAIN held
        PROVE  /\ c \in Nat /\ c - HeaderSize \in DOMAIN h.seg
               /\ held[c] \in Nat /\ h.seg[c - HeaderSize].length - held[c] \in 0 .. HeaderSize
    <3>1. /\ c \in Nat /\ c - HeaderSize \in DOMAIN heap.seg
          /\ held[c] \in Nat /\ heap.seg[c - HeaderSize].length - held[c] \in 0 .. HeaderSize
      BY <1>1 DEF Blocks
    <3>2. /\ c - HeaderSize \in DOMAIN h.seg
          /\ h.seg[c - HeaderSize].length = heap.seg[c - HeaderSize].length
      BY <1>7, <3>1 DEF GrownBy
    <3> QED
      BY <3>1, <3>2
  <2> QED
    BY <2>2, <2>3 DEF Blocks
<1>13. Blocks(g, held)
  <2>1. DOMAIN h.seg \subseteq Nat
    BY <1>6 DEF Sound, Typed
  <2> QED
    BY <1>11, <1>12, <2>1, KeepsBlocks
<1>14. /\ g.seg[g.LastHdr].free /\ last \in Nat /\ last >= n - HeaderSize
       /\ heap.seg[heap.LastHdr].free => last = tail + n
  BY <1>1, <1>3, GrownTail DEF h
<1>15. tail \in Nat
  BY <1>1, <1>4, Fields
<1>16. Start \in DOMAIN g.seg
  BY <1>11 DEF Sound, Backward
<1> HIDE DEF g, tail, last
<1>17. expansions = 1 => last >= size
  BY <1>1, <1>3, <1>14, <1>15 DEF HeaderSize, PageSize
<1>18. Search(heap)'
  <2>1. /\ heap'.seg[heap'.LastHdr].free
        /\ heap'.seg[heap'.LastHdr].length >= RoundUp(size', PageSize) - HeaderSize
    BY <1>2, <1>14 DEF n, last
  <2>2. expansions' = 2 => heap'.seg[heap'.LastHdr].length >= size'
    BY <1>2, <1>5, <1>17 DEF last
  <2>3. expansions' \in 0 .. 2
    BY <1>2, <1>5
  <2>4. currentSeg' \in DOMAIN heap'.seg
    BY <1>2, <1>16
  <2> QED
    BY <1>1, <1>2, <2>1, <2>2, <2>3, <2>4 DEF Search
<1>19. Sound(heap, end)' /\ end' \in Nat /\ nullLast' \in Nat
       /\ (\A x \in DOMAIN heap.seg : Joint(heap, x))' /\ Blocks(heap, held)'
  BY <1>1, <1>2, <1>6, <1>11, <1>13
<1> QED
  BY <1>18, <1>19 DEF IInv

\* A block comes back: its segment is joined with the ones next to it.
LEMMA StepFree ==
    ASSUME IInv, NEW b \in DOMAIN held, Free(b)
    PROVE  IInv'
<1> DEFINE a == b - HeaderSize
           h == SetFree(heap, a, TRUE)
           k == CombineForward(h, a)
           g == CombineBackward(k, a)
           after == [c \in DOMAIN held \ {b} |-> held[c]]
<1>1. /\ Sound(heap, end) /\ end \in Nat /\ Blocks(heap, held) /\ nullLast \in Nat
      /\ \A x \in DOMAIN heap.seg : Joint(heap, x)
      /\ Search(heap)
  BY DEF IInv
<1>2. heap' = g /\ held' = after /\ pc = "idle"
      /\ UNCHANGED <<end, nullLast, pc, size, currentSeg, expansions>>
  BY DEF Free
<1>3. a \in DOMAIN heap.seg /\ b \in Nat /\ a + HeaderSize = b
  <2>1. b \in Nat /\ a \in DOMAIN heap.seg
    BY <1>1 DEF Blocks
  <2> QED
    BY <2>1 DEF HeaderSize
<1> HIDE DEF a
<1>4. Marked(h, heap, a, TRUE)
  BY <1>1, <1>3, SetFreeFields
<1>5. Sound(h, end)
  BY <1>1, <1>3, SetFreeSound
<1> HIDE DEF h
<1>6. a \in DOMAIN h.seg /\ h.seg[a].free
  BY <1>3, <1>4 DEF Marked
<1>7. ASSUME NEW x \in DOMAIN h.seg, x # a, h.seg[x].next # a
      PROVE  Joint(h, x)
  <2>1. /\ x \in DOMAIN heap.seg /\ h.seg[x].next = heap.seg[x].next
        /\ h.seg[x].free = heap.seg[x].free
    BY <1>4, <1>7 DEF Marked
  <2>2. heap.seg[x].next # NULL => heap.seg[x].next \in DOMAIN heap.seg
    BY <1>1, <2>1 DEF Sound, Forward
  <2> QED
    BY <1>1, <1>4, <1>7, <2>1, <2>2 DEF Joint, Marked
<1>8. /\ Sound(k, end) /\ Keeps(k, h)
      /\ a \in DOMAIN k.seg /\ k.seg[a].free
      /\ \A x \in DOMAIN k.seg : k.seg[x].next # a => Joint(k, x)
  BY <1>1, <1>5, <1>6, <1>7, CombineForwardKeeps
<1> HIDE DEF k
<1>9. /\ Sound(g, end) /\ Keeps(g, k)
      /\ \A x \in DOMAIN g.seg : Joint(g, x)
  BY <1>1, <1>8, CombineBackwardKeeps
<1> HIDE DEF g
<1>10. \A x \in DOMAIN heap.seg : x \in Nat
  BY <1>1, Fields
<1>11. Blocks(h, after)
  <2>1. DOMAIN after = DOMAIN held \ {b} /\ \A c \in DOMAIN after : after[c] = held[c]
    OBVIOUS
  <2> HIDE DEF after
  <2>2. \A x \in DOMAIN h.seg : x + HeaderSize = b <=> x = a
    BY <1>3, <1>4, <1>10 DEF HeaderSize, Marked
  <2>3. \A x \in DOMAIN heap.seg : ~heap.seg[x].free <=> x + HeaderSize \in DOMAIN held
    BY <1>1 DEF Blocks
  <2>4. \A x \in DOMAIN h.seg : ~h.seg[x].free <=> x + HeaderSize \in DOMAIN after
    BY <1>4, <2>1, <2>2, <2>3 DEF Marked
  <2>5. ASSUME NEW c \in DOMAIN after
        PROVE  /\ c \in Nat /\ c - HeaderSize \in DOMAIN h.seg
               /\ after[c] \in Nat /\ h.seg[c - HeaderSize].length - after[c] \in 0 .. HeaderSize
    <3>1. /\ c \in Nat /\ c - HeaderSize \in DOMAIN heap.seg
          /\ held[c] \in Nat /\ heap.seg[c - HeaderSize].length - held[c] \in 0 .. HeaderSize
      BY <1>1, <2>1 DEF Blocks
    <3>2. /\ c - HeaderSize \in DOMAIN h.seg
          /\ h.seg[c - HeaderSize].length = heap.seg[c - HeaderSize].length
      BY <1>4, <3>1 DEF Marked
    <3> QED
      BY <2>1, <3>1, <3>2
  <2> QED
    BY <2>4, <2>5 DEF Blocks
<1>12. Blocks(g, after)
  <2>1. DOMAIN h.seg \subseteq Nat /\ DOMAIN k.seg \subseteq Nat
    BY <1>5, <1>8 DEF Sound, Typed
  <2>2. Blocks(k, after)
    BY <1>8, <1>11, <2>1, KeepsBlocks
  <2> QED
    BY <1>9, <2>1, <2>2, KeepsBlocks
<1>13. Search(heap)'
  BY <1>1, <1>2 DEF Search
<1> HIDE DEF after
<1> QED
  BY <1>1, <1>2, <1>9, <1>12, <1>13 DEF IInv

-----------------------------------------------------------------------------
(* Theorems.                                                                 *)

\* Every step of malloc and free keeps the invariant.
LEMMA InvStep == IInv /\ [Next]_vars => IInv'
<1> SUFFICES ASSUME IInv, [Next]_vars PROVE IInv'
  OBVIOUS
<1>1. ASSUME NEW n \in Requests, Malloc(n) PROVE IInv'
  BY <1>1, StepMalloc
<1>2. CASE TakeSplit
  BY <1>2, StepTakeSplit
<1>3. CASE TakeWhole
  BY <1>3, StepTakeWhole
<1>4. CASE Advance
  BY <1>4, StepAdvance
<1>5. CASE Expand
  BY <1>5, StepExpand
<1>6. ASSUME NEW b \in DOMAIN held, Free(b) PROVE IInv'
  BY <1>6, StepFree
<1>7. CASE UNCHANGED vars
  <2>1. UNCHANGED <<heap, end, nullLast, pc, size, currentSeg, expansions, held>>
    BY <1>7 DEF vars
  <2>2. Search(heap)'
    BY <2>1 DEF IInv, Search
  <2> QED
    BY <2>1, <2>2 DEF IInv
<1> QED
  BY <1>1, <1>2, <1>3, <1>4, <1>5, <1>6, <1>7 DEF Next, MallocStep

\* The heap is sound, joined and accounts for every block, whatever splits,
\* merges and expansions came before.
THEOREM Invariance == Spec => []IInv
  BY InvInit, InvStep, PTL DEF Spec

\* Every header is a header, at an address that is not NULL, and a search
\* always looks at one.  (heap.h 5-14)
THEOREM TypeCorrect == Spec => []TypeOK
<1>1. IInv => TypeOK
  <2> SUFFICES ASSUME IInv PROVE TypeOK
    OBVIOUS
  <2>1. Sound(heap, end) /\ end \in Nat /\ nullLast \in Nat /\ Blocks(heap, held) /\ Search(heap)
    BY DEF IInv
  <2>2. DOMAIN heap.seg \subseteq Nat \ {NULL} /\ IsFiniteSet(DOMAIN heap.seg) /\ heap.LastHdr \in Nat
    BY <2>1, Fields DEF Sound, Typed, NULL
  <2>3. \A a \in DOMAIN heap.seg : heap.seg[a] \in Header
    BY <2>1, Fields
  <2>4. DOMAIN held \subseteq Nat /\ \A b \in DOMAIN held : held[b] \in Nat
    BY <2>1 DEF Blocks
  <2>5. pc \in {"idle", "search"} /\ size \in Nat /\ (pc = "search" => currentSeg \in DOMAIN heap.seg)
    BY <2>1 DEF Search
  <2> QED
    BY <2>1, <2>2, <2>3, <2>4, <2>5 DEF TypeOK, Segments, seg, LastHdr, Header
<1> QED
  BY <1>1, Invariance, PTL

\* The segments tile the heap, and the links back are the links forward
\* reversed.  (heap.cpp 9-27, 64-123)
THEOREM HeapTiled == Spec => []Tiled
<1>1. IInv => Tiled
  BY DEF IInv, Sound, Forward, Backward, Top, Tiled, Segments, seg, LastHdr
<1> QED
  BY <1>1, Invariance, PTL

\* Addresses and lengths stay multiples of 16.  (heap.cpp 37-40, 64-104)
THEOREM HeapAligned == Spec => []Aligned
<1>1. IInv => Aligned
  BY DEF IInv, Sound, Units, Aligned, Segments, seg
<1> QED
  BY <1>1, Invariance, PTL

\* No two neighbours are both free.  (heap.cpp 29-34, 102-123)
THEOREM HeapCoalesced == Spec => []Coalesced
<1>1. IInv => Coalesced
  BY DEF IInv, Joint, Coalesced, Segments, seg
<1> QED
  BY <1>1, Invariance, PTL

\* The held segments are those of the blocks, each long enough for its block
\* and at most a header longer.  (heap.cpp 29-80)
THEOREM BlocksKept == Spec => []BlocksInSegments
<1>1. IInv => BlocksInSegments
  <2> SUFFICES ASSUME IInv PROVE BlocksInSegments
    OBVIOUS
  <2>1. Sound(heap, end) /\ end \in Nat /\ Blocks(heap, held)
    BY DEF IInv
  <2>2. \A a \in DOMAIN heap.seg : a \in Nat
    BY <2>1, Fields
  <2>3. \A a \in DOMAIN heap.seg : (a + HeaderSize) - HeaderSize = a
    BY <2>2 DEF HeaderSize
  <2>4. \A b \in DOMAIN held : b \in Nat /\ b - HeaderSize \in DOMAIN heap.seg
    BY <2>1 DEF Blocks
  <2>5. \A b \in DOMAIN held : (b - HeaderSize) + HeaderSize = b
    BY <2>4 DEF HeaderSize
  <2>6. ASSUME NEW a \in DOMAIN heap.seg, ~heap.seg[a].free
        PROVE  a \in {b - HeaderSize : b \in DOMAIN held}
    BY <2>1, <2>3, <2>6 DEF Blocks
  <2>7. ASSUME NEW b \in DOMAIN held
        PROVE  b - HeaderSize \in DOMAIN heap.seg /\ ~heap.seg[b - HeaderSize].free
    BY <2>1, <2>4, <2>5 DEF Blocks
  <2>8. {a \in DOMAIN heap.seg : ~heap.seg[a].free} = {b - HeaderSize : b \in DOMAIN held}
    BY <2>6, <2>7
  <2>9. \A b \in DOMAIN held : heap.seg[b - HeaderSize].length - held[b] \in 0 .. HeaderSize
    BY <2>1 DEF Blocks
  <2> QED
    BY <2>8, <2>9 DEF BlocksInSegments, Segments, seg
<1> QED
  BY <1>1, Invariance, PTL

\* malloc calls itself at most twice for a request.  (heap.cpp 60-61, 82-104)
THEOREM RecursionBound == Spec => []RecursionBounded
<1>1. IInv => RecursionBounded
  <2> SUFFICES ASSUME IInv PROVE RecursionBounded
    OBVIOUS
  <2>1. expansions \in 0 .. 2
    BY DEF IInv, Search
  <2> QED
    BY <2>1 DEF RecursionBounded
<1> QED
  BY <1>1, Invariance, PTL

\* A segment that is free lies apart from every block.
LEMMA FreeApart ==
    ASSUME IInv, NEW a \in DOMAIN heap.seg, heap.seg[a].free,
           NEW n \in Nat, n <= heap.seg[a].length
    PROVE  /\ a + HeaderSize >= Start
           /\ \A b \in DOMAIN held : Store!Apart(a + HeaderSize, n, b, held[b])
<1>1. Sound(heap, end) /\ end \in Nat /\ Blocks(heap, held)
  BY DEF IInv
<1>2. a \in Nat /\ Start <= a /\ heap.seg[a].length \in Nat /\ Start \in Nat
  BY <1>1, Fields, StartUnit
<1>3. ASSUME NEW b \in DOMAIN held
      PROVE  a + HeaderSize + n <= b \/ b + held[b] <= a + HeaderSize
  <2> DEFINE d == b - HeaderSize
             len == heap.seg[d].length
  <2>1. b \in Nat /\ d \in DOMAIN heap.seg /\ held[b] \in Nat /\ len - held[b] \in 0 .. HeaderSize
    BY <1>1 DEF Blocks
  <2>2. b = d + HeaderSize /\ d \in Nat /\ len \in Nat
    BY <1>1, <2>1, Fields DEF HeaderSize
  <2> HIDE DEF d
  <2>3. d # a
    BY <1>1, <2>2 DEF Blocks
  <2>4. a < d => a + HeaderSize + heap.seg[a].length <= d
    BY <1>1, <2>1 DEF Sound, Ordered, Top
  <2>5. d < a => d + HeaderSize + len <= a
    BY <1>1, <2>1 DEF Sound, Ordered, Top
  <2> HIDE DEF len
  <2> QED
    BY <1>2, <2>1, <2>2, <2>3, <2>4, <2>5 DEF HeaderSize
<1>4. a + HeaderSize >= Start
  BY <1>2 DEF HeaderSize
<1> QED
  BY <1>3, <1>4 DEF Store!Apart

\* A step that hands out the segment at a is a Grant of the store.
LEMMA HoldGrants ==
    ASSUME IInv, NEW a \in DOMAIN heap.seg, heap.seg[a].free, size > 0, size <= heap.seg[a].length,
           Hold(a + HeaderSize)
    PROVE  Store!Next
<1> DEFINE b == a + HeaderSize
<1>1. held' = [c \in DOMAIN held \cup {b} |-> IF c = b THEN size ELSE held[c]]
  BY DEF Hold
<1>2. size \in Nat
  BY DEF IInv, Search
<1>3. b >= Start /\ \A c \in DOMAIN held : Store!Apart(b, size, c, held[c])
  BY <1>2, FreeApart
<1> HIDE DEF b
<1>4. b \in DOMAIN held' /\ held'[b] = size
  BY <1>1
<1>5. Store!Grant(b, held'[b])
  BY <1>1, <1>3, <1>4 DEF Store!Grant
<1> QED
  BY <1>4, <1>5 DEF Store!Next

\* What malloc and free do is what a store of disjoint blocks does.
\* (heap.cpp 29-62)
THEOREM StoreImplemented == Spec => ImplementsStore
<1>1. Init => Store!Init
  BY DEF Init, Store!Init
<1>2. IInv /\ [Next]_vars => [Store!Next]_held
  <2> SUFFICES ASSUME IInv, [Next]_vars PROVE [Store!Next]_held
    OBVIOUS
  <2>1. ASSUME NEW n \in Requests, Malloc(n) PROVE held' = held
    BY <2>1 DEF Malloc
  <2>2. CASE TakeSplit \/ TakeWhole
    <3>1. /\ currentSeg \in DOMAIN heap.seg /\ heap.seg[currentSeg].free
          /\ size <= heap.seg[currentSeg].length /\ size > 0
          /\ Hold(currentSeg + HeaderSize)
      <4>1. pc = "search" /\ Fits(currentSeg) /\ Hold(currentSeg + HeaderSize)
        BY <2>2 DEF TakeSplit, TakeWhole
      <4>2. size \in Nat /\ size >= Unit /\ currentSeg \in DOMAIN heap.seg
            /\ Sound(heap, end) /\ end \in Nat
        BY <4>1 DEF IInv, Search
      <4>3. heap.seg[currentSeg].free /\ heap.seg[currentSeg].length >= size
        BY <4>1 DEF Fits, seg
      <4>4. heap.seg[currentSeg].length \in Nat
        BY <4>2, Fields
      <4> QED
        BY <4>1, <4>2, <4>3, <4>4 DEF Unit
    <3> QED
      BY <3>1, HoldGrants
  <2>3. CASE Advance \/ Expand
    BY <2>3 DEF Advance, Expand
  <2>4. ASSUME NEW b \in DOMAIN held, Free(b) PROVE Store!Next
    <3>1. Store!Release(b)
      BY <2>4 DEF Free, Store!Release
    <3> QED
      BY <3>1 DEF Store!Next
  <2>5. CASE UNCHANGED vars
    BY <2>5 DEF vars
  <2> QED
    BY <2>1, <2>2, <2>3, <2>4, <2>5 DEF Next, MallocStep
<1> QED
  BY <1>1, <1>2, Invariance, PTL DEF Spec, ImplementsStore, Store!Spec
=============================================================================
