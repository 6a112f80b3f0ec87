------------------------- MODULE MCPageFrameAllocator -------------------------
(* Small memory maps for PageFrameAllocator.                                *)
EXTENDS PageFrameAllocator

Segment(kind, from, count) ==
    [type |-> kind, physAddr |-> from, numPages |-> count]

Reserved == 0

\* No hole; 13 frames, so that bits 14 and 15 of the bitmap are padding.
Contiguous == << Segment(Reserved, 0, 2), Segment(EfiConventionalMemory, 2, 6),
                 Segment(Reserved, 8, 2), Segment(EfiConventionalMemory, 10, 3) >>

\* Two holes: the last segment begins at the bit after the bitmap (16), and
\* the reserved segment ends beyond the sum of the sizes.
Holes == << Segment(EfiConventionalMemory, 0, 5), Segment(Reserved, 7, 2),
            Segment(EfiConventionalMemory, 16, 3) >>

\* Eight frames: the last byte of the bitmap is nearly all padding.
Padded == << Segment(Reserved, 0, 2), Segment(EfiConventionalMemory, 2, 6) >>

\* Offset wraps within the segment (IntFrames = 10): frames 3 and 4 are
\* cleared in place of 23 and 24, and frames 10 to 12 are never reserved.
Large == << Segment(EfiConventionalMemory, 13, 12) >>

MCMemoryMaps == {Contiguous, Holes, Padded, Large}
MCLockTargets == {1, 11, 15, 40}
=============================================================================
