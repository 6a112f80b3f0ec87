-------------------------------- MODULE MCHeap --------------------------------
(* A heap of one page at first, and requests around the boundaries.         *)
EXTENDS Heap

\* A fresh page is a segment of 4064 bytes.  2005 bytes (2016 rounded up) are
\* half of it; 4016 leave the smallest rest that is split off, 16 bytes; 4032
\* leave room for a header alone; 4096 need two expansions when nothing is free.
MCRequests == {2005, 4016, 4032, 4096}
=============================================================================
