-------------------------- MODULE MCPageTableManager --------------------------
(* Four entries per table: 256 pages.  The identity map of 22 frames takes  *)
(* six tables of the last level, two of the one above and one of the next.  *)
EXTENDS PageTableManager

\* Frame 0 is never available.  Frames 22 to 24 are phantoms; the second pool
\* has a hole in the memory; the third has no phantom.
MCPools == {1 .. 24, (2 .. 6) \cup (8 .. 23), 1 .. 21}

\* Right after the memory, where the phantoms are, or away from it.
MCFramebuffers == {{22, 23}, {64, 65}}

\* One device shares its tables with the framebuffer, one has its own.
MCDevices == {66, 100}

MCGarbage == {[i \in Indices |-> Entry(3)]}
=============================================================================
