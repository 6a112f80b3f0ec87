------------------------------ MODULE FramePool ------------------------------
(***************************************************************************)
(* What the page frame allocator promises its callers (the page-table      *)
(* manager, the heap, the IDT and AHCI set-up): a pool of frames that is   *)
(* opened once, out of which a request is granted a frame nobody else      *)
(* holds, and is refused (NULL) only when the pool is empty.               *)
(* kernel/src/paging/PageFrameAllocator.cpp is one way to implement it:    *)
(* see PageFrameAllocator.tla.                                             *)
(***************************************************************************)
CONSTANTS Frames,       \* what a frame can be
          NoFrame       \* the NULL a refused request returns

VARIABLES opened,       \* has the pool been filled
          available,    \* frames a request may be granted
          held,         \* frames granted and not yet given back
          answer        \* what the last request returned

vars == <<opened, available, held, answer>>

Init ==
    /\ opened = FALSE
    /\ available = {}
    /\ held = {}
    /\ answer = NoFrame

\* The owner of the memory map fills the pool.
Open ==
    /\ ~opened
    /\ opened' = TRUE
    /\ available' \in SUBSET Frames
    /\ UNCHANGED <<held, answer>>

\* A frame is withdrawn for good: the kernel image, the framebuffer.
Withdraw(f) ==
    /\ opened
    /\ available' = available \ {f}
    /\ UNCHANGED <<opened, held, answer>>

Grant(f) ==
    /\ opened
    /\ f \in available
    /\ available' = available \ {f}
    /\ held' = held \cup {f}
    /\ answer' = f
    /\ UNCHANGED opened

Refuse ==
    /\ opened
    /\ available = {}
    /\ answer' = NoFrame
    /\ UNCHANGED <<opened, available, held>>

Release(f) ==
    /\ opened
    /\ f \in held
    /\ held' = held \ {f}
    /\ available' = available \cup {f}
    /\ UNCHANGED <<opened, answer>>

Next ==
    \/ Open
    \/ Refuse
    \/ \E f \in available : Withdraw(f) \/ Grant(f)
    \/ \E f \in held : Release(f)

Spec == Init /\ [][Next]_vars
=============================================================================
