------------------------------ MODULE BlockStore ------------------------------
(***************************************************************************)
(* What malloc and free promise the rest of the kernel: the bytes handed   *)
(* out to one holder are handed out to nobody else until they come back.   *)
(* kernel/src/memory/heap.cpp is shown to implement it: see Heap.tla.      *)
(***************************************************************************)
EXTENDS Integers

CONSTANT Base               \* no block lies below

VARIABLE held               \* address of a block held -> bytes asked for

Apart(a, n, b, m) == a + n <= b \/ b + m <= a

Init == held = [a \in {} |-> 0]

Grant(a, n) ==
    /\ a >= Base /\ n > 0
    /\ \A b \in DOMAIN held : Apart(a, n, b, held[b])
    /\ held' = [b \in DOMAIN held \cup {a} |-> IF b = a THEN n ELSE held[b]]

Release(a) ==
    /\ a \in DOMAIN held
    /\ held' = [b \in DOMAIN held \ {a} |-> held[b]]

Next ==
    \/ \E a \in DOMAIN held' : Grant(a, held'[a])
    \/ \E a \in DOMAIN held : Release(a)

Spec == Init /\ [][Next]_held
=============================================================================
