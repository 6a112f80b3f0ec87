----------------------------- MODULE SectorReader -----------------------------
(***************************************************************************)
(* What the file system relies on when it reads the disk: one call at a    *)
(* time, answered true when the buffer holds the sectors that were asked   *)
(* for and false otherwise, and nobody writes to the buffer between calls. *)
(* AHCIPort.tla implements it; readDiskSector in FAT.tla is its answer.    *)
(***************************************************************************)
CONSTANTS Runs,         \* runs of sectors that can be asked for
          NoRun

VARIABLES asked,        \* the run asked for, NoRun between calls
          buffer,       \* the run the caller's buffer holds
          answer        \* of the last call

vars == <<asked, buffer, answer>>

Init ==
    /\ asked = NoRun
    /\ buffer = NoRun
    /\ answer = FALSE

Ask(run) ==
    /\ asked = NoRun
    /\ asked' = run
    /\ answer' = FALSE
    /\ UNCHANGED buffer

Fill ==
    /\ asked # NoRun
    /\ buffer' = asked
    /\ UNCHANGED <<asked, answer>>

Succeed ==
    /\ asked # NoRun /\ buffer = asked
    /\ asked' = NoRun
    /\ answer' = TRUE
    /\ UNCHANGED buffer

Fail ==
    /\ asked # NoRun
    /\ asked' = NoRun
    /\ answer' = FALSE
    /\ UNCHANGED buffer

Next == (\E run \in Runs : Ask(run)) \/ Fill \/ Succeed \/ Fail

Spec == Init /\ [][Next]_vars
=============================================================================
