----------------------------- MODULE MCInterrupts -----------------------------
(* A key with a character, which is Enter when shifted; Enter, the backspace *)
(* and one shift key, on lines of three bytes.  A line of two characters is a *)
(* cd command, and the second lies where the heap writes.                    *)
EXTENDS Interrupts

Star == 55

MCASCIITable == [code \in 0 .. 57 |-> IF code = Star THEN 42 ELSE 0]
MCCodes == {Star, Enter, BackSpace}
MCShiftKeys == {LeftShift}
MCCdPrefix == <<42>>
=============================================================================
