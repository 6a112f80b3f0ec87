-------------------------------- MODULE MCMouse --------------------------------
(* Packets of all signs, with and without overflow, and motions with bit 3   *)
(* set (255, which is -1) and clear (0 and 1), on a screen the pointer can    *)
(* cross.                                                                     *)
EXTENDS Mouse

Head(signs, overflows) == 8 + 16 * signs + 64 * overflows

MCHeads == {Head(0, 0), Head(1, 0), Head(3, 0), Head(2, 3)}
=============================================================================
