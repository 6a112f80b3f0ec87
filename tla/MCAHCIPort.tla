------------------------------ MODULE MCAHCIPort ------------------------------
(* A port with bytes of one bit: eight sectors can be addressed.            *)
EXTENDS AHCIPort

\* All three bytes of a sector's number matter.
MCSectors == {0, 3, 5, 6}
=============================================================================
