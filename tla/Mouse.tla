--------------------------------- MODULE Mouse ---------------------------------
(***************************************************************************)
(* The PS/2 mouse: kernel/src/userinput/mouse.cpp, HandleMouseData and     *)
(* MouseDataAction, against a mouse whose bytes may get lost.              *)
(*                                                                         *)
(* The mouse sends packets of three bytes: buttons and signs, with bit 3   *)
(* set, then the motions.  The handler sees bytes only, and moves the      *)
(* pointer for a packet when the first byte of the next one arrives.       *)
(***************************************************************************)
EXTENDS Integers

CONSTANTS
    Heads,          \* first bytes the mouse sends
    Motions,        \* its other bytes
    MaxX, MaxY,     \* the pointer's last position: Width - 8, Height - 16
    MaxLost         \* bound on the bytes that get lost

Bit(byte, n) == (byte \div (2 ^ n)) % 2 = 1

ASSUME MouseAssumption ==
    /\ Heads \subseteq 0 .. 255 /\ Motions \subseteq 0 .. 255
    /\ \A head \in Heads : Bit(head, 3)
    /\ MaxX \in Nat /\ MaxY \in Nat /\ MaxLost \in Nat

XSign == 4
YSign == 5
XOverflow == 6
YOverflow == 7

VARIABLES
    MouseDataBuffer, MouseBufferReady, mouseDataTime, skip,
    MousePointerPosition,
    \* The mouse, and the way its bytes take.
    phase,          \* of the next byte in its packet
    packet,         \* the packet it sends or has just sent
    lost,           \* bytes lost so far
    \* History, for the properties.
    intact,         \* the packet was received so far, from its first byte on
    quiet           \* motion bytes without bit 3 in a row, 3 at most

handler   == <<MouseDataBuffer, MouseBufferReady, mouseDataTime, skip, MousePointerPosition>>
mouse     == <<phase, packet, lost, intact, quiet>>
mouseVars == <<handler, mouse>>

Nothing == [n \in 0 .. 2 |-> 0]

MouseInit ==
    /\ MouseDataBuffer = Nothing /\ MouseBufferReady = FALSE
    /\ mouseDataTime = 0 /\ skip = TRUE
    /\ MousePointerPosition = [X |-> 0, Y |-> 0]
    /\ phase = 0 /\ packet = Nothing /\ lost = 0
    /\ intact = FALSE /\ quiet = 0

-----------------------------------------------------------------------------

\* Mutant: only the low end is looked at.
ClampLow(n, max) == IF n < 0 THEN 0 ELSE n

Clamp(n, max) == IF n < 0 THEN 0 ELSE IF n > max THEN max ELSE n

\* Mutant: a negative motion is subtracted as it is.
NotNegated(byte, negative) == byte

\* 256 - data has eight bits: nothing is subtracted for 0.
Amount(byte, negative) == IF negative THEN (256 - byte) % 256 ELSE byte

Motion(head, byte, sign, overflow) ==
    LET amount == Amount(byte, Bit(head, sign)) + (IF Bit(head, overflow) THEN 255 ELSE 0)
    IN  IF Bit(head, sign) THEN -amount ELSE amount

Moved(p, bytes) ==
    [X |-> Clamp(p.X + Motion(bytes[0], bytes[1], XSign, XOverflow), MaxX),
     Y |-> Clamp(p.Y - Motion(bytes[0], bytes[2], YSign, YOverflow), MaxY)]

\* The motions are negated in the buffer itself.
MouseDataAction ==
    MousePointerPosition' = IF MouseBufferReady
                            THEN Moved(MousePointerPosition, MouseDataBuffer)
                            ELSE MousePointerPosition

Used ==
    IF MouseBufferReady
    THEN [MouseDataBuffer EXCEPT
             ![1] = Amount(@, Bit(MouseDataBuffer[0], XSign)),
             ![2] = Amount(@, Bit(MouseDataBuffer[0], YSign))]
    ELSE MouseDataBuffer

\* Mutant: any byte may begin a packet.
IgnoresNone(data) == skip

Ignored(data) == skip \/ (mouseDataTime = 0 /\ ~Bit(data, 3))

HandleMouseData(data) ==
    /\ MouseDataAction
    /\ skip' = FALSE
    /\ IF Ignored(data)
       THEN /\ MouseDataBuffer' = Used /\ MouseBufferReady' = FALSE
            /\ UNCHANGED mouseDataTime
       ELSE /\ MouseDataBuffer' = [Used EXCEPT ![mouseDataTime] = data]
            /\ MouseBufferReady' = (mouseDataTime = 2)
            /\ mouseDataTime' = (mouseDataTime + 1) % 3

-----------------------------------------------------------------------------
(* The mouse.                                                              *)

Aligned == ~skip /\ mouseDataTime = phase

Send(data) ==
    /\ data \in (IF phase = 0 THEN Heads ELSE Motions)
    /\ packet' = [packet EXCEPT ![phase] = data]
    /\ phase' = (phase + 1) % 3

Deliver(data) ==
    /\ Send(data)
    /\ HandleMouseData(data)
    /\ intact' = (Aligned /\ (phase = 0 \/ intact))
    /\ quiet' = CASE phase = 0 -> quiet
                  [] phase # 0 /\ Bit(data, 3) -> 0
                  [] OTHER -> IF quiet = 3 THEN 3 ELSE quiet + 1
    /\ UNCHANGED lost

Lose(data) ==
    /\ lost < MaxLost
    /\ Send(data)
    /\ lost' = lost + 1 /\ intact' = FALSE /\ quiet' = 0
    /\ UNCHANGED handler

MouseNext == \E data \in Heads \cup Motions : Deliver(data) \/ Lose(data)

MouseSpec == MouseInit /\ [][MouseNext]_mouseVars

-----------------------------------------------------------------------------
(* Properties.                                                             *)

\* The pointer never leaves the part of the screen where the cursor's left half
\* can be drawn, whatever the motions and however the packets are shifted.
TypeOK ==
    /\ MouseDataBuffer \in [0 .. 2 -> 0 .. 255] /\ MouseBufferReady \in BOOLEAN
    /\ mouseDataTime \in 0 .. 2 /\ skip \in BOOLEAN
    /\ MousePointerPosition \in [X : 0 .. MaxX, Y : 0 .. MaxY]
    /\ phase \in 0 .. 2 /\ packet \in [0 .. 2 -> 0 .. 255]
    /\ lost \in 0 .. MaxLost /\ intact \in BOOLEAN /\ quiet \in 0 .. 3

\* After a byte was lost, or the first one skipped, motions with bit 3 set can
\* pass for the start of a packet for as long as they come; three motion bytes
\* in a row without it put the handler back in step with the mouse.
Resynchronises == quiet = 3 => Aligned

\* What a packet means: motions are numbers of nine bits, the ninth in the head.
Meant(head, byte, sign) == IF Bit(head, sign) THEN byte - 256 ELSE byte

\* Packets whose motion the handler counts as it was meant: without an overflow,
\* and not the one of -256.
Exact(bytes) ==
    /\ ~Bit(bytes[0], XOverflow) /\ ~Bit(bytes[0], YOverflow)
    /\ Bit(bytes[0], XSign) => bytes[1] # 0
    /\ Bit(bytes[0], YSign) => bytes[2] # 0

\* A packet that arrived whole moves the pointer by what the mouse meant, up to
\* the edge of the screen, and it does so once.
PointerFollows ==
    [][MousePointerPosition' # MousePointerPosition \/ (MouseBufferReady /\ ~MouseBufferReady') =>
        /\ MouseBufferReady /\ ~MouseBufferReady'
        /\ intact /\ Exact(packet) =>
              MousePointerPosition' =
                  [X |-> Clamp(MousePointerPosition.X + Meant(packet[0], packet[1], XSign), MaxX),
                   Y |-> Clamp(MousePointerPosition.Y - Meant(packet[0], packet[2], YSign), MaxY)]]_mouseVars
=============================================================================
