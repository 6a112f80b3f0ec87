----------------------------- MODULE ScreenProofs -----------------------------
(***************************************************************************)
(* The theorems about what moves on the screen: the mouse's decoder, for   *)
(* every mouse and every number of lost bytes, and the text and the arrow, *)
(* for a screen of any size, any characters, prompts and commands.         *)
(*                                                                         *)
(* The decoder's proof bounds how far it can be out of step.  The text's   *)
(* numbers the cells row by row: the cursor is as far from the line's      *)
(* start as the line is long, and what comes after it is blank.            *)
(***************************************************************************)
EXTENDS Mouse, Renderer, SequenceTheorems, TLAPS

-----------------------------------------------------------------------------
(* The decoder's invariant.                                                  *)

\* How long a handler that is out of step can have seen motions without bit 3:
\* at the place where it looks for a packet's start, since that of the mouse's
\* packet, and else not longer than since it last took one for a start.
QuietBound ==
    /\ skip => quiet = 0 /\ mouseDataTime = 0
    /\ ~Aligned => quiet <= CASE mouseDataTime = 0 -> phase
                              [] mouseDataTime = 2 /\ phase = 0 -> 1
                              [] OTHER -> 0

\* A packet that was received from its first byte on is in the handler's buffer.
Received ==
    /\ MouseBufferReady => mouseDataTime = 0
    /\ intact =>
         /\ Aligned
         /\ \A n \in 0 .. 2 : phase = 0 \/ n < phase => MouseDataBuffer[n] = packet[n]

MouseInv == TypeOK /\ QuietBound /\ Received

-----------------------------------------------------------------------------
(* Lemmas about motions and positions.                                       *)

\* Negating a motion's byte gives a byte.  (mouse.cpp 70-95)
LEMMA AmountType ==
    ASSUME NEW byte \in 0 .. 255, NEW negative
    PROVE  Amount(byte, negative) \in 0 .. 255
  BY DEF Amount

\* A motion is a number of nine bits and a half.
LEMMA MotionType ==
    ASSUME NEW head, NEW byte \in 0 .. 255, NEW sign, NEW overflow
    PROVE  Motion(head, byte, sign, overflow) \in Int
  BY DEF Motion, Amount

\* Without an overflow a motion is the number that the mouse meant, all but -256.
LEMMA MotionMeant ==
    ASSUME NEW head, NEW byte \in 0 .. 255, NEW sign, NEW overflow,
           ~Bit(head, overflow), Bit(head, sign) => byte # 0
    PROVE  Motion(head, byte, sign, overflow) = Meant(head, byte, sign)
  BY DEF Motion, Meant, Amount

\* Clamping gives a position on the screen.
LEMMA ClampType ==
    ASSUME NEW n \in Int, NEW max \in Nat
    PROVE  Clamp(n, max) \in 0 .. max
  BY DEF Clamp

\* A position moves to a position.  (mouse.cpp 70-121)
LEMMA MovedType ==
    ASSUME NEW p \in [X : 0 .. MaxX, Y : 0 .. MaxY], NEW bytes \in [0 .. 2 -> 0 .. 255]
    PROVE  Moved(p, bytes) \in [X : 0 .. MaxX, Y : 0 .. MaxY]
<1>1. MaxX \in Nat /\ MaxY \in Nat
  BY MouseAssumption
<1>2. bytes[1] \in 0 .. 255 /\ bytes[2] \in 0 .. 255
  OBVIOUS
<1>3. /\ Motion(bytes[0], bytes[1], XSign, XOverflow) \in Int
      /\ Motion(bytes[0], bytes[2], YSign, YOverflow) \in Int
  BY <1>2, MotionType
<1>4. /\ p.X + Motion(bytes[0], bytes[1], XSign, XOverflow) \in Int
      /\ p.Y - Motion(bytes[0], bytes[2], YSign, YOverflow) \in Int
  BY <1>1, <1>3
<1> QED
  BY <1>1, <1>4, ClampType DEF Moved

\* Using a packet leaves bytes in the buffer, and its first one alone.
LEMMA UsedType ==
    ASSUME TypeOK
    PROVE  Used \in [0 .. 2 -> 0 .. 255]
<1>1. \A n \in 0 .. 2 : MouseDataBuffer[n] \in 0 .. 255
  BY DEF TypeOK
<1>2. /\ Amount(MouseDataBuffer[1], Bit(MouseDataBuffer[0], XSign)) \in 0 .. 255
      /\ Amount(MouseDataBuffer[2], Bit(MouseDataBuffer[0], YSign)) \in 0 .. 255
  BY <1>1 DEF Amount
<1> QED
  BY <1>2 DEF Used, TypeOK

-----------------------------------------------------------------------------
(* The decoder's steps and theorems.                                         *)

\* The initial states satisfy the invariant.
LEMMA MouseInvInit ==
    ASSUME MouseInit
    PROVE  MouseInv
<1>1. MaxX \in Nat /\ MaxY \in Nat /\ MaxLost \in Nat
  BY MouseAssumption
<1>2. TypeOK
  <2>1. MousePointerPosition \in [X : 0 .. MaxX, Y : 0 .. MaxY]
    BY <1>1 DEF MouseInit
  <2>2. MouseBufferReady \in BOOLEAN /\ skip \in BOOLEAN /\ intact \in BOOLEAN
    BY DEF MouseInit
  <2> QED
    BY <1>1, <2>1, <2>2 DEF MouseInit, TypeOK, Nothing
<1> QED
  BY <1>2 DEF MouseInit, MouseInv, QuietBound, Received, Aligned

\* The bytes that a mouse sends, and where they come in its packets.
LEMMA SendStep ==
    ASSUME TypeOK, NEW data, Send(data)
    PROVE  /\ data \in 0 .. 255 /\ phase = 0 => Bit(data, 3)
           /\ packet' \in [0 .. 2 -> 0 .. 255] /\ packet' = [packet EXCEPT ![phase] = data]
           /\ phase' = IF phase = 2 THEN 0 ELSE phase + 1
           /\ phase' \in 0 .. 2
<1>1. data \in 0 .. 255 /\ (phase = 0 => Bit(data, 3))
  BY MouseAssumption DEF Send
<1>2. phase' = IF phase = 2 THEN 0 ELSE phase + 1
  BY DEF Send, TypeOK
<1> QED
  BY <1>1, <1>2 DEF Send, TypeOK

\* Every step keeps it.
LEMMA MouseInvStep ==
    ASSUME MouseInv, [MouseNext]_mouseVars
    PROVE  MouseInv'
<1> USE DEF MouseInv
<1>1. MaxLost \in Nat
  BY MouseAssumption
<1>2. ASSUME NEW data, Deliver(data)
      PROVE  MouseInv'
  <2>1. /\ data \in 0 .. 255 /\ phase = 0 => Bit(data, 3)
        /\ packet' \in [0 .. 2 -> 0 .. 255] /\ packet' = [packet EXCEPT ![phase] = data]
        /\ phase' = IF phase = 2 THEN 0 ELSE phase + 1
        /\ phase' \in 0 .. 2
    BY <1>2, SendStep DEF Deliver
  <2>2. Used \in [0 .. 2 -> 0 .. 255]
    BY UsedType
  <2>3. /\ skip' = FALSE
        /\ CASE Ignored(data) -> /\ MouseDataBuffer' = Used /\ MouseBufferReady' = FALSE
                                 /\ mouseDataTime' = mouseDataTime
             [] OTHER -> /\ MouseDataBuffer' = [Used EXCEPT ![mouseDataTime] = data]
                         /\ MouseBufferReady' = (mouseDataTime = 2)
                         /\ mouseDataTime' = IF mouseDataTime = 2 THEN 0 ELSE mouseDataTime + 1
    BY <1>2 DEF Deliver, HandleMouseData, TypeOK
  <2>4. MousePointerPosition' \in [X : 0 .. MaxX, Y : 0 .. MaxY]
    BY <1>2, MovedType DEF Deliver, HandleMouseData, MouseDataAction, TypeOK
  <2>5. /\ quiet' = CASE phase = 0 -> quiet
                      [] phase # 0 /\ Bit(data, 3) -> 0
                      [] OTHER -> IF quiet = 3 THEN 3 ELSE quiet + 1
        /\ intact' = (Aligned /\ (phase = 0 \/ intact)) /\ lost' = lost
    BY <1>2 DEF Deliver
  <2>6. TypeOK'
    <3>1. MouseBufferReady' \in BOOLEAN /\ skip' \in BOOLEAN
      BY <2>3
    <3>2. intact' \in BOOLEAN
      BY <2>5 DEF TypeOK, Aligned
    <3>3. mouseDataTime' \in 0 .. 2 /\ MouseDataBuffer' \in [0 .. 2 -> 0 .. 255]
      BY <2>1, <2>2, <2>3 DEF TypeOK
    <3>4. lost' \in 0 .. MaxLost /\ quiet' \in 0 .. 3
      BY <2>5 DEF TypeOK
    <3> QED
      BY <2>1, <2>4, <3>1, <3>2, <3>3, <3>4 DEF TypeOK
  <2>7. QuietBound'
    BY <2>1, <2>3, <2>5 DEF TypeOK, QuietBound, Aligned, Ignored
  <2>8. Received'
    <3>1. MouseBufferReady' => mouseDataTime' = 0
      BY <2>3 DEF TypeOK
    <3>2. ASSUME intact'
          PROVE  /\ Aligned' /\ ~Ignored(data)
                 /\ mouseDataTime = phase /\ (phase # 0 => intact)
      BY <2>1, <2>3, <2>5, <3>2 DEF TypeOK, Aligned, Ignored
    <3>3. ASSUME intact', NEW n \in 0 .. 2, phase' = 0 \/ n < phase'
          PROVE  MouseDataBuffer'[n] = packet'[n]
      <4>1. /\ MouseDataBuffer' = [Used EXCEPT ![phase] = data] /\ packet' = [packet EXCEPT ![phase] = data]
            /\ packet \in [0 .. 2 -> 0 .. 255]
        BY <2>1, <2>3, <3>2, <3>3 DEF TypeOK
      <4>2. CASE n = phase
        BY <2>2, <4>1, <4>2
      <4>3. CASE n # phase
        <5>1. n < phase /\ intact /\ mouseDataTime # 0
          BY <2>1, <3>2, <3>3, <4>3 DEF TypeOK
        <5>2. Used[n] = packet[n]
          BY <5>1 DEF Used, Received
        <5> QED
          BY <2>2, <4>1, <4>3, <5>2
      <4> QED
        BY <4>2, <4>3
    <3> QED
      BY <3>1, <3>2, <3>3 DEF Received
  <2> QED
    BY <2>6, <2>7, <2>8
<1>3. ASSUME NEW data, Lose(data)
      PROVE  MouseInv'
  <2>1. /\ packet' \in [0 .. 2 -> 0 .. 255] /\ phase' \in 0 .. 2
    BY <1>3, SendStep DEF Lose
  <2>2. TypeOK'
    <3>1. intact' \in BOOLEAN /\ lost' \in 0 .. MaxLost /\ quiet' \in 0 .. 3
      <4>1. lost < MaxLost /\ lost' = lost + 1 /\ intact' = FALSE /\ quiet' = 0
        BY <1>3 DEF Lose
      <4>2. intact' \in BOOLEAN
        BY <4>1
      <4>3. lost \in 0 .. MaxLost
        BY DEF TypeOK
      <4>4. lost' \in 0 .. MaxLost /\ quiet' \in 0 .. 3
        BY <1>1, <4>1, <4>3
      <4> QED
        BY <4>2, <4>4
    <3> QED
      BY <1>3, <2>1, <3>1 DEF TypeOK, Lose, handler
  <2> QED
    BY <1>3, <2>1, <2>2 DEF TypeOK, Lose, handler, QuietBound, Received, Aligned
<1>4. CASE UNCHANGED mouseVars
  BY <1>4 DEF mouseVars, handler, mouse, TypeOK, QuietBound, Received, Aligned
<1> QED
  BY <1>2, <1>3, <1>4 DEF MouseNext

\* The strengthened invariant holds in every reachable state.
THEOREM MouseInvariance == MouseSpec => []MouseInv
<1>1. MouseInit => MouseInv
  BY MouseInvInit
<1>2. MouseInv /\ [MouseNext]_mouseVars => MouseInv'
  BY MouseInvStep
<1> QED
  BY <1>1, <1>2, PTL DEF MouseSpec

\* The pointer stays where the cursor can be drawn, whatever the packets and
\* however many of their bytes get lost.  (mouse.cpp 40-121)
THEOREM TypeCorrect == MouseSpec => []TypeOK
<1>1. MouseInv => TypeOK
  BY DEF MouseInv
<1> QED
  BY <1>1, MouseInvariance, PTL

\* Three motions in a row without bit 3 bring the handler back in step with the
\* mouse, whatever bytes were lost before.  (mouse.cpp 40-68)
THEOREM BackInStep == MouseSpec => []Resynchronises
<1>1. MouseInv => Resynchronises
  BY DEF MouseInv, TypeOK, QuietBound, Resynchronises
<1> QED
  BY <1>1, MouseInvariance, PTL

\* The pointer moves only when a packet is complete, and by what the mouse meant
\* if the packet was received whole.  (mouse.cpp 40-121)
THEOREM PointerMoves == MouseSpec => PointerFollows
<1> DEFINE Follows ==
      MousePointerPosition' # MousePointerPosition \/ (MouseBufferReady /\ ~MouseBufferReady') =>
        /\ MouseBufferReady /\ ~MouseBufferReady'
        /\ intact /\ Exact(packet) =>
              MousePointerPosition' =
                  [X |-> Clamp(MousePointerPosition.X + Meant(packet[0], packet[1], XSign), MaxX),
                   Y |-> Clamp(MousePointerPosition.Y - Meant(packet[0], packet[2], YSign), MaxY)]
<1>1. MouseInv /\ [MouseNext]_mouseVars => [Follows]_mouseVars
  <2> SUFFICES ASSUME MouseInv, MouseNext
               PROVE  Follows
    OBVIOUS
  <2>1. ASSUME NEW data, Deliver(data)
        PROVE  Follows
    <3> SUFFICES ASSUME MouseBufferReady
                 PROVE  Follows
      BY <2>1 DEF Deliver, HandleMouseData, MouseDataAction
    <3>1. ~MouseBufferReady'
      <4>1. mouseDataTime # 2
        BY DEF MouseInv, Received
      <4> QED
        BY <2>1, <4>1 DEF Deliver, HandleMouseData
    <3>2. MousePointerPosition' = Moved(MousePointerPosition, MouseDataBuffer)
      BY <2>1 DEF Deliver, HandleMouseData, MouseDataAction
    <3>3. ASSUME intact, Exact(packet)
          PROVE  MousePointerPosition' =
                  [X |-> Clamp(MousePointerPosition.X + Meant(packet[0], packet[1], XSign), MaxX),
                   Y |-> Clamp(MousePointerPosition.Y - Meant(packet[0], packet[2], YSign), MaxY)]
      <4>1. phase = 0
        BY <3>3 DEF MouseInv, Received, Aligned
      <4>2. \A n \in 0 .. 2 : MouseDataBuffer[n] = packet[n]
        BY <3>3, <4>1 DEF MouseInv, Received
      <4>3. packet[1] \in 0 .. 255 /\ packet[2] \in 0 .. 255
        BY DEF MouseInv, TypeOK
      <4>4. /\ Motion(packet[0], packet[1], XSign, XOverflow) = Meant(packet[0], packet[1], XSign)
            /\ Motion(packet[0], packet[2], YSign, YOverflow) = Meant(packet[0], packet[2], YSign)
        BY <3>3, <4>3, MotionMeant DEF Exact
      <4> QED
        BY <3>2, <4>2, <4>4 DEF Moved
    <3> QED
      BY <3>1, <3>3
  <2>2. ASSUME NEW data, Lose(data)
        PROVE  Follows
    BY <2>2 DEF Lose, handler
  <2> QED
    BY <2>1, <2>2 DEF MouseNext
<1> QED
  BY <1>1, MouseInvariance, PTL DEF MouseSpec, PointerFollows

-----------------------------------------------------------------------------
(* Lemmas about cells and their numbers.                                     *)

\* A cell is a column and a row.
LEMMA CellIs ==
    ASSUME NEW cell \in Cells
    PROVE  /\ cell[1] \in 0 .. Columns - 1 /\ cell[2] \in 0 .. Rows - 1
           /\ cell = <<cell[1], cell[2]>>
           /\ cell[1] \in Nat /\ cell[2] \in Nat /\ Columns \in Nat \ {0}
BY RendererAssumption DEF Cells

\* A later row is further on.
LEMMA RowsFollow ==
    ASSUME NEW width \in Nat, NEW m \in Nat, NEW n \in Nat, m < n
    PROVE  (m + 1) * width <= n * width /\ (m + 1) * width = m * width + width
OBVIOUS

\* The number of a cell tells its row.
LEMMA Rowwise ==
    ASSUME NEW a \in Cells, NEW b \in Cells
    PROVE  /\ Position(a) \in Nat
           /\ a[2] < b[2] => Position(a) < Position(b) - b[1]
           /\ Position(a) = Position(b) => a = b
<1>1. /\ a[1] \in 0 .. Columns - 1 /\ a[2] \in Nat /\ b[1] \in 0 .. Columns - 1 /\ b[2] \in Nat
      /\ Columns \in Nat /\ a = <<a[1], a[2]>> /\ b = <<b[1], b[2]>>
  BY CellIs
<1> DEFINE x == a[2] * Columns
           y == b[2] * Columns
<1>2. x \in Nat /\ y \in Nat
  BY <1>1
<1>3. Position(a) = x + a[1] /\ Position(b) = y + b[1]
  BY DEF Position
<1>4. a[2] < b[2] => x + Columns <= y
  BY <1>1, RowsFollow
<1>5. b[2] < a[2] => y + Columns <= x
  BY <1>1, RowsFollow
<1>6. a[2] = b[2] => x = y
  OBVIOUS
<1> HIDE DEF x, y
<1>7. a[2] < b[2] \/ b[2] < a[2] \/ a[2] = b[2]
  BY <1>1
<1>8. a[2] < b[2] => Position(a) < Position(b) - b[1]
  BY <1>1, <1>2, <1>3, <1>4
<1>9. Position(a) = Position(b) => a[2] = b[2] /\ a[1] = b[1]
  BY <1>1, <1>2, <1>3, <1>4, <1>5, <1>6, <1>7
<1> QED
  BY <1>1, <1>2, <1>3, <1>8, <1>9

\* The quotient and the remainder.
LEMMA DivMod ==
    ASSUME NEW n \in Nat, NEW d \in Nat \ {0}
    PROVE  (n \div d) * d + (n % d) = n
OBVIOUS

\* The cell that follows has the next number.
LEMMA AdvanceIs ==
    ASSUME NEW cell \in Cells
    PROVE  Position(Advance(cell)) = Position(cell) + 1
<1>1. Position(cell) \in Nat /\ Columns \in Nat \ {0}
  BY Rowwise, CellIs
<1> DEFINE n == Position(cell) + 1
<1>2. n \in Nat
  BY <1>1
<1> HIDE DEF n
<1>3. Position(Cell(n)) = (n \div Columns) * Columns + (n % Columns)
  BY DEF Position, Cell
<1>4. Position(Cell(n)) = n
  BY <1>1, <1>2, <1>3, DivMod
<1> QED
  BY <1>4 DEF Advance, n

\* The cell before has the number before, but for the first cell of the screen.
LEMMA BackIs ==
    ASSUME NEW cell \in Cells, Position(cell) # 0
    PROVE  Back(cell) \in Cells /\ Position(Back(cell)) = Position(cell) - 1
<1>1. /\ cell[1] \in 0 .. Columns - 1 /\ cell[2] \in 0 .. Rows - 1
      /\ Columns \in Nat \ {0} /\ Rows \in Nat
  BY CellIs, RendererAssumption
<1>2. CASE cell[1] # 0
  <2>1. Back(cell) = <<cell[1] - 1, cell[2]>>
    BY <1>2 DEF Back
  <2>2. Back(cell) \in Cells
    BY <1>1, <1>2, <2>1 DEF Cells
  <2>3. cell[2] * Columns \in Nat
    BY <1>1
  <2> QED
    BY <1>1, <2>1, <2>2, <2>3 DEF Position
<1>3. CASE cell[1] = 0
  <2>1. cell[2] # 0
    BY <1>1, <1>3 DEF Position
  <2>2. Back(cell) = <<Columns - 1, cell[2] - 1>>
    BY <1>3, <2>1 DEF Back
  <2>3. Back(cell) \in Cells
    BY <1>1, <2>1, <2>2 DEF Cells
  <2>4. PICK m \in Nat : cell[2] = m + 1
    BY <1>1, <2>1
  <2>5. (m + 1) * Columns = m * Columns + Columns /\ m * Columns \in Nat
    BY <1>1, <2>4
  <2>6. Position(cell) = m * Columns + Columns
    <3>1. Position(cell) = (m + 1) * Columns + 0
      BY <1>3, <2>4 DEF Position
    <3> QED
      BY <1>1, <2>5, <3>1
  <2>7. Position(Back(cell)) = m * Columns + (Columns - 1)
    BY <2>2, <2>4 DEF Position
  <2> QED
    BY <1>1, <2>3, <2>5, <2>6, <2>7
<1> QED
  BY <1>2, <1>3

-----------------------------------------------------------------------------
(* The text's invariant, its steps and its theorem.                          *)

ScreenTyped ==
    /\ DOMAIN screen = Cells
    /\ CursorPosition \in Cells /\ start \in Cells
    /\ lastCursorPosition \in Positions
    /\ line \in Seq(Chars)

ScreenInv ==
    /\ ScreenTyped
    /\ Position(CursorPosition) = Position(start) + Len(line)
    /\ LineShown

\* What LineShown says of a cell.
Shown(cell) ==
    Position(cell) >= Position(start) /\ Smear \notin screen[cell] =>
        /\ screen[cell] \ {Arrow, Bar, Cleared, Trace} = Expected(cell)
        /\ Bar \in screen[cell] => cell = CursorPosition

\* No character and no letter is drawn in a cell, and no piece of one.
Blank(marks) == marks \subseteq {Arrow, Bar, Cleared, Trace}

\* The marks are told apart.
LEMMA MarksApart ==
    /\ Arrow # Bar /\ Arrow # Smear /\ Bar # Smear /\ Cleared # Bar /\ Cleared # Smear
    /\ Trace # Bar /\ Trace # Smear /\ Letter # Bar /\ Letter # Smear /\ Cut # Bar /\ Cut # Smear
    /\ \A char \in Chars : char \notin {Bar, Arrow, Letter, Cleared, Trace, Cut, Smear}
<1>1. /\ Arrow # Bar /\ Arrow # Smear /\ Bar # Smear /\ Cleared # Bar /\ Cleared # Smear
      /\ Trace # Bar /\ Trace # Smear /\ Letter # Bar /\ Letter # Smear /\ Cut # Bar /\ Cut # Smear
  BY DEF Bar, Arrow, Letter, Cleared, Trace, Cut, Smear
<1>2. \A char \in Chars : char \notin {Bar, Arrow, Letter, Cleared, Trace, Cut, Smear}
  BY RendererAssumption DEF Marks
<1> QED
  BY <1>1, <1>2

\* The pointer is gone from where it was, smeared cells stay so and blank ones
\* blank.  (BasicRenderer.cpp, hidePointer)
LEMMA UncoveredIs ==
    ASSUME NEW marks
    PROVE  /\ Bar \notin Uncovered(marks)
           /\ Smear \in Uncovered(marks) <=> Smear \in marks
           /\ Blank(marks) => Blank(Uncovered(marks))
<1>1. ASSUME NEW m \in marks \ {Bar}, m \in Chars \cup {Letter}
      PROVE  m # Smear /\ ~Blank(marks)
  BY <1>1, MarksApart DEF Blank, Letter, Arrow, Cleared, Trace
<1>2. \A m : m \in Uncovered(marks) <=>
               \/ m = Cut /\ \E k \in marks \ {Bar} : k \in Chars \cup {Letter}
               \/ m \in marks \ {Bar} /\ m \notin Chars \cup {Letter}
               \/ m = Trace /\ Cleared \in marks
  BY DEF Uncovered
<1>3. Bar \notin Uncovered(marks)
  BY <1>2, MarksApart
<1>4. Smear \in Uncovered(marks) <=> Smear \in marks
  BY <1>1, <1>2, MarksApart
<1>5. Blank(marks) => Blank(Uncovered(marks))
  BY <1>1, <1>2 DEF Blank
<1> QED
  BY <1>3, <1>4, <1>5

\* The pointer is gone from a cell it blinked in, and no other cell changed.
LEMMA BlinkIs ==
    ASSUME NEW drawn, DOMAIN drawn = Cells, NEW cell \in Cells
    PROVE  /\ DOMAIN Blink(drawn, cell) = Cells
           /\ Bar \notin Blink(drawn, cell)[cell]
           /\ Smear \in Blink(drawn, cell)[cell] <=> Smear \in drawn[cell]
           /\ Blank(drawn[cell]) => Blank(Blink(drawn, cell)[cell])
           /\ \A c \in Cells : c # cell => Blink(drawn, cell)[c] = drawn[c]
<1> DEFINE shown == showPointer(drawn, cell)
<1>1. /\ DOMAIN shown = Cells
      /\ shown[cell] = drawn[cell] \cup {Bar}
      /\ \A c \in Cells : c # cell => shown[c] = drawn[c]
  BY DEF showPointer
<1> HIDE DEF shown
<1>2. /\ DOMAIN hidePointer(shown, cell) = Cells
      /\ hidePointer(shown, cell)[cell] = Uncovered(shown[cell])
      /\ \A c \in Cells : c # cell => hidePointer(shown, cell)[c] = shown[c]
  BY <1>1 DEF hidePointer
<1>3. Blink(drawn, cell) = hidePointer(shown, cell)
  BY DEF Blink, shown
<1>4. /\ Smear \in shown[cell] <=> Smear \in drawn[cell]
      /\ Blank(drawn[cell]) => Blank(shown[cell])
  BY <1>1, MarksApart DEF Blank
<1> QED
  BY <1>1, <1>2, <1>3, <1>4, UncoveredIs

\* The first state: the prompt, and the cursor behind it.
LEMMA ScreenInvInit ==
    ASSUME Init
    PROVE  ScreenInv
<1> DEFINE first == <<PromptLength, 0>>
<1>1. /\ screen = showPointer(PrintText(Empty, <<0, 0>>, PromptLength), first)
      /\ CursorPosition = first /\ start = first /\ line = <<>>
      /\ lastCursorPosition = Origin
  BY DEF Init
<1>2. first \in Cells /\ <<0, 0>> \in Cells
  BY RendererAssumption DEF Cells
<1>3. Position(first) = PromptLength /\ Position(<<0, 0>>) = 0 /\ PromptLength \in Nat
  <2>1. 0 * Columns = 0
    BY RendererAssumption
  <2> QED
    BY <2>1, RendererAssumption DEF Position
<1> DEFINE drawn == PrintText(Empty, <<0, 0>>, PromptLength)
<1>4. /\ DOMAIN drawn = Cells
      /\ \A c \in Cells : Position(c) \notin 0 .. 0 + PromptLength - 1 => drawn[c] = {}
  BY <1>3 DEF PrintText, Empty
<1> HIDE DEF first, drawn
<1>5. /\ DOMAIN screen = Cells /\ screen[first] = drawn[first] \cup {Bar}
      /\ \A c \in Cells : c # first => screen[c] = drawn[c]
  BY <1>1, <1>2, <1>4 DEF showPointer, drawn
<1>6. ScreenTyped
  BY <1>1, <1>2, <1>5, RendererAssumption DEF ScreenTyped
<1>7. Len(line) = 0
  BY <1>1
<1>8. Position(CursorPosition) = Position(start) + Len(line)
  BY <1>1, <1>3, <1>7
<1>9. ASSUME NEW c \in Cells
      PROVE  Shown(c)
  <2> SUFFICES ASSUME Position(c) >= Position(start)
               PROVE  /\ screen[c] \ {Arrow, Bar, Cleared, Trace} = Expected(c)
                      /\ Bar \in screen[c] => c = CursorPosition
    BY DEF Shown
  <2>1. Position(c) \in Nat /\ Position(c) >= PromptLength
    BY <1>1, <1>3, Rowwise
  <2>2. drawn[c] = {}
    BY <1>3, <1>4, <2>1
  <2>3. Expected(c) = {}
    BY <1>1, <1>3, <1>7, <2>1 DEF Expected
  <2> QED
    BY <1>1, <1>5, <2>2, <2>3
<1>10. LineShown
  BY <1>9 DEF LineShown, Shown
<1> QED
  BY <1>6, <1>8, <1>10 DEF ScreenInv

\* A character that is typed.  (BasicRenderer.cpp, PutChar)
LEMMA StepPutChar ==
    ASSUME ScreenInv, NEW char \in Chars, PutChar(char)
    PROVE  ScreenInv'
<1> DEFINE here == CursorPosition
           next == Advance(CursorPosition)
           blinked == Blink(screen, here)
           drawn == [blinked EXCEPT ![here] = @ \cup {char}]
<1>1. /\ next \in Cells /\ screen' = Blink(drawn, next) /\ CursorPosition' = next
      /\ line' = Append(line, char)
      /\ UNCHANGED <<lastCursorPosition, lastCursorBackground, start, moves>>
  BY DEF PutChar
<1>2. ScreenTyped /\ LineShown /\ Position(here) = Position(start) + Len(line)
  BY DEF ScreenInv
<1>3. here \in Cells /\ Position(next) = Position(here) + 1 /\ DOMAIN screen = Cells
  BY <1>2, AdvanceIs DEF ScreenTyped
<1> HIDE DEF next
<1>4. /\ DOMAIN blinked = Cells /\ Bar \notin blinked[here]
      /\ Smear \in blinked[here] <=> Smear \in screen[here]
      /\ Blank(screen[here]) => Blank(blinked[here])
      /\ \A c \in Cells : c # here => blinked[c] = screen[c]
  BY <1>3, BlinkIs
<1> HIDE DEF blinked
<1>5. /\ DOMAIN drawn = Cells /\ drawn[here] = blinked[here] \cup {char}
      /\ \A c \in Cells : c # here => drawn[c] = screen[c]
  BY <1>3, <1>4
<1> HIDE DEF drawn
<1>6. /\ DOMAIN screen' = Cells /\ Bar \notin screen'[next]
      /\ Smear \in screen'[next] <=> Smear \in drawn[next]
      /\ Blank(drawn[next]) => Blank(screen'[next])
      /\ \A c \in Cells : c # next => screen'[c] = drawn[c]
  BY <1>1, <1>5, BlinkIs
<1>7. /\ Len(line) \in Nat /\ Len(line') = Len(line) + 1 /\ line' \in Seq(Chars)
      /\ line'[Len(line) + 1] = char
      /\ \A n \in 1 .. Len(line) : line'[n] = line[n]
  BY <1>1, <1>2 DEF ScreenTyped
<1>8. Position(start) \in Nat /\ Position(here) \in Nat
  BY <1>2, <1>3, Rowwise DEF ScreenTyped
<1>9. here # next
  BY <1>3, <1>8
<1>10. ASSUME NEW c \in Cells, Position(c) >= Position(start), Smear \notin screen'[c]
       PROVE  /\ screen'[c] \ {Arrow, Bar, Cleared, Trace} = Expected(c)'
              /\ Bar \notin screen'[c]
  <2> DEFINE n == Position(c) - Position(start) + 1
  <2>1. Position(c) \in Nat
    BY Rowwise
  <2>2. n \in Nat \ {0}
    BY <1>8, <1>10, <2>1
  <2>3. Smear \notin screen[c]
    BY <1>4, <1>5, <1>6, <1>9, <1>10
  <2>4. /\ screen[c] \ {Arrow, Bar, Cleared, Trace} = Expected(c)
        /\ Bar \in screen[c] => c = here
    BY <1>2, <1>10, <2>3 DEF LineShown
  <2>5. Expected(c) = IF n <= Len(line) THEN {line[n]} ELSE {}
    BY DEF Expected
  <2>6. Expected(c)' = IF n <= Len(line') THEN {line'[n]} ELSE {}
    BY <1>1 DEF Expected, Position
  <2>7. /\ c = here <=> n = Len(line) + 1
        /\ c = next <=> n = Len(line) + 2
    <3>1. /\ Position(c) = Position(here) <=> n = Len(line) + 1
          /\ Position(c) = Position(next) <=> n = Len(line) + 2
      BY <1>2, <1>3, <1>7, <1>8, <2>1
    <3> QED
      BY <1>1, <1>3, <3>1, Rowwise
  <2> HIDE DEF n
  <2>8. CASE c = here
    <3>1. screen'[c] = blinked[here] \cup {char}
      BY <1>5, <1>6, <1>9, <2>8
    <3>2. Blank(blinked[here])
      BY <1>4, <1>7, <2>4, <2>5, <2>7, <2>8 DEF Blank
    <3>3. Expected(c)' = {char}
      BY <1>7, <2>6, <2>7, <2>8
    <3> QED
      BY <1>4, <3>1, <3>2, <3>3, MarksApart DEF Blank
  <2>9. CASE c = next
    <3>1. drawn[c] = screen[c]
      BY <1>5, <1>9, <2>9
    <3>2. Blank(drawn[c])
      BY <1>7, <2>4, <2>5, <2>7, <2>9, <3>1 DEF Blank
    <3>3. Expected(c)' = {}
      BY <1>7, <2>6, <2>7, <2>9
    <3> QED
      BY <1>6, <2>9, <3>2, <3>3 DEF Blank
  <2>10. CASE c # here /\ c # next
    <3>1. screen'[c] = screen[c] /\ Bar \notin screen[c]
      BY <1>5, <1>6, <2>4, <2>10
    <3>2. Expected(c)' = Expected(c)
      <4>1. n <= Len(line') <=> n <= Len(line)
        BY <1>7, <2>2, <2>7, <2>10
      <4>2. n <= Len(line) => line'[n] = line[n]
        BY <1>7, <2>2
      <4> QED
        BY <2>5, <2>6, <4>1, <4>2
    <3> QED
      BY <2>4, <3>1, <3>2
  <2> QED
    BY <2>8, <2>9, <2>10
<1>11. LineShown'
  BY <1>1, <1>10 DEF LineShown, Position
<1>12. ScreenTyped'
  BY <1>1, <1>2, <1>6, <1>7 DEF ScreenTyped
<1>13. (Position(CursorPosition) = Position(start) + Len(line))'
  <2>1. Position(next) = Position(start) + Len(line')
    BY <1>2, <1>3, <1>7, <1>8
  <2> QED
    BY <1>1, <2>1 DEF Position
<1> QED
  BY <1>11, <1>12, <1>13 DEF ScreenInv

\* A character that is taken back, from the row above when the line went over
\* its end.  (BasicRenderer.cpp, ClearChar)
LEMMA StepClearChar ==
    ASSUME ScreenInv, ClearChar
    PROVE  ScreenInv'
<1> DEFINE here == CursorPosition
           erased == Back(CursorPosition)
           blinked == Blink(screen, here)
           cleared == [blinked EXCEPT ![erased] = {Cleared}]
<1>1. /\ line # <<>> /\ screen' = showPointer(cleared, erased)
      /\ CursorPosition' = erased
      /\ line' = SubSeq(line, 1, Len(line) - 1)
      /\ UNCHANGED <<lastCursorPosition, lastCursorBackground, start, moves>>
  BY DEF ClearChar
<1>2. /\ ScreenTyped /\ LineShown /\ Position(here) = Position(start) + Len(line)
      /\ here \in Cells /\ DOMAIN screen = Cells
  BY DEF ScreenInv, ScreenTyped
<1>3. /\ Len(line) \in Nat \ {0} /\ Len(line') = Len(line) - 1 /\ line' \in Seq(Chars)
      /\ \A n \in 1 .. Len(line') : line'[n] = line[n]
  <2>1. line \in Seq(Chars) /\ Len(line) \in Nat \ {0}
    BY <1>1, <1>2, EmptySeq DEF ScreenTyped
  <2> DEFINE last == Len(line) - 1
  <2>2. last \in Nat /\ \A n \in 1 .. last : line[n] \in Chars
    BY <2>1, ElementOfSeq
  <2> HIDE DEF last
  <2>3. /\ SubSeq(line, 1, last) \in Seq(Chars)
        /\ Len(SubSeq(line, 1, last)) = last
        /\ \A n \in 1 .. last : SubSeq(line, 1, last)[n] = line[n]
    BY <2>1, <2>2
  <2> QED
    BY <1>1, <2>1, <2>3 DEF last
<1>4. Position(start) \in Nat /\ Position(here) \in Nat
  BY <1>2, Rowwise DEF ScreenTyped
<1>5. erased \in Cells /\ Position(erased) = Position(here) - 1
  <2>1. Position(here) # 0
    BY <1>2, <1>3, <1>4
  <2> QED
    BY <1>2, <2>1, BackIs
<1> HIDE DEF erased
<1>6. /\ DOMAIN blinked = Cells /\ Bar \notin blinked[here]
      /\ Smear \in blinked[here] <=> Smear \in screen[here]
      /\ Blank(screen[here]) => Blank(blinked[here])
      /\ \A c \in Cells : c # here => blinked[c] = screen[c]
  BY <1>2, BlinkIs
<1> HIDE DEF blinked
<1>7. /\ DOMAIN cleared = Cells /\ cleared[erased] = {Cleared}
      /\ \A c \in Cells : c # erased => cleared[c] = blinked[c]
  BY <1>5, <1>6
<1> HIDE DEF cleared
<1>8. /\ DOMAIN screen' = Cells /\ screen'[erased] = {Cleared, Bar}
      /\ \A c \in Cells : c # erased => screen'[c] = blinked[c]
  BY <1>1, <1>5, <1>7 DEF showPointer
<1>9. erased # here
  BY <1>4, <1>5
<1>10. ASSUME NEW c \in Cells, Position(c) >= Position(start), Smear \notin screen'[c]
       PROVE  /\ screen'[c] \ {Arrow, Bar, Cleared, Trace} = Expected(c)'
              /\ Bar \in screen'[c] => c = erased
  <2> DEFINE n == Position(c) - Position(start) + 1
  <2>1. Position(c) \in Nat
    BY Rowwise
  <2>2. n \in Nat \ {0}
    BY <1>4, <1>10, <2>1
  <2>3. Expected(c) = IF n <= Len(line) THEN {line[n]} ELSE {}
    BY DEF Expected
  <2>4. Expected(c)' = IF n <= Len(line') THEN {line'[n]} ELSE {}
    BY <1>1 DEF Expected, Position
  <2>5. /\ c = erased <=> n = Len(line)
        /\ c = here <=> n = Len(line) + 1
    <3>1. /\ Position(c) = Position(erased) <=> n = Len(line)
          /\ Position(c) = Position(here) <=> n = Len(line) + 1
      BY <1>2, <1>3, <1>4, <1>5, <2>1
    <3> QED
      BY <1>2, <1>5, <3>1, Rowwise
  <2> HIDE DEF n
  <2>6. CASE c = erased
    <3>1. screen'[c] \ {Arrow, Bar, Cleared, Trace} = {}
      BY <1>8, <2>6
    <3>2. Expected(c)' = {}
      BY <1>3, <2>4, <2>5, <2>6
    <3> QED
      BY <2>6, <3>1, <3>2
  <2>7. CASE c # erased
    <3>1. Smear \notin screen[c] /\ screen'[c] = blinked[c]
      BY <1>6, <1>8, <1>10, <2>7
    <3>2. /\ screen[c] \ {Arrow, Bar, Cleared, Trace} = Expected(c)
          /\ Bar \in screen[c] => c = here
      BY <1>2, <1>10, <3>1 DEF LineShown
    <3>3. /\ n <= Len(line') <=> n <= Len(line)
          /\ n <= Len(line') => line'[n] = line[n]
      BY <1>3, <2>2, <2>5, <2>7
    <3>4. Expected(c)' = Expected(c)
      BY <2>3, <2>4, <3>3
    <3>5. CASE c = here
      <4>1. Expected(c) = {}
        BY <1>3, <2>3, <2>5, <3>5
      <4>2. Blank(blinked[c])
        BY <1>6, <3>2, <3>5, <4>1 DEF Blank
      <4> QED
        BY <1>6, <3>1, <3>4, <3>5, <4>1, <4>2 DEF Blank
    <3>6. CASE c # here
      BY <1>6, <3>1, <3>2, <3>4, <3>6
    <3> QED
      BY <3>5, <3>6
  <2> QED
    BY <2>6, <2>7
<1>11. LineShown'
  BY <1>1, <1>10 DEF LineShown, Position
<1>12. ScreenTyped'
  BY <1>1, <1>2, <1>3, <1>5, <1>8 DEF ScreenTyped
<1>13. (Position(CursorPosition) = Position(start) + Len(line))'
  <2>1. Position(erased) = Position(start) + Len(line')
    BY <1>2, <1>3, <1>4, <1>5
  <2> QED
    BY <1>1, <2>1 DEF Position
<1> QED
  BY <1>11, <1>12, <1>13 DEF ScreenInv

\* A cell that the pointer does not stand in and nothing is drawn in.
Bare(marks) == Blank(marks) /\ Bar \notin marks

\* A prompt on a screen that is blank below a row.
LEMMA PromptShown ==
    ASSUME NEW drawn, NEW row \in Nat, NewPrompt(drawn, row), DOMAIN drawn = Cells,
           lastCursorPosition' \in Positions,
           \A c \in Cells : c[2] > row /\ Smear \notin drawn[c] => Bare(drawn[c])
    PROVE  ScreenInv'
<1> DEFINE first == <<0, row + 1>>
           after == <<PromptLength, row + 1>>
           blinked == Blink(drawn, first)
           printed == PrintText(blinked, first, PromptLength)
<1>1. /\ row + 1 < Rows /\ screen' = showPointer(printed, after)
      /\ CursorPosition' = after /\ line' = <<>> /\ start' = after
  BY DEF NewPrompt
<1>2. first \in Cells /\ after \in Cells
  BY <1>1, RendererAssumption DEF Cells
<1>3. /\ Position(first) \in Nat /\ Position(after) = Position(first) + PromptLength
      /\ PromptLength \in Nat
  <2>1. (row + 1) * Columns \in Nat /\ PromptLength \in Nat
    BY RendererAssumption
  <2> QED
    BY <2>1 DEF Position
<1>4. /\ DOMAIN blinked = Cells /\ Bar \notin blinked[first]
      /\ Smear \in blinked[first] <=> Smear \in drawn[first]
      /\ Blank(drawn[first]) => Blank(blinked[first])
      /\ \A c \in Cells : c # first => blinked[c] = drawn[c]
  BY <1>2, BlinkIs
<1>5. /\ DOMAIN printed = Cells
      /\ \A c \in Cells : Position(c) \notin Position(first) .. Position(first) + PromptLength - 1
                            => printed[c] = blinked[c]
  BY DEF PrintText
<1> HIDE DEF blinked, printed
<1>6. /\ DOMAIN screen' = Cells /\ screen'[after] = printed[after] \cup {Bar}
      /\ \A c \in Cells : c # after => screen'[c] = printed[c]
  BY <1>1, <1>2, <1>5 DEF showPointer
<1>7. Len(line') = 0 /\ line' \in Seq(Chars)
  BY <1>1
<1>8. ASSUME NEW c \in Cells, Position(c) >= Position(after), Smear \notin screen'[c]
      PROVE  /\ screen'[c] \ {Arrow, Bar, Cleared, Trace} = Expected(c)'
             /\ Bar \in screen'[c] => c = after
  <2>1. Position(c) \in Nat /\ Position(after) \in Nat
    BY <1>2, Rowwise
  <2>2. c[2] > row
    <3>1. c[2] < after[2] => Position(c) < Position(after) - after[1]
      BY <1>2, Rowwise
    <3>2. after[1] = PromptLength /\ after[2] = row + 1 /\ c[2] \in Nat
      BY CellIs
    <3> HIDE DEF after
    <3>3. ~(c[2] < after[2])
      BY <1>3, <1>8, <2>1, <3>1, <3>2
    <3> QED
      BY <3>2, <3>3
  <2>3. printed[c] = blinked[c]
    BY <1>3, <1>5, <1>8, <2>1
  <2>4. Smear \notin blinked[c]
    BY <1>6, <1>8, <2>3
  <2>5. Bare(drawn[c])
    BY <1>4, <2>2, <2>4
  <2>6. Bare(blinked[c])
    BY <1>4, <2>5 DEF Bare
  <2>7. Expected(c)' = {}
    <3>1. Expected(c)' = LET n == Position(c) - Position(after) + 1
                         IN  IF n <= Len(line') THEN {line'[n]} ELSE {}
      BY <1>1 DEF Expected, Position
    <3> HIDE DEF after
    <3> QED
      BY <1>7, <1>8, <2>1, <3>1
  <2> QED
    BY <1>6, <2>3, <2>6, <2>7 DEF Bare, Blank
<1>9. LineShown'
  BY <1>1, <1>8 DEF LineShown, Position
<1>10. ScreenTyped'
  BY <1>1, <1>2, <1>6, <1>7 DEF ScreenTyped
<1>11. (Position(CursorPosition) = Position(start) + Len(line))'
  <2>1. Position(after) = Position(after) + Len(line')
    BY <1>2, <1>7, Rowwise
  <2> QED
    BY <1>1, <2>1 DEF Position
<1> QED
  BY <1>9, <1>10, <1>11 DEF ScreenInv

\* Below what a command prints the screen is as bare as below its line.
LEMMA PrintedIs ==
    ASSUME ScreenInv, NEW lines \in Nat
    PROVE  /\ CursorPosition[2] + 2 + lines \in Nat
           /\ DOMAIN Printed(lines) = Cells
           /\ \A c \in Cells : /\ c[2] > CursorPosition[2] + 2 + lines
                               /\ Smear \notin Printed(lines)[c]
                               => Bare(Printed(lines)[c])
<1> DEFINE here == CursorPosition
           top == here[2] + 2
<1>1. /\ ScreenTyped /\ LineShown /\ Position(here) = Position(start) + Len(line)
      /\ here \in Cells /\ start \in Cells /\ DOMAIN screen = Cells /\ Len(line) \in Nat
  BY DEF ScreenInv, ScreenTyped
<1>2. top \in Nat /\ here[2] \in Nat /\ here[2] < top
  BY <1>1, CellIs
<1>3. DOMAIN Printed(lines) = Cells
  BY DEF Printed
<1>4. ASSUME NEW c \in Cells, c[2] > top + lines, Smear \notin Printed(lines)[c]
      PROVE  Bare(Printed(lines)[c])
  <2>1. c[2] \in Nat /\ here[2] < c[2]
    BY <1>2, <1>4, CellIs
  <2>2. /\ Position(c) \in Nat /\ Position(here) \in Nat /\ Position(start) \in Nat
        /\ Position(here) < Position(c)
    <3>1. Position(here) < Position(c) - c[1]
      BY <1>1, <2>1, Rowwise
    <3>2. c[1] \in Nat /\ Position(c) \in Nat /\ Position(here) \in Nat /\ Position(start) \in Nat
      BY <1>1, CellIs, Rowwise
    <3> QED
      BY <3>1, <3>2
  <2>3. c # here /\ Position(c) >= Position(start)
    BY <1>1, <2>2
  <2>4. Printed(lines)[c] = screen[c]
    <3>1. c[2] \notin here[2] + 1 .. top + lines /\ c[2] \notin top .. top + lines - 1
      BY <1>2, <1>4, <2>1
    <3> QED
      BY <2>3, <3>1 DEF Printed, NextRows
  <2>5. Expected(c) = {}
    BY <1>1, <2>2 DEF Expected
  <2>6. screen[c] \ {Arrow, Bar, Cleared, Trace} = {} /\ Bar \notin screen[c]
    BY <1>1, <1>4, <2>3, <2>4, <2>5 DEF LineShown
  <2> QED
    BY <2>4, <2>6 DEF Bare, Blank
<1> QED
  BY <1>2, <1>3, <1>4

\* A command and its output, which comes two rows below.
LEMMA StepEnter ==
    ASSUME ScreenInv, NEW lines \in Output, Enter(lines)
    PROVE  ScreenInv'
<1>1. /\ NewPrompt(Printed(lines), CursorPosition[2] + 2 + lines)
      /\ UNCHANGED <<lastCursorPosition, lastCursorBackground, moves>>
  BY DEF Enter
<1>2. lines \in Nat
  BY RendererAssumption
<1>3. lastCursorPosition' \in Positions
  BY <1>1 DEF ScreenInv, ScreenTyped
<1>4. PICK d, n : d = Printed(lines) /\ n = CursorPosition[2] + 2 + lines
  OBVIOUS
<1>5. /\ n \in Nat /\ NewPrompt(d, n) /\ DOMAIN d = Cells
      /\ \A c \in Cells : c[2] > n /\ Smear \notin d[c] => Bare(d[c])
  BY <1>1, <1>2, <1>4, PrintedIs
<1> QED
  BY <1>3, <1>5, PromptShown

\* Where the arrow comes or goes nothing else changes, but for what it smears.
\* (BasicRenderer.cpp, DelteCursor, DrawCursor)
LEMMA ArrowIs ==
    ASSUME NEW drawn, DOMAIN drawn = Cells, NEW p
    PROVE  /\ DOMAIN WithArrow(Deleted(drawn), p) = Cells
           /\ \A c \in Cells : Smear \notin WithArrow(Deleted(drawn), p)[c] =>
                  /\ WithArrow(Deleted(drawn), p)[c] \ {Arrow} = drawn[c] \ {Arrow}
                  /\ Smear \notin drawn[c]
<1> DEFINE deleted == Deleted(drawn)
<1>1. ASSUME NEW c \in Cells, Smear \notin deleted[c]
      PROVE  deleted[c] \ {Arrow} = drawn[c] \ {Arrow}
  <2>1. deleted[c] = IF c \notin DOMAIN lastCursorBackground THEN drawn[c]
                     ELSE IF drawn[c] \ {Arrow} = lastCursorBackground[c] THEN lastCursorBackground[c]
                     ELSE (drawn[c] \ {Arrow}) \cup lastCursorBackground[c] \cup {Smear}
    BY DEF Deleted
  <2> HIDE DEF deleted
  <2>2. deleted[c] = drawn[c] \/ deleted[c] = drawn[c] \ {Arrow}
    BY <1>1, <2>1
  <2> QED
    BY <2>2
<1> HIDE DEF deleted
<1>2. ASSUME NEW c \in Cells
      PROVE  WithArrow(deleted, p)[c] = deleted[c] \/ WithArrow(deleted, p)[c] = deleted[c] \cup {Arrow}
  BY DEF WithArrow
<1>3. DOMAIN WithArrow(deleted, p) = Cells
  BY DEF WithArrow
<1>4. ASSUME NEW c \in Cells, Smear \notin WithArrow(deleted, p)[c]
      PROVE  /\ WithArrow(deleted, p)[c] \ {Arrow} = drawn[c] \ {Arrow}
             /\ Smear \notin drawn[c]
  <2>1. Smear \notin deleted[c]
    BY <1>2, <1>4
  <2>2. WithArrow(deleted, p)[c] \ {Arrow} = deleted[c] \ {Arrow}
    BY <1>2
  <2>3. deleted[c] \ {Arrow} = drawn[c] \ {Arrow}
    BY <1>1, <2>1
  <2> QED
    BY <2>1, <2>2, <2>3, MarksApart
<1> QED
  BY <1>3, <1>4 DEF deleted

\* The command mcolor, which draws the arrow anew before the prompt.
LEMMA StepRecolour ==
    ASSUME ScreenInv, Recolour
    PROVE  ScreenInv'
<1> DEFINE drawn == WithArrow(Deleted(Printed(1)), lastCursorPosition)
<1>1. /\ NewPrompt(drawn, CursorPosition[2] + 3)
      /\ lastCursorPosition' = lastCursorPosition
  BY DEF Recolour, DrawCursor
<1>2. lastCursorPosition' \in Positions
  BY <1>1 DEF ScreenInv, ScreenTyped
<1>3. /\ CursorPosition[2] + 2 + 1 \in Nat /\ DOMAIN Printed(1) = Cells
      /\ \A c \in Cells : c[2] > CursorPosition[2] + 2 + 1 /\ Smear \notin Printed(1)[c]
                             => Bare(Printed(1)[c])
  BY PrintedIs
<1>4. /\ DOMAIN drawn = Cells
      /\ \A c \in Cells : Smear \notin drawn[c] =>
             drawn[c] \ {Arrow} = Printed(1)[c] \ {Arrow} /\ Smear \notin Printed(1)[c]
  BY <1>3, ArrowIs
<1> HIDE DEF drawn
<1>5. CursorPosition[2] + 3 = CursorPosition[2] + 2 + 1
  BY CellIs DEF ScreenInv, ScreenTyped
<1>6. ASSUME NEW c \in Cells, c[2] > CursorPosition[2] + 3, Smear \notin drawn[c]
      PROVE  Bare(drawn[c])
  <2>1. Bare(Printed(1)[c]) /\ drawn[c] \ {Arrow} = Printed(1)[c] \ {Arrow}
    BY <1>3, <1>4, <1>5, <1>6
  <2> QED
    BY <2>1, MarksApart DEF Bare, Blank
<1>7. PICK n : n = CursorPosition[2] + 3
  OBVIOUS
<1>8. /\ n \in Nat /\ NewPrompt(drawn, n)
      /\ \A c \in Cells : c[2] > n /\ Smear \notin drawn[c] => Bare(drawn[c])
  BY <1>1, <1>3, <1>5, <1>6, <1>7
<1> QED
  BY <1>2, <1>4, <1>8, PromptShown

\* The command clear.
LEMMA StepClear ==
    ASSUME ScreenInv, Clear
    PROVE  ScreenInv'
<1> DEFINE cleared == [c \in Cells |-> {Cleared}]
           drawn == Blink(cleared, <<0, 0>>)
<1>1. /\ NewPrompt(drawn, 0)
      /\ UNCHANGED <<lastCursorPosition, lastCursorBackground, moves>>
  BY DEF Clear
<1>2. lastCursorPosition' \in Positions
  BY <1>1 DEF ScreenInv, ScreenTyped
<1>3. <<0, 0>> \in Cells
  BY RendererAssumption DEF Cells
<1>4. DOMAIN cleared = Cells /\ \A c \in Cells : Bare(cleared[c])
  BY MarksApart DEF Bare, Blank
<1> HIDE DEF cleared
<1>5. DOMAIN drawn = Cells /\ \A c \in Cells : Bare(drawn[c])
  BY <1>3, <1>4, BlinkIs DEF Bare
<1> HIDE DEF drawn
<1> QED
  BY <1>1, <1>2, <1>5, PromptShown

\* The arrow is drawn elsewhere.  (mouse.cpp, MouseDataAction)
LEMMA StepMoveArrow ==
    ASSUME ScreenInv, NEW p \in Positions, MoveArrow(p)
    PROVE  ScreenInv'
<1>1. /\ screen' = WithArrow(Deleted(screen), p) /\ lastCursorPosition' = p
      /\ UNCHANGED <<CursorPosition, line, start>>
  BY DEF MoveArrow, DrawCursor
<1>2. /\ ScreenTyped /\ LineShown /\ Position(CursorPosition) = Position(start) + Len(line)
      /\ DOMAIN screen = Cells
  BY DEF ScreenInv, ScreenTyped
<1>3. /\ DOMAIN screen' = Cells
      /\ \A c \in Cells : Smear \notin screen'[c] =>
             screen'[c] \ {Arrow} = screen[c] \ {Arrow} /\ Smear \notin screen[c]
  BY <1>1, <1>2, ArrowIs
<1>4. ASSUME NEW c \in Cells, Position(c) >= Position(start), Smear \notin screen'[c]
      PROVE  /\ screen'[c] \ {Arrow, Bar, Cleared, Trace} = Expected(c)
             /\ Bar \in screen'[c] => c = CursorPosition
  <2>1. /\ screen[c] \ {Arrow, Bar, Cleared, Trace} = Expected(c)
        /\ Bar \in screen[c] => c = CursorPosition
    BY <1>2, <1>3, <1>4 DEF LineShown
  <2> QED
    BY <1>3, <1>4, <2>1, MarksApart
<1>5. LineShown'
  BY <1>1, <1>4 DEF LineShown, Expected, Position
<1>6. ScreenTyped'
  BY <1>1, <1>2, <1>3 DEF ScreenTyped
<1> QED
  BY <1>1, <1>2, <1>5, <1>6 DEF ScreenInv, Position

\* The characters drawn are the line that has been typed and nothing after it, but
\* for what the arrow smears, wherever in pixels the mouse moves it.
\* (BasicRenderer.cpp, PutChar, ClearChar, DrawCursor, DelteCursor)
THEOREM LineCorrect == Spec => []LineShown
<1>1. ScreenInv /\ [Next]_vars => ScreenInv'
  <2> SUFFICES ASSUME ScreenInv, [Next]_vars
               PROVE  ScreenInv'
    OBVIOUS
  <2>1. ASSUME NEW char \in Chars, PutChar(char)
        PROVE  ScreenInv'
    BY <2>1, StepPutChar
  <2>2. CASE ClearChar
    BY <2>2, StepClearChar
  <2>3. ASSUME NEW lines \in Output, Enter(lines)
        PROVE  ScreenInv'
    BY <2>3, StepEnter
  <2>4. CASE Recolour
    BY <2>4, StepRecolour
  <2>5. CASE Clear
    BY <2>5, StepClear
  <2>6. ASSUME NEW p \in Positions, MoveArrow(p)
        PROVE  ScreenInv'
    BY <2>6, StepMoveArrow
  <2>7. CASE UNCHANGED vars
    BY <2>7 DEF vars, ScreenInv, ScreenTyped, LineShown, Expected, Position
  <2> QED
    BY <2>1, <2>2, <2>3, <2>4, <2>5, <2>6, <2>7 DEF Next
<1>2. ScreenInv => LineShown
  BY DEF ScreenInv
<1> QED
  BY <1>1, <1>2, ScreenInvInit, PTL DEF Spec
=============================================================================
