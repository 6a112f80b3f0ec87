--------------------------- MODULE InterruptsProofs ---------------------------
(***************************************************************************)
(* Theorems about the interrupts, the keyboard and the input line, for     *)
(* every set of keys, every length of the line and every byte of the mouse.*)
(***************************************************************************)
EXTENDS Interrupts, FiniteSetTheorems, SequenceTheorems, WellFoundedInduction, TLAPS

\* The bytes that the devices put into the controller.
Seen == Codes \cup MouseBytes \cup {Ack}
          \cup {key + r : key \in ShiftKeys, r \in {0, Released}}

ShiftTypes == isLeftShiftPressed \in BOOLEAN /\ isRightShiftPressed \in BOOLEAN

LineTypes ==
    /\ inputedString \in [0 .. LineSize - 1 -> 0 .. 255]
    /\ i \in 0 .. LineSize - 1 /\ overrun \in BOOLEAN
    /\ command \in Seq(1 .. 255) /\ Len(command) < LineSize

ControllerTypes ==
    /\ output \in [full : BOOLEAN, from : {Keys, Mouse}, data : 0 .. 255]
    /\ irr \subseteq Lines
    /\ due \in [Lines -> Seq(0 .. 255)]
    /\ held \subseteq ShiftKeys
    /\ leftover \in {"nothing", "latched", "unread"}

ProcessorTypes ==
    /\ isr = IF running = None THEN {} ELSE InService(running)
    /\ running \in Lines \cup {None} /\ pc \in {"main", "read", "handle"}
    /\ pc = "main" <=> running = None
    /\ data \in 0 .. 255 /\ main \in {"prompt", "clear", "halt"}

\* What a handler reads is a byte that a device has sent, be it an old one.
BytesSeen ==
    /\ irr # {} \/ pc = "read" => output.data \in Seen
    /\ pc = "handle" => data \in Seen

\* The byte in the controller has one interrupt pending or one handler about to
\* read it, and a device's bytes that are not handled yet are the one that its
\* handler has read and the one in the controller.
OneByte(there, byte) == IF there THEN <<byte>> ELSE <<>>

QueueState ==
    IF leftover = "latched" THEN \A line \in Lines : due[line] = <<>>
    ELSE /\ irr = IF output.full /\ pc # "read" THEN {output.from} ELSE {}
         /\ pc = "read" => output.full /\ output.from = running
         /\ \A line \in Lines :
              due[line] = OneByte(pc = "handle" /\ running = line, data)
                            \o OneByte(output.full /\ output.from = line, output.data)

\* The shift flags, and the keyboard's bytes that are not handled yet, make up
\* what is held.
Applied(there, byte, key, was) == IF there THEN Pressed(byte, key, was) ELSE was

Follows(key, flag) ==
    key \in held <=>
        Applied(output.full /\ output.from = Keys, output.data, key,
                Applied(pc = "handle" /\ running = Keys, data, key, flag))

ShiftState ==
    leftover # "latched" =>
        Follows(LeftShift, isLeftShiftPressed) /\ Follows(RightShift, isRightShiftPressed)

\* Up to the index, no byte ends a line that is not overrun.
LineState == ~overrun => \A n \in 0 .. i - 1 : inputedString[n] # 0

\* The line that the shell keeps, as the abstract editor has it.
Text == [n \in 1 .. i |-> inputedString[n - 1]]
TheLine == IF overrun THEN <<-1>> ELSE Text

IInv ==
    /\ ShiftTypes /\ LineTypes /\ ControllerTypes /\ ProcessorTypes
    /\ BytesSeen /\ QueueState /\ ShiftState /\ LineState

-----------------------------------------------------------------------------
(* Lemmas about the keyboard's operators.                                    *)

\* Characters are bytes that do not end a line.  (kbScancodeTranslation.cpp)
LEMMA TranslateType ==
    ASSUME NEW code \in 0 .. 255, NEW shift \in BOOLEAN
    PROVE  Translate(code, shift) \subseteq 0 .. 255
<1>1. Characters(code) \subseteq 0 .. 255
  <2>1. CASE code > 58
    BY <2>1 DEF Characters
  <2>2. CASE code = 58
    BY <2>2 DEF Characters
  <2>3. CASE code < 58
    <3>1. ASCIITable[code] \in 0 .. 126
      BY <2>3, KeyboardAssumption
    <3> QED
      BY <2>3, <3>1 DEF Characters
  <2> QED
    BY <2>1, <2>2, <2>3
<1>2. \A c \in 0 .. 255 : (c + 224) % 256 \in 0 .. 255
  OBVIOUS
<1> QED
  BY <1>1, <1>2 DEF Translate

\* So are those that the line may hold.
LEMMA CharsType == Chars \subseteq 1 .. 255
<1>1. Codes \cup MouseBytes \subseteq 0 .. 255
  BY InterruptsAssumption
<1>2. Typed \subseteq 0 .. 255
  BY <1>1, TranslateType DEF Typed
<1>3. ASSUME NEW c \in Chars
      PROVE  c \in 0 .. 255 /\ c # 0
  BY <1>2 DEF Chars, Blank
<1> QED
  BY <1>3

\* What the keyboard's handler makes of a byte is a character, the end of the
\* line, an erasure or nothing.  (kbScancodeTranslation.cpp, keyboard.cpp)
LEMMA ScancodeChars ==
    ASSUME ShiftTypes, NEW byte \in Seen, NEW c \in HandleScancode(byte)
    PROVE  c \in Chars \cup {0, Erase, Newline}
<1>1. CASE /\ byte \notin {LeftShift, LeftShift + Released, RightShift, RightShift + Released}
           /\ byte # Enter /\ byte # Spacebar /\ byte # BackSpace
  <2>1. PICK shift \in BOOLEAN : c \in Translate(byte, shift)
    <3>1. c \in Translate(byte, isLeftShiftPressed \/ isRightShiftPressed)
      BY <1>1 DEF HandleScancode
    <3>2. CASE isLeftShiftPressed \/ isRightShiftPressed
      BY <3>1, <3>2 DEF Translate
    <3>3. CASE ~(isLeftShiftPressed \/ isRightShiftPressed)
      BY <3>1, <3>3 DEF Translate
    <3> QED
      BY <3>2, <3>3
  <2>2. CASE byte = Ack
    BY <2>1, <2>2 DEF Ack, Translate, Characters
  <2>3. CASE byte \in Codes \cup MouseBytes
    <3>1. c \in Typed
      <4>1. Translate(byte, shift) \subseteq Translate(byte, FALSE) \cup Translate(byte, TRUE)
        <5>1. shift = FALSE \/ shift = TRUE
          OBVIOUS
        <5> QED
          BY Zenon, <5>1
      <4>2. c \in Translate(byte, FALSE) \cup Translate(byte, TRUE)
        BY <2>1, <4>1
      <4> QED
        BY <2>3, <4>2 DEF Typed
    <3> QED
      BY <3>1 DEF Chars
  <2> QED
    BY <1>1, <2>2, <2>3, InterruptsAssumption DEF Seen
<1>2. CASE byte \in {LeftShift, LeftShift + Released, RightShift, RightShift + Released}
  BY <1>2 DEF HandleScancode, Spacebar, LeftShift, RightShift, Released, Enter, BackSpace
<1>3. CASE byte = Spacebar
  <2>1. c = Blank
    BY <1>3 DEF HandleScancode, Spacebar, LeftShift, RightShift, Released, Enter, BackSpace
  <2>2. Blank \in Chars
    BY DEF Chars, Blank, Erase, Newline
  <2> QED
    BY <2>1, <2>2
<1>4. CASE byte = Enter \/ byte = BackSpace
  BY <1>4 DEF HandleScancode, Erase, Newline, Enter, BackSpace, Spacebar, LeftShift, RightShift, Released
<1> QED
  BY <1>1, <1>2, <1>3, <1>4

\* The command ends at the first byte that is 0.
LEMMA StringAtIs ==
    ASSUME NEW bytes, DOMAIN bytes = 0 .. LineSize - 1,
           NEW k \in 0 .. LineSize - 1, bytes[k] = 0, \A m \in 0 .. k - 1 : bytes[m] # 0
    PROVE  StringAt(bytes) = [n \in 1 .. k |-> bytes[n - 1]]
<1> DEFINE Ends(n) == bytes[n] = 0 /\ \A m \in 0 .. n - 1 : bytes[m] # 0
           end == CHOOSE n \in DOMAIN bytes : Ends(n)
<1>1. LineSize \in Nat
  BY KeyboardAssumption
<1>2. Ends(k) /\ k \in DOMAIN bytes
  OBVIOUS
<1>3. end \in DOMAIN bytes /\ Ends(end)
  BY <1>2
<1>4. end = k
  BY <1>1, <1>3
<1>5. StringAt(bytes) = [n \in 1 .. end |-> bytes[n - 1]]
  BY DEF StringAt
<1> QED
  BY <1>4, <1>5

\* Bytes of which one is 0 have a first one that is.
LEMMA FirstEnd ==
    ASSUME NEW bytes, NEW n \in 0 .. LineSize - 1, bytes[n] = 0
    PROVE  \E k \in 0 .. LineSize - 1 : bytes[k] = 0 /\ \A m \in 0 .. k - 1 : bytes[m] # 0
<1> DEFINE ends == {m \in 0 .. LineSize - 1 : bytes[m] = 0}
           R == OpToRel(<, Nat)
<1>1. LineSize \in Nat
  BY KeyboardAssumption
<1>2. ends \subseteq Nat /\ ends # {}
  BY <1>1
<1>3. IsWellFoundedOn(R, Nat)
  BY NatLessThanWellFounded
<1>4. \E k \in ends : \A m \in ends : <<m, k>> \notin R
  <2> HIDE DEF ends, R
  <2> QED
    BY <1>2, <1>3, WFMin
<1>5. PICK k \in ends : \A m \in ends : ~(m < k)
  BY <1>2, <1>4 DEF OpToRel
<1> QED
  BY <1>1, <1>5

\* Characters that are put together make a string.
LEMMA StringType ==
    ASSUME NEW S, NEW k \in Nat, NEW bytes, \A m \in 0 .. k - 1 : bytes[m] \in S
    PROVE  /\ [n \in 1 .. k |-> bytes[n - 1]] \in Seq(S)
           /\ Len([n \in 1 .. k |-> bytes[n - 1]]) = k
<1> DEFINE string == [n \in 1 .. k |-> bytes[n - 1]]
<1>1. \A n \in 1 .. k : n - 1 \in 0 .. k - 1
  OBVIOUS
<1>2. string \in [1 .. k -> S]
  BY <1>1
<1> HIDE DEF string
<1>3. string \in Seq(S)
  BY <1>2
<1>4. Len(string) = k
  BY <1>2, <1>3
<1> QED
  BY <1>3, <1>4 DEF string

\* Where the heap's pointer is not, the line is as it was.
LEMMA PointerKeeps ==
    ASSUME NEW bytes \in [0 .. LineSize - 1 -> 0 .. 255],
           NEW pointer \in [LastField -> PointerBytes]
    PROVE  /\ WithPointer(bytes, pointer) \in [0 .. LineSize - 1 -> 0 .. 255]
           /\ \A m \in (0 .. LineSize - 1) \ LastField :
                WithPointer(bytes, pointer)[m] = bytes[m]
  BY MemoryAssumption DEF WithPointer

\* A string that was copied up to index k, of bytes that differ from a line's only
\* under the pointer, is the line or damaged there.
LEMMA CopiedString ==
    ASSUME NEW ended, NEW k \in 0 .. LineSize - 1, \A m \in 0 .. k - 1 : ended[m] # 0,
           NEW bytes \in [0 .. LineSize - 1 -> 0 .. 255],
           \A m \in (0 .. LineSize - 1) \ LastField : bytes[m] = ended[m],
           NEW found, found = StringAt([bytes EXCEPT ![k] = 0])
    PROVE  /\ found \in Seq(1 .. 255) /\ Len(found) <= k
           /\ \A n \in 1 .. Len(found) : found[n] = ended[n - 1] \/ n - 1 \in LastField
           /\ Len(found) = k \/ Len(found) \in LastField
<1> DEFINE cut == [bytes EXCEPT ![k] = 0]
<1>1. LineSize \in Nat
  BY KeyboardAssumption
<1>2. /\ DOMAIN cut = 0 .. LineSize - 1 /\ cut[k] = 0
      /\ \A m \in 0 .. LineSize - 1 : cut[m] \in 0 .. 255
      /\ \A m \in 0 .. LineSize - 1 : m # k => cut[m] = bytes[m]
  <2>1. 0 \in 0 .. 255 /\ cut \in [0 .. LineSize - 1 -> 0 .. 255]
    OBVIOUS
  <2>2. cut[k] = 0 /\ \A m \in 0 .. LineSize - 1 : m # k => cut[m] = bytes[m]
    OBVIOUS
  <2> HIDE DEF cut
  <2> QED
    BY <2>1, <2>2
<1>3. found = StringAt(cut)
  OBVIOUS
<1> HIDE DEF cut
<1>4. PICK j \in 0 .. LineSize - 1 : cut[j] = 0 /\ \A m \in 0 .. j - 1 : cut[m] # 0
  BY <1>2, FirstEnd
<1>5. found = [n \in 1 .. j |-> cut[n - 1]]
  BY <1>2, <1>3, <1>4, StringAtIs
<1>6. j <= k /\ j \in Nat
  BY <1>1, <1>2, <1>4
<1>7. \A m \in 0 .. j - 1 : cut[m] \in 1 .. 255
  BY <1>1, <1>2, <1>4
<1>8. found \in Seq(1 .. 255) /\ Len(found) = j
  <2> DEFINE S == 1 .. 255
  <2> HIDE DEF S
  <2>1. j \in Nat /\ \A m \in 0 .. j - 1 : cut[m] \in S
    BY <1>6, <1>7 DEF S
  <2>2. /\ [n \in 1 .. j |-> cut[n - 1]] \in Seq(S)
        /\ Len([n \in 1 .. j |-> cut[n - 1]]) = j
    BY <2>1, StringType, Zenon
  <2> QED
    BY <1>5, <2>2 DEF S
<1>9. \A n \in 1 .. j : found[n] = ended[n - 1] \/ n - 1 \in LastField
  <2> SUFFICES ASSUME NEW n \in 1 .. j, n - 1 \notin LastField
               PROVE  found[n] = ended[n - 1]
    OBVIOUS
  <2>1. n - 1 \in 0 .. LineSize - 1 /\ n - 1 # k
    BY <1>1, <1>4, <1>6
  <2>2. found[n] = cut[n - 1]
    BY <1>5
  <2> QED
    BY <1>2, <2>1, <2>2
<1>10. j = k \/ j \in LastField
  <2> SUFFICES ASSUME j # k, j \notin LastField
               PROVE  FALSE
    OBVIOUS
  <2>1. ended[j] = 0
    BY <1>2, <1>4
  <2>2. j \in 0 .. k - 1
    BY <1>6
  <2> QED
    BY <2>1, <2>2
<1> QED
  BY <1>6, <1>8, <1>9, <1>10

\* The command that ends the line is a string; if that was not overrun it is the
\* line that was typed, but for what cd finds under the heap's pointer.
\* (desktop/handlers/keyboard.cpp 28-238)
LEMMA FinishedCommand ==
    ASSUME LineTypes, LineState, FinishLine
    PROVE  /\ command' \in Seq(1 .. 255) /\ Len(command') < LineSize
           /\ inputedString' \in [0 .. LineSize - 1 -> 0 .. 255]
           /\ ~overrun => \/ command' = Text
                          \/ /\ IsCd(Text) /\ Len(command') <= i
                             /\ \A n \in 1 .. Len(command') :
                                  command'[n] = inputedString[n - 1] \/ n - 1 \in LastField
                             /\ Len(command') = i \/ Len(command') \in LastField
<1> DEFINE ended == [inputedString EXCEPT ![i] = 0]
           line  == StringAt(ended)
<1>1. LineSize \in Nat \ {0} /\ i \in 0 .. LineSize - 1
  BY KeyboardAssumption DEF LineTypes
<1>2. /\ ended \in [0 .. LineSize - 1 -> 0 .. 255] /\ ended[i] = 0
      /\ \A m \in 0 .. LineSize - 1 : m # i => ended[m] = inputedString[m]
  BY DEF LineTypes
<1>3. PICK bytes \in {ended} \cup {WithPointer(ended, pointer) :
                                     pointer \in [LastField -> PointerBytes]} :
        /\ command' = IF IsCd(line) THEN StringAt([bytes EXCEPT ![Len(line)] = 0]) ELSE line
        /\ inputedString' = [bytes EXCEPT ![0] = 0]
  BY DEF FinishLine
<1>4. /\ bytes \in [0 .. LineSize - 1 -> 0 .. 255]
      /\ \A m \in (0 .. LineSize - 1) \ LastField : bytes[m] = ended[m]
  <2>1. CASE bytes = ended
    BY <1>2, <2>1
  <2>2. CASE bytes # ended
    <3>1. PICK pointer \in [LastField -> PointerBytes] : bytes = WithPointer(ended, pointer)
      BY <1>3, <2>2
    <3>2. ended \in [0 .. LineSize - 1 -> 0 .. 255]
      BY <1>2
    <3> HIDE DEF ended
    <3>3. /\ WithPointer(ended, pointer) \in [0 .. LineSize - 1 -> 0 .. 255]
          /\ \A m \in (0 .. LineSize - 1) \ LastField :
               WithPointer(ended, pointer)[m] = ended[m]
      BY <3>2, PointerKeeps, Zenon
    <3> QED
      BY <3>1, <3>3
  <2> QED
    BY <2>1, <2>2
<1>5. inputedString' \in [0 .. LineSize - 1 -> 0 .. 255]
  <2>1. 0 \in 0 .. 255
    OBVIOUS
  <2> QED
    BY <1>3, <1>4, <2>1
<1> HIDE DEF ended
<1>6. PICK k \in 0 .. LineSize - 1 : ended[k] = 0 /\ \A m \in 0 .. k - 1 : ended[m] # 0
  BY <1>1, <1>2, FirstEnd
<1>7. line = [n \in 1 .. k |-> ended[n - 1]]
  BY <1>2, <1>6, StringAtIs
<1>8. line \in Seq(1 .. 255) /\ Len(line) = k
  <2>1. k \in Nat /\ \A m \in 0 .. k - 1 : ended[m] \in 1 .. 255
    BY <1>1, <1>2, <1>6
  <2> HIDE DEF line
  <2> QED
    BY <1>7, <2>1, StringType
<1>9. ASSUME ~overrun
      PROVE  k = i /\ line = Text /\ \A m \in 0 .. i - 1 : ended[m] = inputedString[m]
  <2>1. \A m \in 0 .. i - 1 : ended[m] = inputedString[m] /\ ended[m] # 0
    BY <1>1, <1>2, <1>9 DEF LineState
  <2>2. k = i
    BY <1>1, <1>2, <1>6, <2>1
  <2>3. \A n \in 1 .. i : ended[n - 1] = inputedString[n - 1]
    BY <1>1, <2>1
  <2> HIDE DEF line
  <2> QED
    BY <1>7, <2>1, <2>2, <2>3 DEF Text
<1> HIDE DEF line
<1>10. CASE ~IsCd(line)
  BY <1>1, <1>3, <1>5, <1>6, <1>8, <1>9, <1>10
<1>11. CASE IsCd(line)
  <2>1. command' = StringAt([bytes EXCEPT ![k] = 0])
    BY <1>3, <1>8, <1>11
  <2>2. /\ command' \in Seq(1 .. 255) /\ Len(command') <= k
        /\ \A n \in 1 .. Len(command') : command'[n] = ended[n - 1] \/ n - 1 \in LastField
        /\ Len(command') = k \/ Len(command') \in LastField
    <3>1. \A m \in 0 .. k - 1 : ended[m] # 0
      BY <1>6
    <3> QED
      BY <1>4, <2>1, <3>1, CopiedString, ZenonT(60)
  <2>3. Len(command') \in Nat
    BY <2>2, LenProperties
  <2>4. ASSUME ~overrun, NEW n \in 1 .. Len(command')
        PROVE  ended[n - 1] = inputedString[n - 1]
    BY <1>1, <1>9, <2>2, <2>3, <2>4
  <2> QED
    BY <1>1, <1>5, <1>6, <1>9, <1>11, <2>2, <2>3, <2>4
<1> QED
  BY <1>10, <1>11

\* A character, an erasure or the end of a line keeps the line's state.
LEMMA EventStep ==
    ASSUME LineTypes, LineState, NEW c \in Chars \cup {0, Erase, Newline}, KeyboardEvent(c)
    PROVE  LineTypes' /\ LineState'
<1>1. LineSize \in Nat \ {0} /\ Chars \subseteq 1 .. 255 /\ Erase \notin Chars /\ Newline \notin Chars
  BY KeyboardAssumption, CharsType DEF Chars
<1>2. Erase # 0 /\ Newline # 0 /\ Erase # Newline
  BY DEF Erase, Newline
<1>3. CASE c = Newline
  <2>1. FinishLine
    BY <1>2, <1>3 DEF KeyboardEvent
  <2>2. i' = 0 /\ overrun' = FALSE
    BY <2>1 DEF FinishLine
  <2>3. /\ command' \in Seq(1 .. 255) /\ Len(command') < LineSize
        /\ inputedString' \in [0 .. LineSize - 1 -> 0 .. 255]
    BY <2>1, FinishedCommand
  <2>4. overrun' \in BOOLEAN
    BY <2>2
  <2>5. LineState' /\ i' \in 0 .. LineSize - 1
    BY <1>1, <2>2 DEF LineState
  <2> QED
    BY <2>3, <2>4, <2>5 DEF LineTypes
<1>4. CASE c = Erase
  <2>1. EraseChar /\ UNCHANGED <<inputedString, command, overrun>>
    BY <1>2, <1>4 DEF KeyboardEvent
  <2>2. i' \in 0 .. LineSize - 1 /\ i' <= i
    BY <1>1, <2>1 DEF EraseChar, LineTypes
  <2> QED
    <3>1. ~overrun' => \A n \in 0 .. i' - 1 : inputedString'[n] # 0
      <4>1. ~overrun' => ~overrun
        BY <2>1
      <4>2. 0 .. i' - 1 \subseteq 0 .. i - 1
        <5>1. \A a, b \in Int : b <= a => 0 .. b - 1 \subseteq 0 .. a - 1
          OBVIOUS
        <5>2. i \in Int /\ i' \in Int /\ i' <= i
          BY <1>1, <2>2 DEF LineTypes
        <5> QED
          BY <5>1, <5>2
      <4> QED
        BY <2>1, <4>1, <4>2 DEF LineState
    <3> QED
      BY <2>1, <2>2, <3>1 DEF LineTypes, LineState
<1>5. CASE c = 0
  <2>1. UNCHANGED <<inputedString, i, command, overrun>>
    BY <1>2, <1>5 DEF KeyboardEvent
  <2> QED
    BY <2>1 DEF LineTypes, LineState
<1>6. CASE c \in Chars
  <2>1. TypeChar(c) /\ UNCHANGED command
    BY <1>1, <1>6 DEF KeyboardEvent
  <2>2. /\ inputedString' = [inputedString EXCEPT ![i] = c]
        /\ i' = IF i + 1 = LineSize THEN 0 ELSE i + 1
        /\ overrun' = (overrun \/ i + 1 = LineSize)
    <3>1. i \in 0 .. LineSize - 1
      BY DEF LineTypes
    <3>2. (i + 1) % LineSize = IF i + 1 = LineSize THEN 0 ELSE i + 1
      BY <1>1, <3>1
    <3> QED
      BY <2>1, <3>2 DEF TypeChar
  <2>3. overrun' \in BOOLEAN
    BY <2>2
  <2>4. inputedString' \in [0 .. LineSize - 1 -> 0 .. 255] /\ i' \in 0 .. LineSize - 1
    BY <1>1, <1>6, <2>2 DEF LineTypes
  <2>5. LineState'
    BY <1>1, <1>6, <2>2 DEF LineTypes, LineState
  <2> QED
    BY <2>1, <2>3, <2>4, <2>5 DEF LineTypes
<1> QED
  BY <1>3, <1>4, <1>5, <1>6

\* So does the keyboard's handler, for every byte that it reads.
LEMMA KeyboardStep ==
    ASSUME ShiftTypes, LineTypes, LineState, NEW byte \in Seen, HandleKeyboard(byte)
    PROVE  ShiftTypes' /\ LineTypes' /\ LineState'
<1>1. PICK c \in HandleScancode(byte) : KeyboardEvent(c)
  BY DEF HandleKeyboard
<1>2. c \in Chars \cup {0, Erase, Newline}
  BY ScancodeChars
<1>3. LineTypes' /\ LineState'
  BY <1>1, <1>2, EventStep
<1>4. isLeftShiftPressed' \in BOOLEAN /\ isRightShiftPressed' \in BOOLEAN
  BY DEF HandleKeyboard, Pressed
<1> QED
  BY <1>3, <1>4 DEF ShiftTypes

-----------------------------------------------------------------------------
(* Lemmas about the bytes that are not handled yet.                          *)

\* One byte or none is a sequence, and joined to none it is itself.
LEMMA OneByteType ==
    ASSUME NEW there \in BOOLEAN, NEW byte, NEW S, there => byte \in S
    PROVE  /\ OneByte(there, byte) \in Seq(S)
           /\ <<>> \o OneByte(there, byte) = OneByte(there, byte)
           /\ OneByte(there, byte) \o <<>> = OneByte(there, byte)
           /\ Len(OneByte(there, byte)) <= 1
<1>1. CASE there
  BY <1>1 DEF OneByte
<1>2. CASE ~there
  BY <1>2 DEF OneByte
<1> QED
  BY <1>1, <1>2

\* The byte that a handler has read is the first one, and the next one follows.
LEMMA FirstByte ==
    ASSUME NEW byte, NEW there \in BOOLEAN, NEW next
    PROVE  /\ <<byte>> \o OneByte(there, next) # <<>>
           /\ Head(<<byte>> \o OneByte(there, next)) = byte
           /\ Tail(<<byte>> \o OneByte(there, next)) = OneByte(there, next)
<1>1. CASE there
  <2>1. <<byte>> \o OneByte(there, next) = <<byte, next>>
    <3> DEFINE s == <<byte>> \o <<next>>
               S == {byte, next}
    <3>1. <<byte>> \in Seq(S) /\ <<next>> \in Seq(S) /\ <<byte, next>> \in Seq(S)
      OBVIOUS
    <3>2. s \in Seq(S) /\ Len(s) = 2 /\ s[1] = byte /\ s[2] = next
      BY <3>1, ConcatProperties
    <3> HIDE DEF s, S
    <3>3. s = <<byte, next>>
      BY <3>1, <3>2
    <3> QED
      BY <1>1, <3>3 DEF OneByte, s
  <2>2. OneByte(there, next) = <<next>>
    BY <1>1 DEF OneByte
  <2>3. /\ <<byte, next>> # <<>> /\ Head(<<byte, next>>) = byte
        /\ Tail(<<byte, next>>) = <<next>>
    OBVIOUS
  <2> QED
    BY Zenon, <2>1, <2>2, <2>3
<1>2. CASE ~there
  <2>1. <<byte>> \o OneByte(there, next) = <<byte>>
    BY <1>2 DEF OneByte
  <2>2. OneByte(there, next) = <<>>
    BY <1>2 DEF OneByte
  <2> QED
    BY <2>1, <2>2
<1> QED
  BY <1>1, <1>2

\* A byte that is sent comes after the one that has been read.
LEMMA NextByte ==
    ASSUME NEW there \in BOOLEAN, NEW byte, NEW next
    PROVE  Append(OneByte(there, byte), next) = OneByte(there, byte) \o <<next>>
<1>1. CASE there
  BY <1>1 DEF OneByte
<1>2. CASE ~there
  BY <1>2 DEF OneByte
<1> QED
  BY <1>1, <1>2

-----------------------------------------------------------------------------
(* The invariant.                                                            *)

\* The initial states satisfy the invariant.
LEMMA InvInit ==
    ASSUME Init
    PROVE  IInv
<1>1. LineSize \in Nat \ {0}
  BY KeyboardAssumption
<1>2. ShiftTypes
  BY DEF Init, KeyboardInit, ShiftTypes
<1>3. LineTypes /\ LineState
  <2>1. inputedString \in [0 .. LineSize - 1 -> 0 .. 255]
    BY MemoryAssumption DEF Init, KeyboardInit
  <2>2. overrun \in BOOLEAN
    BY DEF Init, KeyboardInit
  <2>3. i = 0 /\ command = <<>>
    BY DEF Init, KeyboardInit
  <2> QED
    BY <1>1, <2>1, <2>2, <2>3 DEF LineTypes, LineState
<1>4. ControllerTypes
  <2>1. output \in [full : BOOLEAN, from : {Keys, Mouse}, data : 0 .. 255]
    BY DEF Init, Ack
  <2>2. due \in [Lines -> Seq(0 .. 255)]
    <3>1. <<Ack>> \in Seq(0 .. 255) /\ <<>> \in Seq(0 .. 255)
      BY DEF Ack
    <3> QED
      BY <3>1 DEF Init, Lines
  <2> QED
    BY <2>1, <2>2 DEF Init, ControllerTypes, Lines
<1>5. ProcessorTypes /\ BytesSeen
  BY DEF Init, ProcessorTypes, BytesSeen, Seen
<1>6. QueueState
  <2>1. CASE leftover = "latched"
    BY <2>1 DEF Init, QueueState, Lines
  <2>2. CASE leftover = "nothing"
    <3>1. \A line \in Lines : due[line] = <<>>
      BY <2>2 DEF Init, Lines
    <3>2. <<>> \o <<>> = <<>>
      OBVIOUS
    <3> QED
      BY <2>2, <3>1, <3>2 DEF Init, QueueState, OneByte
  <2>3. CASE leftover = "unread"
    <3>1. /\ output.full /\ output.from = Mouse /\ output.data = Ack /\ irr = {Mouse}
          /\ pc = "main"
          /\ \A line \in Lines : due[line] = IF line = Mouse THEN <<Ack>> ELSE <<>>
      BY <2>3 DEF Init, Lines
    <3>2. ASSUME NEW line \in Lines
          PROVE  due[line] = OneByte(pc = "handle" /\ running = line, data)
                               \o OneByte(output.full /\ output.from = line, output.data)
      <4>1. due[line] = <<>> \o OneByte(line = Mouse, Ack)
        <5>1. due[line] = OneByte(line = Mouse, Ack)
          BY <3>1 DEF OneByte
        <5> QED
          BY <5>1, OneByteType
      <4> QED
        BY <3>1, <4>1 DEF OneByte
    <3> QED
      BY <2>3, <3>1, <3>2 DEF QueueState
  <2> QED
    BY <2>1, <2>2, <2>3 DEF Init
<1>7. ShiftState
  BY DEF Init, KeyboardInit, ShiftState, Follows, Applied, Keys, Mouse
<1> QED
  BY <1>2, <1>3, <1>4, <1>5, <1>6, <1>7 DEF IInv

\* An interrupt is taken.
LEMMA DeliverStep ==
    ASSUME IInv, NEW line \in Lines, Deliver(line)
    PROVE  IInv'
<1> USE DEF IInv
<1>1. LineTypes' /\ ShiftTypes' /\ LineState'
  BY DEF Deliver, lineVars, keyboardVars, shifts, LineTypes, ShiftTypes, LineState
<1>2. ControllerTypes'
  BY DEF Deliver, ControllerTypes
<1>3. ProcessorTypes'
  <2>1. isr' = InService(line) /\ running' = line /\ pc' = "read" /\ data' = data /\ main' = main
    BY DEF Deliver, ProcessorTypes
  <2> QED
    BY <2>1 DEF ProcessorTypes, Lines, Keys, Mouse, None
<1>4. BytesSeen'
  BY DEF Deliver, BytesSeen
<1>5. running = None /\ pc = "main" /\ pc' = "read" /\ running' = line /\ line \in irr /\ irr' = irr \ {line}
      /\ UNCHANGED <<output, due, data, leftover, held, isLeftShiftPressed, isRightShiftPressed>>
  BY DEF Deliver, ProcessorTypes, lineVars, keyboardVars, shifts
<1>6. QueueState'
  <2>1. CASE leftover = "latched"
    BY <1>5, <2>1 DEF QueueState
  <2>2. CASE leftover # "latched"
    <3>1. output.full /\ output.from = line /\ irr' = {}
      BY <1>5, <2>2 DEF QueueState
    <3> QED
      BY <1>5, <2>2, <3>1 DEF QueueState
  <2> QED
    BY <2>1, <2>2
<1>7. ShiftState'
  BY <1>5 DEF ShiftState, Follows, Applied
<1> QED
  BY <1>1, <1>2, <1>3, <1>4, <1>6, <1>7

\* A handler reads its byte.
LEMMA ReadStep ==
    ASSUME IInv, ReadByte
    PROVE  IInv'
<1> USE DEF IInv
<1>1. LineTypes' /\ ShiftTypes' /\ LineState'
  BY DEF ReadByte, lineVars, keyboardVars, shifts, LineTypes, ShiftTypes, LineState
<1>2. /\ output' = EmptyBuffer /\ data' = output.data /\ pc = "read" /\ pc' = "handle"
      /\ UNCHANGED <<irr, isr, running, due, main, leftover, held, isLeftShiftPressed, isRightShiftPressed>>
  BY DEF ReadByte, Fetch, lineVars, keyboardVars, shifts
<1>3. /\ output' \in [full : BOOLEAN, from : {Keys, Mouse}, data : 0 .. 255]
      /\ ~output'.full /\ (irr # {} => output'.data = output.data)
  <2>1. CASE irr = {}
    <3>1. output' = [output EXCEPT !.full = FALSE, !.from = Mouse, !.data = 0]
      BY <1>2, <2>1 DEF EmptyBuffer
    <3>2. output \in [full : BOOLEAN, from : {Keys, Mouse}, data : 0 .. 255]
      BY DEF ControllerTypes
    <3>3. output' = [full |-> FALSE, from |-> Mouse, data |-> 0]
      BY <3>1, <3>2
    <3> QED
      BY <2>1, <3>3
  <2>2. CASE irr # {}
    BY <1>2, <2>2 DEF EmptyBuffer, ControllerTypes
  <2> QED
    BY <2>1, <2>2
<1>4. ControllerTypes'
  BY <1>2, <1>3 DEF ControllerTypes
<1>5. ProcessorTypes'
  BY <1>2 DEF ProcessorTypes, ControllerTypes
<1>6. BytesSeen'
  BY <1>2, <1>3 DEF BytesSeen
<1>7. QueueState'
  <2>1. CASE leftover = "latched"
    BY <1>2, <2>1 DEF QueueState
  <2>2. CASE leftover # "latched"
    <3>1. output.full /\ output.from = running /\ irr = {}
      BY <1>2, <2>2 DEF QueueState
    <3>2. ASSUME NEW line \in Lines
          PROVE  due'[line] = OneByte(pc' = "handle" /\ running' = line, data')
                                \o OneByte(output'.full /\ output'.from = line, output'.data)
      <4>1. due[line] = OneByte(FALSE, data) \o OneByte(running = line, output.data)
        BY <1>2, <2>2, <3>1 DEF QueueState, OneByte
      <4>2. due'[line] = OneByte(running' = line, data') \o OneByte(FALSE, output'.data)
        BY <1>2, <4>1, OneByteType DEF OneByte
      <4> QED
        BY <1>2, <1>3, <4>2 DEF OneByte
    <3> QED
      BY <1>2, <1>3, <2>2, <3>1, <3>2 DEF QueueState
  <2> QED
    BY <2>1, <2>2
<1>8. ShiftState'
  BY <1>2, <1>3 DEF ShiftState, Follows, Applied, QueueState
<1> QED
  BY <1>1, <1>4, <1>5, <1>6, <1>7, <1>8

\* A handler's end takes its byte from those that are not handled yet.
LEMMA HandledStep ==
    ASSUME ControllerTypes, QueueState, pc = "handle", NEW line \in Lines, running = line,
           Handled(line), Return, leftover' \in {leftover, "nothing"},
           leftover = "latched" => leftover' = leftover
    PROVE  ControllerTypes' /\ QueueState'
<1>1. UNCHANGED <<output, irr, held>> /\ pc' = "main"
  BY DEF Return
<1>2. due' \in [Lines -> Seq(0 .. 255)]
  <2>1. \A s \in Seq(0 .. 255) : s # <<>> => Tail(s) \in Seq(0 .. 255)
    BY HeadTailProperties
  <2>2. due[line] \in Seq(0 .. 255)
    BY DEF ControllerTypes
  <2>3. due' = [due EXCEPT ![line] = IF due[line] = <<>> THEN due[line] ELSE Tail(due[line])]
    BY DEF Handled
  <2> QED
    BY <2>1, <2>2, <2>3 DEF ControllerTypes
<1>3. ControllerTypes'
  BY <1>1, <1>2 DEF ControllerTypes
<1>4. \A other \in Lines :
        due'[other] = IF other = line
                      THEN IF due[line] = <<>> THEN due[line] ELSE Tail(due[line])
                      ELSE due[other]
  BY DEF Handled, ControllerTypes
<1>5. QueueState'
  <2>1. CASE leftover = "latched"
    BY <1>4, <2>1 DEF QueueState
  <2>2. CASE leftover # "latched"
    <3>1. ASSUME NEW other \in Lines
          PROVE  due'[other] = OneByte(output.full /\ output.from = other, output.data)
      <4>1. due[other] = OneByte(other = line, data) \o OneByte(output.full /\ output.from = other, output.data)
        BY <2>2 DEF QueueState, OneByte
      <4>2. CASE other = line
        <5> DEFINE there == output.full /\ output.from = line
        <5>1. due[line] = <<data>> \o OneByte(there, output.data)
          BY <4>1, <4>2 DEF OneByte
        <5>2. there \in BOOLEAN
          BY DEF ControllerTypes
        <5>3. due'[other] = OneByte(there, output.data)
          <6> HIDE DEF there
          <6>1. due[line] # <<>> /\ Tail(due[line]) = OneByte(there, output.data)
            BY <5>1, <5>2, FirstByte
          <6> QED
            BY <1>4, <4>2, <6>1
        <5> QED
          BY <4>2, <5>3
      <4>3. CASE other # line
        <5>1. due[other] = <<>> \o OneByte(output.full /\ output.from = other, output.data)
          BY <4>1, <4>3 DEF OneByte
        <5> QED
          BY <1>4, <4>3, <5>1, OneByteType
      <4> QED
        BY <4>2, <4>3
    <3>2. \A other \in Lines :
            due'[other] = OneByte(pc' = "handle" /\ running' = other, data')
                            \o OneByte(output'.full /\ output'.from = other, output'.data)
      <4> SUFFICES ASSUME NEW other \in Lines
                   PROVE  due'[other] = <<>> \o OneByte(output'.full /\ output'.from = other, output'.data)
        BY <1>1 DEF OneByte
      <4>1. due'[other] = OneByte(output'.full /\ output'.from = other, output'.data)
        BY <1>1, <3>1
      <4> QED
        BY <4>1, OneByteType
    <3> QED
      BY <1>1, <2>2, <3>2 DEF QueueState
  <2> QED
    BY <2>1, <2>2
<1> QED
  BY <1>3, <1>5

\* The keyboard's handler handles its byte.
LEMMA KeyboardIntStep ==
    ASSUME IInv, KeyboardInt
    PROVE  IInv'
<1> USE DEF IInv
<1>1. pc = "handle" /\ running = Keys /\ HandleKeyboard(data) /\ Return /\ Handled(Keys) /\ leftover' = leftover
  BY DEF KeyboardInt
<1>2. LineTypes' /\ ShiftTypes' /\ LineState'
  BY <1>1, KeyboardStep DEF BytesSeen
<1>3. ControllerTypes' /\ QueueState'
  BY <1>1, HandledStep DEF Lines
<1>4. UNCHANGED <<output, irr, held, main>> /\ running' = None /\ pc' = "main" /\ data' = 0
  BY <1>1 DEF Return
<1>5. ProcessorTypes'
  <2>1. isr = {Keys}
    BY <1>1 DEF ProcessorTypes, InService, Keys, Mouse, None
  <2>2. isr' = {}
    BY <2>1 DEF KeyboardInt, PIC_EndMaster, Keys, Mouse
  <2> QED
    BY <1>4, <2>2 DEF ProcessorTypes
<1>6. BytesSeen'
  BY <1>1, <1>4 DEF BytesSeen
<1>7. ShiftState'
  BY <1>1, <1>4 DEF ShiftState, Follows, Applied, HandleKeyboard
<1> QED
  BY <1>2, <1>3, <1>5, <1>6, <1>7

\* The mouse's handler handles its byte.
LEMMA MouseIntStep ==
    ASSUME IInv, MouseInt
    PROVE  IInv'
<1> USE DEF IInv
<1>1. /\ pc = "handle" /\ running = Mouse /\ Return /\ Handled(Mouse)
      /\ leftover' = IF leftover = "unread" THEN "nothing" ELSE leftover
      /\ UNCHANGED lineVars
  BY DEF MouseInt
<1>2. LineTypes' /\ ShiftTypes' /\ LineState'
  BY <1>1 DEF lineVars, keyboardVars, shifts, LineTypes, ShiftTypes, LineState
<1>3. ControllerTypes' /\ QueueState'
  <2>1. leftover' \in {leftover, "nothing"} /\ (leftover = "latched" => leftover' = leftover)
    BY <1>1
  <2> QED
    BY <1>1, <2>1, HandledStep DEF Lines
<1>4. UNCHANGED <<output, irr, held, main>> /\ running' = None /\ pc' = "main" /\ data' = 0
  BY <1>1 DEF Return
<1>5. ProcessorTypes'
  <2>1. isr = {Cascade, Mouse}
    BY <1>1 DEF ProcessorTypes, InService, Keys, Mouse, None
  <2>2. isr' = {}
    BY <2>1 DEF MouseInt, PIC_EndSlave
  <2> QED
    BY <1>4, <2>2 DEF ProcessorTypes
<1>6. BytesSeen'
  BY <1>1, <1>4 DEF BytesSeen
<1>7. ShiftState'
  BY <1>1, <1>4 DEF ShiftState, Follows, Applied, Keys, Mouse, lineVars, keyboardVars, shifts
<1> QED
  BY <1>2, <1>3, <1>5, <1>6, <1>7

\* The prompt begins a line, in two steps.
LEMMA MainStep ==
    ASSUME IInv, Main
    PROVE  IInv'
<1> USE DEF IInv
<1>1. LineSize \in Nat \ {0}
  BY KeyboardAssumption
<1>2. /\ UNCHANGED <<output, irr, due, isr, running, pc, data, leftover, held>>
      /\ UNCHANGED <<isLeftShiftPressed, isRightShiftPressed, command>>
      /\ main' \in {"clear", "halt"}
  BY DEF Main, BeginPrompt, EndPrompt, PromptIndex, PromptClear, shifts, controller, cpu
<1>3. ShiftTypes' /\ ControllerTypes' /\ BytesSeen' /\ QueueState'
  BY <1>2 DEF ShiftTypes, ControllerTypes, BytesSeen, QueueState
<1>4. ProcessorTypes'
  BY <1>2 DEF ProcessorTypes
<1>5. ShiftState'
  BY <1>2 DEF ShiftState, Follows, Applied
<1>6. CASE BeginPrompt
  <2>1. i' = 0 /\ overrun' = FALSE /\ inputedString' = inputedString
    BY <1>6 DEF BeginPrompt, PromptIndex
  <2>2. overrun' \in BOOLEAN
    BY <2>1
  <2> QED
    BY <1>1, <1>2, <1>3, <1>4, <1>5, <2>1, <2>2 DEF LineTypes, LineState
<1>7. CASE EndPrompt
  <2>1. inputedString' = [inputedString EXCEPT ![0] = 0] /\ i' = i /\ overrun' = (overrun \/ i # 0)
    BY <1>7 DEF EndPrompt, PromptClear
  <2>2. overrun' \in BOOLEAN
    BY <2>1
  <2>3. LineTypes'
    BY <1>1, <1>2, <2>1, <2>2 DEF LineTypes
  <2>4. LineState'
    <3>2. ~overrun' => i' = 0
      BY <2>1
    <3>3. i' = 0 => \A n \in 0 .. i' - 1 : inputedString'[n] # 0
      OBVIOUS
    <3> QED
      BY <3>2, <3>3 DEF LineState
  <2> QED
    BY <1>3, <1>4, <1>5, <2>3, <2>4
<1> QED
  BY <1>6, <1>7 DEF Main

\* A device sends a byte.
LEMMA SendStep ==
    ASSUME IInv, NEW line \in Lines, NEW byte \in Seen, Send(line, byte),
           held' \subseteq ShiftKeys,
           line = Mouse => held' = held,
           \A key \in {LeftShift, RightShift}, was \in BOOLEAN :
             (key \in held <=> was) /\ line = Keys => (key \in held' <=> Pressed(byte, key, was))
    PROVE  IInv'
<1> USE DEF IInv
<1>1. /\ ~output.full /\ output' = [full |-> TRUE, from |-> line, data |-> byte]
      /\ irr' = irr \cup {line}
      /\ due' = [due EXCEPT ![line] = IF leftover = "latched" THEN due[line] ELSE Append(due[line], byte)]
      /\ UNCHANGED <<isr, running, pc, data, main, leftover, isLeftShiftPressed, isRightShiftPressed>>
      /\ UNCHANGED lineVars
  BY DEF Send, lineVars, keyboardVars, shifts, cpu
<1>2. byte \in 0 .. 255
  BY InterruptsAssumption DEF Seen, Ack, LeftShift, RightShift, Released
<1>3. LineTypes' /\ ShiftTypes' /\ LineState'
  BY <1>1 DEF lineVars, keyboardVars, shifts, LineTypes, ShiftTypes, LineState
<1>4. ControllerTypes'
  <2>1. due[line] \in Seq(0 .. 255)
    BY DEF ControllerTypes
  <2>2. Append(due[line], byte) \in Seq(0 .. 255)
    BY <1>2, <2>1, AppendProperties
  <2>3. due' \in [Lines -> Seq(0 .. 255)]
    BY <1>1, <2>1, <2>2 DEF ControllerTypes
  <2>4. output' \in [full : BOOLEAN, from : {Keys, Mouse}, data : 0 .. 255]
    BY <1>1, <1>2 DEF Lines
  <2> QED
    BY <1>1, <2>3, <2>4 DEF ControllerTypes
<1>5. ProcessorTypes'
  BY <1>1 DEF ProcessorTypes
<1>6. BytesSeen'
  BY <1>1 DEF BytesSeen
<1>7. QueueState'
  <2>1. CASE leftover = "latched"
    BY <1>1, <2>1 DEF QueueState, ControllerTypes
  <2>2. CASE leftover # "latched"
    <3>1. pc # "read" /\ irr = {}
      BY <1>1, <2>2 DEF QueueState
    <3>2. ASSUME NEW other \in Lines
          PROVE  due'[other] = OneByte(pc' = "handle" /\ running' = other, data')
                                 \o OneByte(output'.full /\ output'.from = other, output'.data)
      <4> DEFINE there == pc = "handle" /\ running = other
      <4>1. due[other] = OneByte(there, data)
        <5>1. due[other] = OneByte(there, data) \o <<>>
          BY <1>1, <2>2 DEF QueueState, OneByte
        <5> QED
          BY <5>1, OneByteType
      <4>2. due'[other] = OneByte(there, data) \o OneByte(line = other, byte)
        <5>1. CASE other = line
          <6>1. due'[other] = Append(OneByte(there, data), byte)
            BY <1>1, <2>2, <4>1, <5>1 DEF ControllerTypes
          <6>2. there \in BOOLEAN
            OBVIOUS
          <6>3. due'[other] = OneByte(there, data) \o <<byte>>
            <7> HIDE DEF there
            <7> QED
              BY <6>1, <6>2, NextByte
          <6> QED
            BY <5>1, <6>3 DEF OneByte
        <5>2. CASE other # line
          <6>1. due'[other] = OneByte(there, data)
            BY <1>1, <4>1, <5>2 DEF ControllerTypes
          <6>2. OneByte(there, data) = OneByte(there, data) \o <<>>
            BY OneByteType
          <6> QED
            BY <5>2, <6>1, <6>2 DEF OneByte
        <5> QED
          BY <5>1, <5>2
      <4> QED
        BY <1>1, <4>2
    <3>3. irr' = {output'.from} /\ output'.full
      BY <1>1, <3>1
    <3> QED
      BY <1>1, <2>2, <3>1, <3>2, <3>3 DEF QueueState
  <2> QED
    BY <2>1, <2>2
<1>8. ShiftState'
  <2> SUFFICES ASSUME leftover # "latched"
               PROVE  /\ Follows(LeftShift, isLeftShiftPressed)'
                      /\ Follows(RightShift, isRightShiftPressed)'
    BY <1>1 DEF ShiftState
  <2>1. ASSUME NEW key \in {LeftShift, RightShift}, NEW flag \in BOOLEAN, Follows(key, flag)
        PROVE  key \in held' <=>
                 Applied(output'.full /\ output'.from = Keys, output'.data, key,
                         Applied(pc' = "handle" /\ running' = Keys, data', key, flag))
    <3> DEFINE was == Applied(pc = "handle" /\ running = Keys, data, key, flag)
    <3>1. key \in held <=> was
      BY <1>1, <2>1 DEF Follows, Applied
    <3>2. was \in BOOLEAN
      BY DEF Applied, Pressed
    <3>3. CASE line = Keys
      <4>1. key \in held' <=> Pressed(byte, key, was)
        <5> HIDE DEF was
        <5> QED
          BY <3>1, <3>2, <3>3
      <4> QED
        BY <1>1, <3>3, <4>1 DEF Applied
    <3>4. CASE line = Mouse
      BY <1>1, <3>1, <3>4 DEF Applied, Keys, Mouse
    <3> QED
      BY <3>3, <3>4 DEF Lines
  <2> QED
    BY <1>1, <2>1 DEF ShiftState, ShiftTypes, Follows
<1> QED
  BY <1>3, <1>4, <1>5, <1>6, <1>7, <1>8

\* The devices send what is pressed, repeated and released.
LEMMA DevicesStep ==
    ASSUME IInv, Devices
    PROVE  IInv'
<1>1. /\ Codes \subseteq 0 .. 255
      /\ \A code \in Codes : code \notin {42, 170, 54, 182}
      /\ ShiftKeys \subseteq {42, 54}
  BY InterruptsAssumption DEF LeftShift, RightShift, Released
<1>2. held \subseteq ShiftKeys
  BY DEF IInv, ControllerTypes
<1>3. ASSUME NEW code \in Codes, KeyUsed(code)
      PROVE  IInv'
  <2>1. code \in Seen /\ Send(Keys, code) /\ held' \subseteq ShiftKeys /\ Keys \in Lines
    BY <1>1, <1>2, <1>3 DEF KeyUsed, Seen, Lines
  <2>2. \A key2 \in {LeftShift, RightShift}, was \in BOOLEAN :
          (key2 \in held <=> was) => (key2 \in held' <=> Pressed(code, key2, was))
    BY <1>1, <1>2, <1>3 DEF KeyUsed, Pressed, LeftShift, RightShift, Released
  <2>3. Keys # Mouse
    BY DEF Keys, Mouse
  <2> QED
    BY <2>1, <2>2, <2>3, SendStep
<1>4. ASSUME NEW key \in ShiftKeys, ShiftPressed(key)
      PROVE  IInv'
  <2>1. key \in Seen /\ Send(Keys, key) /\ held' \subseteq ShiftKeys /\ Keys \in Lines
    BY <1>1, <1>2, <1>4 DEF ShiftPressed, Seen, Lines
  <2>2. \A key2 \in {LeftShift, RightShift}, was \in BOOLEAN :
          (key2 \in held <=> was) => (key2 \in held' <=> Pressed(key, key2, was))
    BY <1>1, <1>2, <1>4 DEF ShiftPressed, Pressed, LeftShift, RightShift, Released
  <2>3. Keys # Mouse
    BY DEF Keys, Mouse
  <2> QED
    BY <2>1, <2>2, <2>3, SendStep
<1>5. ASSUME NEW key \in ShiftKeys, ShiftReleased(key)
      PROVE  IInv'
  <2>1. (key + Released) \in Seen /\ Send(Keys, (key + Released)) /\ held' \subseteq ShiftKeys /\ Keys \in Lines
    BY <1>1, <1>2, <1>5 DEF ShiftReleased, Seen, Lines
  <2>2. \A key2 \in {LeftShift, RightShift}, was \in BOOLEAN :
          (key2 \in held <=> was) => (key2 \in held' <=> Pressed((key + Released), key2, was))
    BY <1>1, <1>2, <1>5 DEF ShiftReleased, Pressed, LeftShift, RightShift, Released
  <2>3. Keys # Mouse
    BY DEF Keys, Mouse
  <2> QED
    BY <2>1, <2>2, <2>3, SendStep
<1>6. ASSUME NEW byte \in MouseBytes, MouseUsed(byte)
      PROVE  IInv'
  <2>1. byte \in Seen /\ Send(Mouse, byte) /\ held' \subseteq ShiftKeys /\ Mouse \in Lines
    BY <1>1, <1>2, <1>6 DEF MouseUsed, Seen, Lines
  <2>2. held' = held
    BY <1>6 DEF MouseUsed
  <2>3. Keys # Mouse
    BY DEF Keys, Mouse
  <2> QED
    BY <2>1, <2>2, <2>3, SendStep
<1> QED
  BY <1>3, <1>4, <1>5, <1>6 DEF Devices

\* The strengthened invariant holds in every reachable state.
THEOREM Invariance == Spec => []IInv
<1>1. Init => IInv
  BY InvInit
<1>2. IInv /\ [Next]_vars => IInv'
  <2> SUFFICES ASSUME IInv, [Next]_vars
               PROVE  IInv'
    OBVIOUS
  <2>1. CASE Next
    BY <2>1, DeliverStep, ReadStep, KeyboardIntStep, MouseIntStep, MainStep, DevicesStep DEF Next, Processor
  <2>2. CASE UNCHANGED vars
    <3> USE <2>2 DEF vars, lineVars, keyboardVars, shifts, controller, cpu, IInv
    <3>1. ShiftTypes' /\ LineTypes' /\ LineState'
      BY DEF ShiftTypes, LineTypes, LineState
    <3>2. ControllerTypes' /\ ProcessorTypes' /\ BytesSeen'
      BY DEF ControllerTypes, ProcessorTypes, BytesSeen
    <3>3. QueueState'
      BY DEF QueueState
    <3>4. ShiftState'
      BY DEF ShiftState, Follows
    <3> QED
      BY <3>1, <3>2, <3>3, <3>4
  <2> QED
    BY <2>1, <2>2
<1> QED
  BY <1>1, <1>2, PTL DEF Spec

-----------------------------------------------------------------------------
(* What the invariant says.                                                  *)

\* The bytes of a device that are not handled yet, when no interrupt was latched.
LEMMA Waiting ==
    ASSUME IInv, leftover # "latched", NEW line \in Lines
    PROVE  /\ due[line] = OneByte(pc = "handle" /\ running = line, data)
                            \o OneByte(output.full /\ output.from = line, output.data)
           /\ (pc = "handle" /\ running = line) \in BOOLEAN
           /\ (output.full /\ output.from = line) \in BOOLEAN
  BY DEF IInv, QueueState

\* The line is a string, its index stays inside it, at most one byte per device
\* is read and one waits, and the processor serves one interrupt at a time.
\* (keyboard.cpp, interrupts.cpp)
THEOREM TypeCorrect == Spec => []TypeOK
<1>1. IInv => TypeOK
  <2> SUFFICES ASSUME IInv
               PROVE  TypeOK
    OBVIOUS
  <2>1. Cardinality(isr) <= 2
    <3>1. isr = {} \/ isr = {Keys} \/ isr = {Cascade} \cup {Mouse}
      BY DEF IInv, ProcessorTypes, InService, Lines
    <3>2. Cardinality({}) = 0
      BY FS_EmptySet
    <3>3. Cardinality({Keys}) = 1
      BY FS_Singleton
    <3>4. Cardinality({Cascade} \cup {Mouse}) = 2
      <4>1. IsFiniteSet({Cascade}) /\ Cardinality({Cascade}) = 1 /\ Mouse \notin {Cascade}
        <5>1. Mouse \notin {Cascade}
          BY DEF Cascade, Mouse
        <5> QED
          BY <5>1, FS_Singleton
      <4> QED
        BY <4>1, FS_AddElement
    <3> QED
      BY <3>1, <3>2, <3>3, <3>4
  <2>2. ASSUME NEW line \in Lines
        PROVE  due[line] \in Seq(0 .. 255) /\ Len(due[line]) <= 2
    <3>1. due[line] \in Seq(0 .. 255)
      BY DEF IInv, ControllerTypes
    <3>2. CASE leftover = "latched"
      <4>1. due[line] = <<>>
        BY <3>2 DEF IInv, QueueState
      <4> QED
        BY <3>1, <4>1
    <3>3. CASE leftover # "latched"
      <4> DEFINE there == pc = "handle" /\ running = line
                 next  == output.full /\ output.from = line
                 S     == {data, output.data}
      <4>1. due[line] = OneByte(there, data) \o OneByte(next, output.data)
        BY <3>3, Waiting
      <4>2. there \in BOOLEAN /\ next \in BOOLEAN
        BY <3>3, Waiting
      <4> HIDE DEF there, next
      <4>3. data \in S /\ output.data \in S
        OBVIOUS
      <4> HIDE DEF S
      <4>4. /\ OneByte(there, data) \in Seq(S) /\ Len(OneByte(there, data)) <= 1
            /\ OneByte(next, output.data) \in Seq(S) /\ Len(OneByte(next, output.data)) <= 1
        BY <4>2, <4>3, OneByteType
      <4>5. Len(due[line]) = Len(OneByte(there, data)) + Len(OneByte(next, output.data))
        BY <4>1, <4>4, ConcatProperties
      <4>6. Len(OneByte(there, data)) \in Nat /\ Len(OneByte(next, output.data)) \in Nat
        BY <4>4, LenProperties
      <4> QED
        BY <3>1, <4>4, <4>5, <4>6
    <3> QED
      BY <3>2, <3>3
  <2>3. held \subseteq {LeftShift, RightShift}
    BY InterruptsAssumption DEF IInv, ControllerTypes
  <2> QED
    BY <2>1, <2>2, <2>3 DEF IInv, ShiftTypes, LineTypes, ControllerTypes, ProcessorTypes, TypeOK, Lines
<1> QED
  BY <1>1, Invariance, PTL

\* The handlers handle every byte of their device once and in order, unless an
\* interrupt of the mouse was latched when interrupts were switched on.
\* (interrupts.cpp 31-52)
THEOREM BytesHandledInOrder == Spec => []BytesInOrder
<1>1. IInv => BytesInOrder
  <2> SUFFICES ASSUME IInv, leftover # "latched", pc = "handle"
               PROVE  due[running] # <<>> /\ Head(due[running]) = data
    BY DEF BytesInOrder
  <2> DEFINE next == output.full /\ output.from = running
  <2>1. running \in Lines
    BY DEF IInv, ProcessorTypes
  <2>2. due[running] = <<data>> \o OneByte(next, output.data) /\ next \in BOOLEAN
    BY <2>1, Waiting DEF OneByte
  <2> HIDE DEF next
  <2> QED
    BY <2>2, FirstByte
<1> QED
  BY <1>1, Invariance, PTL

\* When the keyboard's bytes are handled, the shift flags say which shift keys are
\* down, whatever came in between.  (keyboard.cpp 9-44)
THEOREM FlagsFollowKeys == Spec => []ShiftsFollow
<1>1. IInv => ShiftsFollow
  <2> SUFFICES ASSUME IInv, leftover # "latched", due[Keys] = <<>>
               PROVE  /\ isLeftShiftPressed = (LeftShift \in held)
                      /\ isRightShiftPressed = (RightShift \in held)
    BY DEF ShiftsFollow
  <2> DEFINE there == pc = "handle" /\ running = Keys
             next  == output.full /\ output.from = Keys
  <2>1. due[Keys] = OneByte(there, data) \o OneByte(next, output.data)
        /\ there \in BOOLEAN /\ next \in BOOLEAN
    BY Waiting DEF Lines
  <2>2. ~there /\ ~next
    <3> HIDE DEF there, next
    <3>1. CASE there
      BY <2>1, <3>1, FirstByte DEF OneByte
    <3>2. CASE ~there /\ next
      <4>1. <<>> \o <<output.data>> # <<>>
        OBVIOUS
      <4> QED
        BY <2>1, <3>2, <4>1 DEF OneByte
    <3> QED
      BY <3>1, <3>2
  <2>3. (LeftShift \in held <=> isLeftShiftPressed) /\ (RightShift \in held <=> isRightShiftPressed)
    BY <2>2 DEF IInv, ShiftState, Follows, Applied
  <2> QED
    BY <2>3 DEF IInv, ShiftTypes
<1> QED
  BY <1>1, Invariance, PTL

-----------------------------------------------------------------------------
(* The line editor.                                                          *)

\* The text is a string as long as the index says, and it is never the lost one.
LEMMA TextIsString ==
    ASSUME LineTypes, LineState
    PROVE  /\ Text \in Seq(Int) /\ Len(Text) = i /\ i \in Nat
           /\ ~overrun => Text # <<-1>>
<1>1. LineSize \in Nat /\ i \in 0 .. LineSize - 1
  BY KeyboardAssumption DEF LineTypes
<1>2. \A m \in 0 .. i - 1 : inputedString[m] \in 0 .. 255
  BY <1>1 DEF LineTypes
<1>3. Text \in Seq(0 .. 255) /\ Len(Text) = i
  BY <1>1, <1>2, StringType DEF Text
<1>4. Text \in Seq(Int)
  <2> DEFINE bytes == 0 .. 255
  <2>1. bytes \subseteq Int
    OBVIOUS
  <2> HIDE DEF bytes
  <2>2. Text \in Seq(bytes)
    BY <1>3 DEF bytes
  <2> QED
    BY <2>1, <2>2, SeqMonotonic
<1>5. Text # <<-1>>
  <2> SUFFICES ASSUME Text = <<-1>>
               PROVE  FALSE
    OBVIOUS
  <2>1. Text[1] = -1 /\ Len(Text) = 1
    OBVIOUS
  <2>2. Text[1] \in 0 .. 255
    BY <1>3, <2>1, ElementOfSeq
  <2> QED
    BY <2>1, <2>2
<1> QED
  BY <1>1, <1>3, <1>4, <1>5

\* Without its last character a string is the shorter one.
LEMMA Shorter ==
    ASSUME NEW bytes, NEW k \in Nat \ {0}
    PROVE  SubSeq([n \in 1 .. k |-> bytes[n - 1]], 1, k - 1) = [n \in 1 .. k - 1 |-> bytes[n - 1]]
<1> DEFINE long  == [n \in 1 .. k |-> bytes[n - 1]]
           short == [n \in 1 .. k - 1 |-> bytes[n - 1]]
           S     == {bytes[m] : m \in 0 .. k - 1}
<1>1. long \in Seq(S) /\ Len(long) = k
  BY StringType
<1>2. short \in Seq(S) /\ Len(short) = k - 1
  <2>1. \A m \in 0 .. (k - 1) - 1 : bytes[m] \in S
    OBVIOUS
  <2> HIDE DEF S
  <2> QED
    BY <2>1, StringType
<1>3. \A n \in 1 .. k - 1 : long[n] = bytes[n - 1] /\ short[n] = bytes[n - 1]
  OBVIOUS
<1> HIDE DEF long, short, S
<1>4. /\ SubSeq(long, 1, k - 1) \in Seq(S) /\ Len(SubSeq(long, 1, k - 1)) = k - 1
      /\ \A n \in 1 .. k - 1 : SubSeq(long, 1, k - 1)[n] = long[n]
  <2>1. \A n \in 1 .. k - 1 : long[n] \in S
    BY <1>1, ElementOfSeq
  <2> QED
    BY <2>1, SubSeqProperties
<1>5. SubSeq(long, 1, k - 1) = short
  BY <1>2, <1>3, <1>4, SeqEqual
<1> QED
  BY <1>5 DEF long, short

\* With a character more it is the longer one.
LEMMA Longer ==
    ASSUME NEW bytes, NEW more, NEW k \in Nat, NEW c,
           more[k] = c, \A m \in 0 .. k - 1 : more[m] = bytes[m]
    PROVE  Append([n \in 1 .. k |-> bytes[n - 1]], c) = [n \in 1 .. k + 1 |-> more[n - 1]]
<1> DEFINE short == [n \in 1 .. k |-> bytes[n - 1]]
           long  == [n \in 1 .. k + 1 |-> more[n - 1]]
           S     == {more[m] : m \in 0 .. k}
<1>1. short \in Seq(S) /\ Len(short) = k
  <2>1. \A m \in 0 .. k - 1 : bytes[m] \in S
    OBVIOUS
  <2> HIDE DEF S
  <2> QED
    BY <2>1, StringType
<1>2. long \in Seq(S) /\ Len(long) = k + 1
  <2>1. \A m \in 0 .. (k + 1) - 1 : more[m] \in S
    OBVIOUS
  <2> HIDE DEF S
  <2> QED
    BY <2>1, StringType
<1>3. /\ \A n \in 1 .. k : short[n] = bytes[n - 1]
      /\ \A n \in 1 .. k + 1 : long[n] = more[n - 1]
      /\ c \in S
  OBVIOUS
<1> HIDE DEF long, short, S
<1>4. /\ Append(short, c) \in Seq(S) /\ Len(Append(short, c)) = k + 1
      /\ \A n \in 1 .. k : Append(short, c)[n] = short[n]
      /\ Append(short, c)[k + 1] = c
  BY <1>1, <1>3, AppendProperties
<1>5. \A n \in 1 .. k + 1 : Append(short, c)[n] = long[n]
  <2>1. ASSUME NEW n \in 1 .. k
        PROVE  Append(short, c)[n] = long[n]
    BY <1>3, <1>4, <2>1
  <2>2. Append(short, c)[k + 1] = long[k + 1]
    BY <1>3, <1>4
  <2>3. \A n \in 1 .. k + 1 : n \in 1 .. k \/ n = k + 1
    OBVIOUS
  <2> QED
    BY <2>1, <2>2, <2>3, Zenon
<1>6. Append(short, c) = long
  BY <1>2, <1>4, <1>5, SeqEqual
<1> QED
  BY <1>6 DEF long, short

\* A character is appended, the last one is taken back, and the end of the line
\* runs it: each is a step of the editor.  (desktop/handlers/keyboard.cpp 205-255)
LEMMA EventRefines ==
    ASSUME LineTypes, LineState, NEW c \in Chars \cup {0, Erase, Newline}, KeyboardEvent(c), main' = main
    PROVE  Editor!Next \/ UNCHANGED <<main = "halt", TheLine, command>>
<1>1. LineSize \in Nat \ {0} /\ Chars \subseteq 1 .. 255 /\ Erase \notin Chars /\ Newline \notin Chars
  BY KeyboardAssumption, CharsType DEF Chars
<1>2. Erase # 0 /\ Newline # 0 /\ Erase # Newline
  BY DEF Erase, Newline
<1>3. Text \in Seq(Int) /\ Len(Text) = i /\ i \in Nat /\ (~overrun => Text # <<-1>>)
  BY TextIsString
<1>4. CASE c = Newline
  <2>1. FinishLine
    BY <1>2, <1>4 DEF KeyboardEvent
  <2>2. i' = 0 /\ overrun' = FALSE
    BY <2>1 DEF FinishLine
  <2>3. TheLine' = <<>>
    <3>1. Text' = <<>>
      BY <2>2 DEF Text
    <3> QED
      BY <2>2, <3>1 DEF TheLine
  <2> DEFINE Ended == TheLine' = <<>> /\ UNCHANGED (main = "halt")
  <2>e. Ended
    BY <2>3
  <2>r. /\ Ended /\ TheLine # <<-1>> /\ command' = TheLine => Editor!Run
        /\ Ended /\ TheLine = <<-1>> /\ command' \in Seq(1 .. 255) => Editor!Run
        /\ Ended /\ TheLine \in {line \in Seq(1 .. 255) : IsCd(line)}
              /\ Editor!Damaged(command') => Editor!Run
    BY Zenon DEF Editor!Run, Editor!Lost, Editor!Commands, TheLine, Text
  <2> HIDE DEF Ended
  <2>4. ASSUME overrun
        PROVE  Editor!Run
    <3>1. command' \in Seq(1 .. 255)
      BY <2>1, FinishedCommand
    <3>2. TheLine = <<-1>>
      BY <2>4 DEF TheLine
    <3> QED
      BY <2>e, <2>r, <3>1, <3>2, Zenon
  <2>5. ASSUME ~overrun, command' = Text
        PROVE  Editor!Run
    <3>1. TheLine = Text /\ Text # <<-1>>
      BY <1>3, <2>5 DEF TheLine
    <3> QED
      BY <2>5, <2>e, <2>r, <3>1, Zenon
  <2>6. ASSUME ~overrun, command' # Text
        PROVE  Editor!Run
    <3>1. /\ IsCd(Text) /\ Len(command') <= i /\ command' \in Seq(1 .. 255)
          /\ \A n \in 1 .. Len(command') :
               command'[n] = inputedString[n - 1] \/ n - 1 \in LastField
          /\ Len(command') = i \/ Len(command') \in LastField
      BY <2>1, <2>6, FinishedCommand
    <3>2. TheLine = Text
      BY <2>6 DEF TheLine
    <3>3. \A m \in LastField : m + 1 \in {n + 1 : n \in LastField}
      OBVIOUS
    <3>4. \A n \in 1 .. Len(command') : n \in 1 .. i /\ (n - 1) + 1 = n
      BY <1>3, <3>1, LenProperties
    <3>5. \A n \in 1 .. Len(command') :
             command'[n] = Text[n] \/ n \in {m + 1 : m \in LastField}
      BY <3>1, <3>3, <3>4 DEF Text
    <3>6. Text \in {line \in Seq(1 .. 255) : IsCd(line)}
      <4>1. \A m \in 0 .. i - 1 : inputedString[m] \in 1 .. 255
        BY <1>1, <2>6 DEF LineTypes, LineState
      <4> QED
        BY <1>3, <3>1, <4>1, StringType DEF Text
    <3>7. Editor!Damaged(command')
      BY <1>3, <3>1, <3>2, <3>3, <3>5 DEF Editor!Damaged, Editor!Commands, TheLine, Text
    <3> QED
      BY <2>e, <2>r, <3>2, <3>6, <3>7, Zenon
  <2>7. Editor!Run
    BY <2>4, <2>5, <2>6, Zenon
  <2> QED
    BY <2>7 DEF Editor!Next
<1>5. CASE c = Erase
  <2>1. i' = (IF i > 0 THEN i - 1 ELSE i) /\ UNCHANGED <<inputedString, command, overrun>>
    BY <1>2, <1>5 DEF KeyboardEvent, EraseChar
  <2>2. TheLine' = IF TheLine \in {<<-1>>, <<>>} THEN TheLine ELSE SubSeq(TheLine, 1, Len(TheLine) - 1)
    <3>1. CASE overrun
      BY <2>1, <3>1 DEF TheLine
    <3>2. CASE ~overrun /\ i = 0
      <4>1. Text = <<>> /\ Text' = Text
        BY <2>1, <3>2 DEF Text
      <4> QED
        BY <2>1, <3>2, <4>1 DEF TheLine
    <3>3. CASE ~overrun /\ i # 0
      <4>1. Text # <<>>
        BY <1>3, <3>3
      <4>2. Text' = SubSeq(Text, 1, i - 1)
        <5>1. i' = i - 1 /\ inputedString' = inputedString
          BY <1>3, <2>1, <3>3
        <5>2. Text' = [n \in 1 .. i - 1 |-> inputedString[n - 1]]
          BY <5>1 DEF Text
        <5> QED
          BY <1>3, <3>3, <5>2, Shorter DEF Text
      <4> QED
        BY <1>3, <2>1, <3>3, <4>1, <4>2 DEF TheLine
    <3> QED
      BY <3>1, <3>2, <3>3
  <2>3. Editor!TakeBack
    BY <2>1, <2>2 DEF Editor!TakeBack, Editor!Lost, TheLine, Text
  <2> QED
    BY <2>3 DEF Editor!Next
<1>6. CASE c = 0
  <2>1. UNCHANGED <<inputedString, i, command, overrun>>
    BY <1>2, <1>6 DEF KeyboardEvent
  <2> QED
    BY <2>1 DEF TheLine, Text
<1>7. CASE c \in Chars
  <2>1. TypeChar(c) /\ UNCHANGED command
    BY <1>1, <1>7 DEF KeyboardEvent
  <2>2. TheLine' = IF TheLine = <<-1>> \/ Len(TheLine) + 1 = LineSize THEN <<-1>>
                   ELSE Append(TheLine, c)
    <3>1. /\ inputedString' = [inputedString EXCEPT ![i] = c]
          /\ i' = (i + 1) % LineSize
          /\ overrun' = (overrun \/ i + 1 = LineSize)
      BY <2>1 DEF TypeChar
    <3>2. CASE overrun
      BY <3>1, <3>2 DEF TheLine
    <3>3. CASE ~overrun /\ i + 1 = LineSize
      BY <1>3, <3>1, <3>3 DEF TheLine
    <3>4. CASE ~overrun /\ i + 1 # LineSize
      <4>1. i' = i + 1 /\ i \in 0 .. LineSize - 1
        <5>1. i \in 0 .. LineSize - 1
          BY DEF LineTypes
        <5>2. (i + 1) % LineSize = i + 1
          BY <1>1, <3>4, <5>1
        <5> QED
          BY <3>1, <5>1, <5>2
      <4>2. Text' = Append(Text, c)
        <5> DEFINE more == [inputedString EXCEPT ![i] = c]
        <5>1. more[i] = c /\ \A m \in 0 .. i - 1 : more[m] = inputedString[m]
          BY <1>1, <4>1 DEF LineTypes
        <5>2. Text' = [n \in 1 .. i + 1 |-> more[n - 1]]
          BY <3>1, <4>1 DEF Text
        <5> HIDE DEF more
        <5> QED
          <6>1. Append([n \in 1 .. i |-> inputedString[n - 1]], c) = [n \in 1 .. i + 1 |-> more[n - 1]]
            <7>1. i \in Nat
              BY <1>3
            <7>2. more[i] = c
              BY <5>1
            <7>3. \A m \in 0 .. i - 1 : more[m] = inputedString[m]
              BY <5>1
            <7> QED
              BY <7>1, <7>2, <7>3, Longer
          <6> QED
            BY <5>2, <6>1 DEF Text
      <4> QED
        BY <1>3, <3>1, <3>4, <4>2 DEF TheLine
    <3> QED
      BY <3>2, <3>3, <3>4
  <2>3. Editor!Type(c)
    BY <2>1, <2>2 DEF Editor!Type, Editor!Lost, TheLine, Text
  <2> QED
    BY <1>7, <2>3 DEF Editor!Next
<1> QED
  BY <1>4, <1>5, <1>6, <1>7

\* The shell's input line implements the line editor: a command is the line that
\* was typed, without what was taken back, whatever the order of keys, prompt and
\* interrupts, as long as the line is not overrun; a cd command may find the heap's
\* pointer in the place of the line's characters 17 to 24.
\* (keyboard.cpp, desktop/handlers/keyboard.cpp, interrupts.cpp)
THEOREM LineImplemented == Spec => ImplementsLine
<1>1. Init => Editor!Init
  BY DEF Init, KeyboardInit, Editor!Init
<1>2. IInv /\ [Next]_vars => [Editor!Next]_(Editor!vars)
  <2> SUFFICES ASSUME IInv, [Next]_vars
               PROVE  Editor!Next \/ UNCHANGED <<main = "halt", TheLine, command>>
    BY DEF Editor!vars, TheLine, Text
  <2>1. CASE KeyboardInt
    <3>1. main' = main /\ data \in Seen
      BY <2>1 DEF KeyboardInt, Return, IInv, BytesSeen
    <3>2. PICK c \in HandleScancode(data) : KeyboardEvent(c)
      BY <2>1 DEF KeyboardInt, HandleKeyboard
    <3>3. c \in Chars \cup {0, Erase, Newline}
      BY <3>1, ScancodeChars DEF IInv
    <3> QED
      BY <3>1, <3>2, <3>3, EventRefines DEF IInv
  <2>2. CASE BeginPrompt
    <3>1. main = "prompt" /\ main' = "clear" /\ i' = 0 /\ overrun' = FALSE /\ command' = command
      BY <2>2 DEF BeginPrompt, PromptIndex
    <3>2. TheLine' = <<>>
      <4>1. Text' = <<>>
        BY <3>1 DEF Text
      <4> QED
        BY <3>1, <4>1 DEF TheLine
    <3>3. Editor!Prompt
      BY <3>1, <3>2 DEF Editor!Prompt, TheLine, Text
    <3> QED
      BY <3>3 DEF Editor!Next
  <2>3. CASE EndPrompt
    <3>1. /\ main = "clear" /\ main' = "halt" /\ i' = i /\ command' = command
          /\ overrun' = (overrun \/ i # 0)
      BY <2>3 DEF EndPrompt, PromptClear
    <3>2. TheLine' \in {<<>>, <<-1>>}
      <4>1. CASE overrun'
        BY <4>1 DEF TheLine
      <4>2. CASE ~overrun'
        <5>1. Text' = <<>>
          <6>1. i' = 0
            BY <3>1, <4>2
          <6> QED
            BY <6>1 DEF Text
        <5> QED
          BY <4>2, <5>1 DEF TheLine
      <4> QED
        BY <4>1, <4>2
    <3>3. Editor!Prompt
      BY <3>1, <3>2 DEF Editor!Prompt, Editor!Lost, TheLine, Text
    <3> QED
      BY <3>3 DEF Editor!Next
  <2>4. CASE UNCHANGED <<main, i, overrun, inputedString, command>>
    BY <2>4 DEF TheLine, Text
  <2>5. \/ UNCHANGED vars \/ ReadByte \/ MouseInt \/ Devices
        \/ \E line \in Lines : Deliver(line)
        => UNCHANGED <<main, i, overrun, inputedString, command>>
    BY DEF vars, ReadByte, MouseInt, Return, Devices, KeyUsed, ShiftPressed, ShiftReleased, MouseUsed,
           Send, Deliver, lineVars, keyboardVars
  <2> QED
    BY <2>1, <2>2, <2>3, <2>4, <2>5 DEF Next, Processor, Main
<1> QED
  BY <1>1, <1>2, Invariance, PTL DEF Spec, ImplementsLine, Editor!Spec
=============================================================================
