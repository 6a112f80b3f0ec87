------------------------------- MODULE Keyboard -------------------------------
(***************************************************************************)
(* The keyboard and the shell's input line:                                *)
(* kernel/src/userinput/keyboard.cpp, kbScancodeTranslation.cpp and        *)
(* desktop/handlers/keyboard.cpp.                                          *)
(*                                                                         *)
(* Scancodes and characters have the code's values.  The line's index has  *)
(* LineSize values, 256 in the code, and wraps.  A command's own work is   *)
(* left to FAT.tla.                                                        *)
(*                                                                         *)
(* inputedString is a pointer that is never assigned, so it is NULL (the   *)
(* loader is taken to hand over a .bss of zeros) and the line lies at      *)
(* address 0, which is mapped: on the kernel's first functions, which run  *)
(* at boot only.  What it holds at first is code.  And the heap writes     *)
(* into it: Split stores next->last (heap.cpp:70) also when next is NULL,  *)
(* eight bytes of a pointer at addresses 16 to 23.  A cd command allocates *)
(* before it copies its argument out of the line; the others have read     *)
(* their line before they allocate, if they do.                            *)
(***************************************************************************)
EXTENDS Integers, Sequences

CONSTANTS
    ASCIITable,     \* scancode -> character, 0 for keys without one
    LineSize,       \* values of the line's index
    CodeBytes,      \* bytes of the code under the line
    CdPrefix,       \* how a cd command with an argument begins: "cd "
    LastField,      \* the line's indices under the field last of a header at
                    \* NULL, 16 .. 23 in the code
    PointerBytes    \* bytes of a pointer to a segment header

LeftShift  == 42
RightShift == 54
Enter      == 28
BackSpace  == 14
Spacebar   == 57
Released   == 128

Newline == 10
Blank   == 32
Erase   == 8

ASSUME KeyboardAssumption ==
    /\ LineSize \in Nat \ {0}
    /\ ASCIITable \in [0 .. 57 -> 0 .. 126]

ASSUME MemoryAssumption ==
    /\ CodeBytes \subseteq 0 .. 255 /\ PointerBytes \subseteq 0 .. 255
    /\ LastField \subseteq 0 .. LineSize - 1
    /\ CdPrefix \in Seq(1 .. 255)

VARIABLES
    isLeftShiftPressed, isRightShiftPressed,
    inputedString,      \* the line's bytes
    i,                  \* its index
    command,            \* the last line that was finished
    overrun             \* history: the line is not what was typed

shifts       == <<isLeftShiftPressed, isRightShiftPressed>>
keyboardVars == <<shifts, inputedString, i, command, overrun>>

KeyboardInit ==
    /\ isLeftShiftPressed = FALSE /\ isRightShiftPressed = FALSE
    /\ inputedString \in [0 .. LineSize - 1 -> CodeBytes]
    /\ i = 0
    /\ command = <<>>
    /\ overrun = FALSE

\* The table has 58 characters, the check lets 58 through as well: the byte
\* after the table can have any value.
Characters(scancode) ==
    CASE scancode > 58 -> {0}
      [] scancode = 58 -> 0 .. 255
      [] OTHER -> {ASCIITable[scancode]}

\* An upper case letter is 32 below; so is every other key with a shift, those
\* without a character included.
Translate(scancode, uppercase) ==
    IF uppercase /\ scancode <= 58
    THEN {(c + 224) % 256 : c \in Characters(scancode)}
    ELSE Characters(scancode)

\* Mutant: releasing a shift key is taken for any other key.
ShiftNeverReleased(scancode, key, was) == was \/ scancode = key

Pressed(scancode, key, was) ==
    scancode = key \/ (was /\ scancode # key + Released)

HandleScancode(scancode) ==
    CASE scancode \in {LeftShift, LeftShift + Released, RightShift, RightShift + Released} -> {0}
      [] scancode = Enter -> {Newline}
      [] scancode = Spacebar -> {Blank}
      [] scancode = BackSpace -> {Erase}
      [] OTHER -> Translate(scancode, isLeftShiftPressed \/ isRightShiftPressed)

StringAt(bytes) ==
    LET end == CHOOSE n \in DOMAIN bytes :
                  bytes[n] = 0 /\ \A m \in 0 .. n - 1 : bytes[m] # 0
    IN  [n \in 1 .. end |-> bytes[n - 1]]

\* Mutant: taking a character back does not test for the first one.
EraseBeyond == i' = (i + LineSize - 1) % LineSize

EraseChar == i' = IF i > 0 THEN i - 1 ELSE i

\* Mutant: the index has no end.
TypeBeyond(c) ==
    /\ inputedString' = [inputedString EXCEPT ![i] = c]
    /\ i' = i + 1
    /\ overrun' = overrun

TypeChar(c) ==
    /\ inputedString' = [inputedString EXCEPT ![i] = c]
    /\ i' = (i + 1) % LineSize
    /\ overrun' = (overrun \/ i + 1 = LineSize)

IsCd(line) ==
    /\ Len(line) > Len(CdPrefix)
    /\ SubSeq(line, 1, Len(CdPrefix)) = CdPrefix

\* The line after an allocation that splits the heap's last segment.
WithPointer(bytes, pointer) ==
    [n \in DOMAIN bytes |-> IF n \in LastField THEN pointer[n] ELSE bytes[n]]

\* The command runs on the line itself and takes the spaces at its end off it;
\* then shellInitialize begins the next line.  cd knows the line's length when
\* it allocates, and copies the characters that stand there afterwards.
FinishLine ==
    LET ended == [inputedString EXCEPT ![i] = 0]
        line  == StringAt(ended)
    IN  /\ \E bytes \in {ended} \cup {WithPointer(ended, pointer) :
                                        pointer \in [LastField -> PointerBytes]} :
              /\ command' = IF IsCd(line)
                            THEN StringAt([bytes EXCEPT ![Len(line)] = 0]) ELSE line
              /\ inputedString' = [bytes EXCEPT ![0] = 0]
        /\ i' = 0
        /\ overrun' = FALSE

KeyboardEvent(c) ==
    CASE c = Newline -> FinishLine
      [] c = Erase   -> EraseChar /\ UNCHANGED <<inputedString, command, overrun>>
      [] c = 0       -> UNCHANGED <<inputedString, i, command, overrun>>
      [] OTHER       -> TypeChar(c) /\ UNCHANGED command

HandleKeyboard(scancode) ==
    /\ isLeftShiftPressed' = Pressed(scancode, LeftShift, isLeftShiftPressed)
    /\ isRightShiftPressed' = Pressed(scancode, RightShift, isRightShiftPressed)
    /\ \E c \in HandleScancode(scancode) : KeyboardEvent(c)

\* The two assignments of the prompt that startDesktop writes: a key may be
\* handled between them.
PromptIndex ==
    /\ i' = 0
    /\ overrun' = FALSE
    /\ UNCHANGED <<shifts, inputedString, command>>

PromptClear ==
    /\ inputedString' = [inputedString EXCEPT ![0] = 0]
    /\ overrun' = (overrun \/ i # 0)
    /\ UNCHANGED <<shifts, i, command>>
=============================================================================
