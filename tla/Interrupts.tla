------------------------------ MODULE Interrupts ------------------------------
(***************************************************************************)
(* The interrupts of the kernel and what runs beside them:                 *)
(* kernel/src/interrupts/interrupts.cpp, the end of InitializeKernel, and  *)
(* what _start and startDesktop do after sti.                              *)
(*                                                                         *)
(* Keyboard and mouse share one controller with a buffer of one byte; the  *)
(* PICs choose among the pending interrupts.  Handlers run with interrupts *)
(* off, so that only the devices interleave with their steps, and they     *)
(* interrupt the main program anywhere.  Mouse.tla says what a byte of the *)
(* mouse does; here it is only handled.                                    *)
(***************************************************************************)
EXTENDS Keyboard, FiniteSets

CONSTANTS
    Codes,          \* scancodes of the keys used, those of the shifts apart
    ShiftKeys,      \* the shifts that are used
    MouseBytes

ASSUME InterruptsAssumption ==
    /\ Codes \subseteq (0 .. 255) \ {k + r : k \in {LeftShift, RightShift}, r \in {0, Released}}
    /\ ShiftKeys \subseteq {LeftShift, RightShift}
    /\ MouseBytes \subseteq 0 .. 255

\* Lines by priority; the second PIC is the first one's line Cascade.
Keys    == 1
Cascade == 2
Mouse   == 12
Lines   == {Keys, Mouse}
None    == -1
Ack     == 250          \* the mouse's answer to a command

VARIABLES
    output,             \* of the 8042: [full, from, data]
    irr, isr,           \* of the PICs: pending and in service
    running, pc, data,  \* the handler, its next step, what it has read
    main,               \* what _start does
    \* History, for the properties.
    leftover,           \* of PS2MouseInitialization
    due,                \* bytes of each device that are not handled yet, kept
                        \* unless a handler may have taken the other's byte
    held                \* shift keys that are down

lineVars   == keyboardVars
controller == <<output, irr, due>>
cpu        == <<isr, running, pc, data>>
vars       == <<lineVars, controller, cpu, main, leftover, held>>

\* PS2MouseInitialization may read the mouse's answers in time or not, and the
\* PIC may have latched the interrupt of one that was read.
Init ==
    /\ KeyboardInit
    /\ leftover \in {"nothing", "latched", "unread"}
    /\ output = [full |-> leftover = "unread", from |-> Mouse, data |-> Ack]
    /\ irr = IF leftover = "nothing" THEN {} ELSE {Mouse}
    /\ due = [line \in {Keys, Mouse} |->
                  IF line = Mouse /\ leftover = "unread" THEN <<Ack>> ELSE <<>>]
    /\ isr = {} /\ running = None /\ pc = "main" /\ data = 0
    /\ main = "prompt"
    /\ held = {}

-----------------------------------------------------------------------------
(* The processor and the handlers.                                         *)

InService(line) == IF line = Mouse THEN {Cascade, Mouse} ELSE {line}

\* Interrupts are on in the main program only.
Deliver(line) ==
    /\ running = None /\ line \in irr
    /\ \A other \in irr \cap Lines : line <= other
    /\ \A other \in isr : line < other
    /\ irr' = irr \ {line}
    /\ isr' = isr \cup InService(line)
    /\ running' = line
    /\ pc' = "read"
    /\ UNCHANGED <<lineVars, output, due, data, main, leftover, held>>

\* The empty buffer answers with its last byte; the byte is kept here as long as
\* an interrupt is pending that can read it so.
EmptyBuffer ==
    IF irr = {} THEN [output EXCEPT !.full = FALSE, !.from = Mouse, !.data = 0]
                ELSE [output EXCEPT !.full = FALSE]

\* Mutant: the byte is handled before it is read.
FetchLate ==
    /\ pc = "read"
    /\ output' = EmptyBuffer
    /\ UNCHANGED data

Fetch ==
    /\ pc = "read"
    /\ output' = EmptyBuffer
    /\ data' = output.data

ReadByte ==
    /\ Fetch
    /\ pc' = "handle"
    /\ UNCHANGED <<lineVars, irr, isr, running, main, leftover, due, held>>

\* The master's command ends the service of its first line.
PIC_EndMaster ==
    isr' = isr \ {line \in isr \ {Mouse} : \A other \in isr : line <= other}

\* Mutant: the slave is told, but not the master.
EndSlaveOnly == isr' = isr \ {Mouse}

PIC_EndSlave == isr' = isr \ {Mouse, Cascade}

\* The end of a handler, up to which interrupts are off.
Return ==
    /\ running' = None /\ pc' = "main" /\ data' = 0
    /\ UNCHANGED <<output, irr, main, held>>

Handled(line) ==
    due' = [due EXCEPT ![line] = IF @ = <<>> THEN @ ELSE Tail(@)]

KeyboardInt ==
    /\ pc = "handle" /\ running = Keys
    /\ HandleKeyboard(data)
    /\ PIC_EndMaster
    /\ Return
    /\ Handled(Keys)
    /\ UNCHANGED leftover

MouseInt ==
    /\ pc = "handle" /\ running = Mouse
    /\ PIC_EndSlave
    /\ Return
    /\ Handled(Mouse)
    /\ leftover' = IF leftover = "unread" THEN "nothing" ELSE leftover
    /\ UNCHANGED lineVars

-----------------------------------------------------------------------------
(* The main program, from sti on.                                          *)

\* The prompt comes after the choice of the disk, FAT_Initialize and setDisk, which
\* change nothing else here: commands of earlier lines find no disk.
BeginPrompt ==
    /\ running = None /\ main = "prompt"
    /\ PromptIndex
    /\ main' = "clear"
    /\ UNCHANGED <<controller, cpu, leftover, held>>

EndPrompt ==
    /\ running = None /\ main = "clear"
    /\ PromptClear
    /\ main' = "halt"
    /\ UNCHANGED <<controller, cpu, leftover, held>>

Main == BeginPrompt \/ EndPrompt

-----------------------------------------------------------------------------
(* The devices.                                                            *)

\* A device's byte goes into the empty buffer and raises the device's line.
Send(line, byte) ==
    /\ ~output.full
    /\ output' = [full |-> TRUE, from |-> line, data |-> byte]
    /\ irr' = irr \cup {line}
    /\ due' = [due EXCEPT ![line] = IF leftover = "latched" THEN @ ELSE Append(@, byte)]
    /\ UNCHANGED <<lineVars, cpu, main, leftover>>

KeyUsed(code) == Send(Keys, code) /\ UNCHANGED held

\* A shift key that is held is repeated.
ShiftPressed(key) == Send(Keys, key) /\ held' = held \cup {key}

ShiftReleased(key) ==
    /\ key \in held
    /\ Send(Keys, key + Released)
    /\ held' = held \ {key}

MouseUsed(byte) == Send(Mouse, byte) /\ UNCHANGED held

Devices ==
    \/ \E code \in Codes : KeyUsed(code)
    \/ \E key \in ShiftKeys : ShiftPressed(key) \/ ShiftReleased(key)
    \/ \E byte \in MouseBytes : MouseUsed(byte)

Processor == (\E line \in Lines : Deliver(line)) \/ ReadByte \/ KeyboardInt \/ MouseInt

Next ==
    \/ Processor
    \/ Main
    \/ Devices

\* The processor goes on: with a handler that has begun, or with an interrupt that
\* it can take.
Spec == Init /\ [][Next]_vars /\ WF_vars(Processor) /\ WF_vars(Main)

-----------------------------------------------------------------------------
(* Properties.                                                             *)

TypeOK ==
    /\ isLeftShiftPressed \in BOOLEAN /\ isRightShiftPressed \in BOOLEAN
    /\ inputedString \in [0 .. LineSize - 1 -> 0 .. 255]
    /\ i \in 0 .. LineSize - 1 /\ overrun \in BOOLEAN
    /\ command \in Seq(1 .. 255) /\ Len(command) < LineSize
    /\ output \in [full : BOOLEAN, from : {Keys, Mouse}, data : 0 .. 255]
    /\ irr \subseteq Lines /\ Cardinality(isr) <= 2
    /\ isr = IF running = None THEN {} ELSE InService(running)
    /\ running \in Lines \cup {None} /\ pc \in {"main", "read", "handle"}
    /\ data \in 0 .. 255 /\ main \in {"prompt", "clear", "halt"}
    /\ \A line \in {Keys, Mouse} : due[line] \in Seq(0 .. 255) /\ Len(due[line]) <= 2
    /\ held \subseteq {LeftShift, RightShift}

\* The characters of the bytes that the keyboard's handler may read: those of the
\* keys used, and the mouse's, which it gets if an interrupt was latched at sti.
Typed == UNION {Translate(code, FALSE) \cup Translate(code, TRUE) : code \in Codes \cup MouseBytes}
Chars == (Typed \cup {Blank}) \ {0, Erase, Newline}

\* A command is the line that was typed: erasing stops at its beginning, what was
\* typed on an earlier line or before the prompt does not come back, whatever the
\* order of keys, prompt and interrupts, as long as the line is not overrun.  The
\* exception is a cd command whose line reaches beyond its sixteenth character: the
\* heap may write over the next eight, and no others, before cd copies them.
Editor == INSTANCE LineEditor WITH
    Capacity  <- LineSize,
    Rereading <- {line \in Seq(1 .. 255) : IsCd(line)},
    Exposed   <- {n + 1 : n \in LastField},
    started   <- main = "halt",
    line      <- IF overrun THEN <<-1>> ELSE [n \in 1 .. i |-> inputedString[n - 1]]
ImplementsLine == Editor!Spec

\* The handlers handle every byte of their device once and in order, although they
\* never ask whether there is one and which device it is from.  Not so if the
\* interrupt of the mouse's last answer is still latched at sti: bytes that come
\* while it is served may be taken by the wrong handler.
BytesInOrder ==
    leftover # "latched" =>
        (pc = "handle" => due[running] # <<>> /\ Head(due[running]) = data)

\* Once the keyboard's bytes are handled, the shift flags say which shift keys are
\* down, whatever the order of presses, repeats, releases and bytes of the mouse.
ShiftsFollow ==
    leftover # "latched" /\ due[Keys] = <<>> =>
        /\ isLeftShiftPressed = (LeftShift \in held)
        /\ isRightShiftPressed = (RightShift \in held)

\* No byte stays in the controller: no device blocks the other one for ever, and no
\* handler leaves its line in service.
BytesFetched == output.full ~> ~output.full
=============================================================================
