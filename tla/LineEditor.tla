------------------------------ MODULE LineEditor ------------------------------
(***************************************************************************)
(* What the shell promises the user: the command that runs is the line     *)
(* that was typed, without the characters that were taken back.  Two lines *)
(* may get lost, so that any command runs in their place: one of Capacity  *)
(* characters, and one begun before the first prompt.  And a command of    *)
(* Rereading may find other characters at the positions Exposed of its     *)
(* line, or find that it ends before one of them.                          *)
(* Keyboard.tla implements it, which Interrupts.tla shows.                 *)
(***************************************************************************)
EXTENDS Sequences, Integers

CONSTANTS Chars, Capacity, Rereading, Exposed

VARIABLES started,      \* the first prompt has been written
          line,         \* what has been typed, or Lost
          command       \* the last command

vars == <<started, line, command>>

Lost == <<-1>>         \* no line of characters

Commands == Seq(1 .. 255)

Init == started = FALSE /\ line = <<>> /\ command = <<>>

Type(c) ==
    /\ line' = IF line = Lost \/ Len(line) + 1 = Capacity THEN Lost ELSE Append(line, c)
    /\ UNCHANGED <<started, command>>

TakeBack ==
    /\ line' = IF line \in {Lost, <<>>} THEN line ELSE SubSeq(line, 1, Len(line) - 1)
    /\ UNCHANGED <<started, command>>

Damaged(found) ==
    /\ found \in Commands /\ Len(found) <= Len(line)
    /\ \A n \in 1 .. Len(found) : found[n] = line[n] \/ n \in Exposed
    /\ Len(found) = Len(line) \/ Len(found) + 1 \in Exposed

Run ==
    /\ \/ line # Lost /\ command' = line
       \/ line = Lost /\ command' \in Commands
       \/ line \in Rereading /\ Damaged(command')
    /\ line' = <<>>
    /\ UNCHANGED started

Prompt ==
    /\ ~started
    /\ started' \in BOOLEAN
    /\ line' \in {<<>>, line, Lost}
    /\ UNCHANGED command

Next == (\E c \in Chars : Type(c)) \/ TakeBack \/ Run \/ Prompt

Spec == Init /\ [][Next]_vars
=============================================================================
