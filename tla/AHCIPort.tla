------------------------------- MODULE AHCIPort -------------------------------
(***************************************************************************)
(* A port of the AHCI controller and its driver:                           *)
(* kernel/src/AHCI/ahci.cpp, Port::configure and Port::Read.               *)
(*                                                                         *)
(* The driver and the device are two processes that share the port's       *)
(* registers and the memory the registers point to.  A step of the driver  *)
(* is one access to a register that the device changes as well, with what  *)
(* the code does up to the next one.  Addresses of memory are numbers of   *)
(* frames; a buffer's content is the run of sectors it was filled with.    *)
(***************************************************************************)
EXTENDS Integers

CONSTANTS
    Byte,           \* values of a byte of a sector's number, 256
    Sectors,        \* sectors the file system asks for
    Counts,         \* how many it asks for at once
    Slots,          \* command headers of a port, 32
    SlotsPerPage,   \* tables of a slot that fit in a page, 16
    SpinLimit,      \* polls before a busy device is given up, 1000000
    MaxFailures     \* bound on the commands the device fails

\* lba3 takes the byte that belongs to lba4, so that only 24 bits of a sector's
\* number arrive: the disk is below 8 GiB.
ASSUME SectorAssumption ==
    /\ Byte \in Nat \ {0} /\ Sectors \subseteq 0 .. Byte * Byte * Byte - 1
    /\ Counts \subseteq Nat \ {0}
ASSUME LimitAssumption ==
    /\ Slots \in Nat \ {0} /\ SlotsPerPage \in Nat \ {0}
    /\ SpinLimit \in Nat \ {0} /\ MaxFailures \in Nat

FirmwareFrame == -1         \* what the firmware left in a register
NoRun == [first |-> -1, count |-> 0]
Runs  == [first : Sectors, count : Counts]

VARIABLES
    \* Registers of the port.
    cmdSts,             \* bits ST, FRE, FR, CR
    commandListBase,
    fisBaseAddress,
    commandIssue,       \* slot 0
    taskFileError,      \* TFES in interruptStatus
    busy,               \* BSY or DRQ in taskFileData
    \* Memory.
    taken,              \* frames requested so far, numbered from 0
    tables,             \* of the command list: slot -> page of its table
    commandTable,       \* that of slot 0: the FIS's sectors
    buffer,
    \* The driver.
    pc,
    spin,
    asked,              \* the call's sectors
    answer,             \* of the last call
    \* The device.
    working,            \* "no", "taken" or "sent": the command it executes
    halted,             \* it failed a command and waits for ST to be cleared
    failures

registers == <<cmdSts, commandListBase, fisBaseAddress, commandIssue,
               taskFileError, busy>>
memory    == <<taken, tables, commandTable, buffer>>
driver    == <<pc, spin, asked, answer>>
device    == <<working, halted, failures>>
vars      == <<registers, memory, driver, device>>

\* The firmware used the port, or not, and left no command in it.
Init ==
    /\ \E on \in BOOLEAN : cmdSts = [ST |-> on, FRE |-> on, FR |-> on, CR |-> on]
    /\ commandListBase = FirmwareFrame /\ fisBaseAddress = FirmwareFrame
    /\ commandIssue = FALSE /\ taskFileError = FALSE /\ busy \in BOOLEAN
    /\ taken = 0 /\ tables = [s \in 0 .. Slots - 1 |-> FirmwareFrame]
    /\ commandTable = NoRun /\ buffer = NoRun
    /\ pc = "stop" /\ spin = 0 /\ asked = NoRun /\ answer = FALSE
    /\ working = "no" /\ halted = FALSE /\ failures = 0

-----------------------------------------------------------------------------
(* Port::configure.                                                        *)

StopCommand ==
    /\ pc = "stop"
    /\ cmdSts' = [cmdSts EXCEPT !.ST = FALSE]
    /\ pc' = "stopFis"
    /\ UNCHANGED <<commandListBase, fisBaseAddress, commandIssue, taskFileError,
                   busy, memory, spin, asked, answer, device>>

StopFis ==
    /\ pc = "stopFis"
    /\ cmdSts' = [cmdSts EXCEPT !.FRE = FALSE]
    /\ pc' = "stopped"
    /\ UNCHANGED <<commandListBase, fisBaseAddress, commandIssue, taskFileError,
                   busy, memory, spin, asked, answer, device>>

\* Mutant: only the receiving of FISes is waited for.
FisStopped == ~cmdSts.FR

Stopped == ~cmdSts.FR /\ ~cmdSts.CR

\* One page each for the command list, the received FISes and every slot's
\* table.  The table is put where it would be if the slots shared pages: beyond
\* its own page from slot SlotsPerPage on.
SetMemory ==
    /\ pc = "stopped" /\ Stopped
    /\ commandListBase' = taken
    /\ fisBaseAddress' = taken + 1
    /\ tables' = [s \in 0 .. Slots - 1 |-> taken + 2 + s + s \div SlotsPerPage]
    /\ taken' = taken + 2 + Slots
    /\ pc' = "start"
    /\ UNCHANGED <<cmdSts, commandIssue, taskFileError, busy, commandTable, buffer,
                   spin, asked, answer, device>>

\* The statement after the loop's condition is its body.
StartCommand ==
    /\ pc = "start"
    /\ IF cmdSts.CR
       THEN cmdSts' = [cmdSts EXCEPT !.FRE = TRUE] /\ pc' = pc
       ELSE cmdSts' = [cmdSts EXCEPT !.ST = TRUE]  /\ pc' = "idle"
    /\ UNCHANGED <<commandListBase, fisBaseAddress, commandIssue, taskFileError,
                   busy, memory, spin, asked, answer, device>>

-----------------------------------------------------------------------------
(* Port::Read.                                                             *)

Return(result) ==
    /\ pc' = "idle"
    /\ answer' = result
    /\ asked' = NoRun
    /\ spin' = 0

Read(run) ==
    /\ pc = "idle"
    /\ taskFileError' = FALSE
    /\ asked' = run /\ answer' = FALSE
    /\ pc' = "build"
    /\ UNCHANGED <<cmdSts, commandListBase, fisBaseAddress, commandIssue, busy,
                   memory, spin, device>>

\* The sector that the six bytes of the FIS say, when Byte ^ 4 stands for 2^32.
Lba(sector) ==
    LET low  == sector % (Byte * Byte * Byte * Byte)
        high == sector \div (Byte * Byte * Byte * Byte)
        three == Byte * Byte * Byte
    IN  (low % three) + three * ((high % Byte) + Byte * ((high \div (Byte * Byte)) % Byte))

BuildCommand ==
    /\ pc = "build"
    /\ commandTable' = [first |-> Lba(asked.first), count |-> asked.count]
    /\ pc' = "spin"
    /\ UNCHANGED <<registers, taken, tables, buffer, spin, asked, answer, device>>

\* Mutant: the polls are not counted.
SpinOn == busy

Spinning == busy /\ spin < SpinLimit

Spin ==
    /\ pc = "spin" /\ Spinning
    /\ spin' = spin + 1
    /\ UNCHANGED <<registers, memory, pc, asked, answer, device>>

GiveUp ==
    /\ pc = "spin" /\ ~Spinning /\ spin = SpinLimit
    /\ Return(FALSE)
    /\ UNCHANGED <<registers, memory, device>>

Issue ==
    /\ pc = "spin" /\ ~Spinning /\ spin # SpinLimit
    /\ commandIssue' = TRUE
    /\ pc' = "poll"
    /\ UNCHANGED <<cmdSts, commandListBase, fisBaseAddress, taskFileError, busy,
                   memory, spin, asked, answer, device>>

\* Mutant: a command that is no longer executed counts as done.
NotExecuted == working = "no"

Done == ~commandIssue

PollIssue ==
    /\ pc = "poll"
    /\ IF Done THEN Return(TRUE)
       ELSE pc' = "pollError" /\ UNCHANGED <<answer, asked, spin>>
    /\ UNCHANGED <<registers, memory, device>>

\* Mutant: errors are not looked for.
NoError == FALSE

Error == taskFileError

PollError ==
    /\ pc = "pollError"
    /\ IF Error THEN Return(FALSE)
       ELSE pc' = "poll" /\ UNCHANGED <<answer, asked, spin>>
    /\ UNCHANGED <<registers, memory, device>>

Driver ==
    \/ StopCommand \/ StopFis \/ SetMemory \/ StartCommand
    \/ BuildCommand \/ Spin \/ GiveUp \/ Issue \/ PollIssue \/ PollError

-----------------------------------------------------------------------------
(* The device, as far as the driver can tell.                              *)

\* Its list engine follows ST and its receiving engine follows FRE; clearing ST
\* takes back what was issued.
FollowStart ==
    /\ cmdSts.CR # cmdSts.ST /\ working = "no"
    /\ cmdSts' = [cmdSts EXCEPT !.CR = cmdSts.ST]
    /\ commandIssue' = (commandIssue /\ cmdSts.ST)
    /\ halted' = (halted /\ cmdSts.ST)
    /\ UNCHANGED <<commandListBase, fisBaseAddress, taskFileError, busy, memory,
                   driver, working, failures>>

FollowReceive ==
    /\ cmdSts.FR # cmdSts.FRE
    /\ cmdSts' = [cmdSts EXCEPT !.FR = cmdSts.FRE]
    /\ UNCHANGED <<commandListBase, fisBaseAddress, commandIssue, taskFileError,
                   busy, memory, driver, device>>

\* What kept it busy from the start may end.
BecomeReady ==
    /\ busy /\ working = "no"
    /\ busy' = FALSE
    /\ UNCHANGED <<cmdSts, commandListBase, fisBaseAddress, commandIssue,
                   taskFileError, memory, driver, device>>

TakeCommand ==
    /\ commandIssue /\ cmdSts.CR /\ working = "no" /\ ~halted
    /\ working' = "taken"
    /\ busy' = TRUE
    /\ UNCHANGED <<cmdSts, commandListBase, fisBaseAddress, commandIssue,
                   taskFileError, memory, driver, halted, failures>>

Transfer ==
    /\ working = "taken"
    /\ buffer' = commandTable
    /\ working' = "sent"
    /\ UNCHANGED <<registers, taken, tables, commandTable, driver, halted, failures>>

Complete ==
    /\ working = "sent"
    /\ working' = "no"
    /\ busy' = FALSE /\ commandIssue' = FALSE
    /\ UNCHANGED <<cmdSts, commandListBase, fisBaseAddress, taskFileError, memory,
                   driver, halted, failures>>

\* A failing command may have transferred its data or not.
FailCommand ==
    /\ working # "no" /\ failures < MaxFailures
    /\ working' = "no"
    /\ busy' = FALSE /\ taskFileError' = TRUE
    /\ halted' = TRUE /\ failures' = failures + 1
    /\ UNCHANGED <<cmdSts, commandListBase, fisBaseAddress, commandIssue, memory,
                   driver>>

Next ==
    \/ Driver
    \/ \E run \in Runs : Read(run)
    \/ FollowStart \/ FollowReceive \/ BecomeReady
    \/ TakeCommand \/ Transfer \/ Complete \/ FailCommand

\* The driver polls: it runs as long as a call lasts.  The device follows its
\* control bits and finishes or fails what it takes; it need not become ready,
\* and nobody need ask.
Spec ==
    /\ Init /\ [][Next]_vars
    /\ WF_vars(Driver)
    /\ WF_vars(FollowStart) /\ WF_vars(FollowReceive)
    /\ WF_vars(TakeCommand) /\ WF_vars(Transfer) /\ WF_vars(Complete \/ FailCommand)

-----------------------------------------------------------------------------
(* Properties.                                                             *)

TypeOK ==
    /\ cmdSts \in [ST : BOOLEAN, FRE : BOOLEAN, FR : BOOLEAN, CR : BOOLEAN]
    /\ commandListBase \in {FirmwareFrame} \cup 0 .. taken - 1
    /\ fisBaseAddress \in {FirmwareFrame} \cup 0 .. taken - 1
    /\ commandIssue \in BOOLEAN /\ taskFileError \in BOOLEAN /\ busy \in BOOLEAN
    /\ taken \in {0, Slots + 2}
    /\ tables \in [0 .. Slots - 1 -> {FirmwareFrame} \cup Nat]
    /\ commandTable \in Runs \cup {NoRun} /\ buffer \in Runs \cup {NoRun}
    /\ pc \in {"stop", "stopFis", "stopped", "start", "idle",
               "build", "spin", "poll", "pollError"}
    /\ spin \in 0 .. SpinLimit
    /\ asked \in Runs \cup {NoRun} /\ answer \in BOOLEAN
    /\ working \in {"no", "taken", "sent"} /\ halted \in BOOLEAN
    /\ failures \in 0 .. MaxFailures

\* The memory that the device works on is exchanged only while both of its
\* engines stand still, however the firmware left them, and a command's table is
\* written only while the device executes no command.
EnginesRest ==
    [][/\ <<commandListBase, fisBaseAddress, tables>>'
            # <<commandListBase, fisBaseAddress, tables>> => ~cmdSts.CR /\ ~cmdSts.FR
       /\ commandTable' # commandTable => working = "no"]_vars

\* A port answers as the file system expects: true with the sectors that were
\* asked for, false after a time-out or an error, and the buffer is left alone
\* when no call is under way (no late data after a call that has given up).
Reader == INSTANCE SectorReader
ImplementsReader == Reader!Spec

\* configure ends, and so does every call of Read on a device that has not
\* failed a command before: it may stay busy, or fail this one.
CallsReturn == pc # "idle" /\ ~halted ~> pc = "idle"
=============================================================================
