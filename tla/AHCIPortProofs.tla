---------------------------- MODULE AHCIPortProofs ----------------------------
(***************************************************************************)
(* Theorems about a port's driver and its device, for every size of the    *)
(* port's lists, every limit and every number of failures.                 *)
(***************************************************************************)
EXTENDS AHCIPort, TLAPS

\* Places of the driver.
Calling == {"build", "spin", "poll", "pollError"}
Waiting == {"poll", "pollError"}

\* The device's list engine is switched on as long as calls can be made, and it
\* stops at a failed command, of which the driver can see the error.
DeviceState ==
    /\ pc \in Calling \cup {"idle"} => cmdSts.ST
    /\ halted => pc \in Calling \cup {"idle"} /\ working = "no"
    /\ taskFileError => halted

\* A command is under way only while the driver waits for it; one that is left
\* over from an earlier call belongs to a device that has halted.
CommandState ==
    /\ working # "no" => pc \in Waiting /\ commandIssue
    /\ commandIssue => pc \in Waiting \/ halted

\* What the call's memory holds: the command's table is that of the call from
\* build on, and the buffer has been filled before the command is done.
CallState ==
    /\ asked \in Runs <=> pc \in Calling
    /\ pc \in Calling \ {"build"} => commandTable = asked
    /\ working = "sent" => buffer = asked
    /\ pc \in Waiting /\ ~commandIssue => buffer = asked

\* Frames are requested once.
FramesState == pc \in {"stop", "stopFis", "stopped"} => taken = 0

IInv == TypeOK /\ FramesState /\ DeviceState /\ CommandState /\ CallState

-----------------------------------------------------------------------------
(* Lemmas.                                                                   *)

\* A run has a first sector that is a number, NoRun has not.
LEMMA NoRunIsNone == NoRun \notin Runs
  BY SectorAssumption DEF NoRun, Runs

\* A number below both moduli is its own remainder and has quotient 0.
LEMMA SmallRemainder ==
    ASSUME NEW s \in Nat, NEW m \in Nat \ {0}, s < m
    PROVE  s % m = s /\ s \div m = 0
  OBVIOUS

\* Of a sector whose number has three bytes, the FIS says the number.  (ahci.cpp 95-100)
LEMMA LbaExact ==
    ASSUME NEW sector \in Sectors
    PROVE  Lba(sector) = sector
<1> DEFINE three == Byte * Byte * Byte
           four  == Byte * Byte * Byte * Byte
<1>1. /\ Byte \in Nat \ {0} /\ three \in Nat \ {0} /\ four \in Nat \ {0}
      /\ sector \in Nat /\ sector < three /\ three <= four
  BY SectorAssumption
<1>2. sector % four = sector /\ sector \div four = 0 /\ sector % three = sector
  <2> HIDE DEF three, four
  <2> QED
    BY <1>1, SmallRemainder
<1>3. 0 % Byte = 0 /\ 0 \div (Byte * Byte) = 0
  <2>1. Byte * Byte \in Nat \ {0}
    BY <1>1
  <2> DEFINE two == Byte * Byte
  <2> HIDE DEF two
  <2> QED
    BY <1>1, <2>1, SmallRemainder DEF two
<1>4. Lba(sector) = ((sector % four) % three)
                      + three * (((sector \div four) % Byte)
                                   + Byte * (((sector \div four) \div (Byte * Byte)) % Byte))
  BY Zenon DEF Lba
<1>5. Lba(sector) = sector + three * (0 + Byte * 0)
  BY <1>2, <1>3, <1>4
<1> QED
  <2> HIDE DEF three
  <2> QED
    BY <1>1, <1>5
-----------------------------------------------------------------------------
(* The invariant.                                                            *)

\* The initial states satisfy the invariant.
LEMMA InvInit ==
    ASSUME Init
    PROVE  IInv
<1>1. Slots \in Nat /\ SpinLimit \in Nat /\ MaxFailures \in Nat
  BY LimitAssumption
<1>2. asked \notin Runs
  BY NoRunIsNone DEF Init
<1>3. TypeOK
  <2>1. cmdSts \in [ST : BOOLEAN, FRE : BOOLEAN, FR : BOOLEAN, CR : BOOLEAN]
    <3>1. PICK on \in BOOLEAN : cmdSts = [ST |-> on, FRE |-> on, FR |-> on, CR |-> on]
      BY DEF Init
    <3> QED
      BY <3>1
  <2>2. tables \in [0 .. Slots - 1 -> {FirmwareFrame} \cup Nat]
    BY DEF Init
  <2>3. answer \in BOOLEAN /\ halted \in BOOLEAN
    BY DEF Init
  <2>4. commandIssue \in BOOLEAN /\ taskFileError \in BOOLEAN /\ busy \in BOOLEAN
    BY DEF Init
  <2>5. /\ commandListBase \in {FirmwareFrame} /\ fisBaseAddress \in {FirmwareFrame}
        /\ taken = 0 /\ spin = 0 /\ failures = 0
        /\ asked = NoRun /\ buffer = NoRun /\ commandTable = NoRun
        /\ pc = "stop" /\ working = "no"
    BY DEF Init
  <2> QED
    BY <1>1, <2>1, <2>2, <2>3, <2>4, <2>5 DEF TypeOK
<1> QED
  BY <1>2, <1>3 DEF Init, IInv, FramesState, DeviceState, CommandState, CallState, Calling, Waiting

\* Every step keeps it.
LEMMA InvStep ==
    ASSUME IInv, [Next]_vars
    PROVE  IInv'
<1> USE DEF IInv
<1>1. Slots \in Nat /\ SlotsPerPage \in Nat \ {0} /\ SpinLimit \in Nat \ {0} /\ MaxFailures \in Nat
  BY LimitAssumption
<1> USE DEF TypeOK, FramesState, DeviceState, CommandState, CallState, Calling, Waiting,
        registers, memory, driver, device
<1>2. ASSUME NEW run \in Runs, Read(run)
      PROVE  IInv'
  <2>1. TypeOK'
    BY <1>1, <1>2, NoRunIsNone DEF Read
  <2>2. FramesState'
    BY <1>1, <1>2, NoRunIsNone DEF Read
  <2>3. DeviceState'
    BY <1>1, <1>2, NoRunIsNone DEF Read
  <2>4. CommandState'
    BY <1>1, <1>2, NoRunIsNone DEF Read
  <2>5. CallState'
    BY <1>1, <1>2, NoRunIsNone DEF Read
  <2> QED
    BY <2>1, <2>2, <2>3, <2>4, <2>5
<1>3. CASE StopCommand
  BY <1>1, <1>3, NoRunIsNone DEF StopCommand
<1>4. CASE StopFis
  BY <1>1, <1>4, NoRunIsNone DEF StopFis
<1>5. CASE SetMemory
  <2>1. tables' \in [0 .. Slots - 1 -> {FirmwareFrame} \cup Nat]
    <3>1. taken \in Nat
      BY <1>1
    <3>2. ASSUME NEW s \in 0 .. Slots - 1
          PROVE  taken + 2 + s + s \div SlotsPerPage \in Nat
      BY <1>1, <3>1
    <3> QED
      BY <1>5, <3>2 DEF SetMemory
  <2>2. taken = 0 /\ taken' = Slots + 2
    BY <1>1, <1>5 DEF SetMemory
  <2>3. commandListBase' \in 0 .. taken' - 1 /\ fisBaseAddress' \in 0 .. taken' - 1
    BY <1>1, <1>5, <2>2 DEF SetMemory
  <2>4. TypeOK'
    BY <1>1, <1>5, <2>1, <2>2, <2>3 DEF SetMemory
  <2> QED
    BY <1>5, <2>4, NoRunIsNone DEF SetMemory
<1>6. CASE StartCommand
  BY <1>1, <1>6, NoRunIsNone DEF StartCommand
<1>7. CASE BuildCommand
  <2>1. commandTable' = asked
    BY <1>7, LbaExact DEF BuildCommand, Runs
  <2> QED
    BY <1>7, <2>1 DEF BuildCommand
<1>8. CASE Spin
  BY <1>1, <1>8, NoRunIsNone DEF Spin, Spinning
<1>9. CASE GiveUp
  <2>1. TypeOK'
    <3>1. /\ cmdSts' \in [ST : BOOLEAN, FRE : BOOLEAN, FR : BOOLEAN, CR : BOOLEAN]
         /\ commandListBase' \in {FirmwareFrame} \cup 0 .. taken' - 1
         /\ fisBaseAddress' \in {FirmwareFrame} \cup 0 .. taken' - 1
         /\ taken' \in {0, Slots + 2}
         /\ tables' \in [0 .. Slots - 1 -> {FirmwareFrame} \cup Nat]
      BY <1>1, <1>9 DEF GiveUp, Spinning, Return
    <3>2. /\ commandIssue' \in BOOLEAN
         /\ taskFileError' \in BOOLEAN
         /\ busy' \in BOOLEAN
      BY <1>1, <1>9 DEF GiveUp, Spinning, Return
    <3>3. /\ commandTable' \in Runs \cup {NoRun}
         /\ buffer' \in Runs \cup {NoRun}
         /\ pc' \in {"stop", "stopFis", "stopped", "start", "idle", "build", "spin", "poll", "pollError"}
         /\ spin' \in 0 .. SpinLimit
         /\ working' \in {"no", "taken", "sent"}
         /\ failures' \in 0 .. MaxFailures
      BY <1>1, <1>9 DEF GiveUp, Spinning, Return
    <3>4. asked' \in Runs \cup {NoRun}
      BY <1>1, <1>9 DEF GiveUp, Spinning, Return
    <3>5. answer' \in BOOLEAN
      BY <1>1, <1>9 DEF GiveUp, Spinning, Return
    <3>6. halted' \in BOOLEAN
      BY <1>1, <1>9 DEF GiveUp, Spinning, Return
    <3> QED
      BY <3>1, <3>2, <3>3, <3>4, <3>5, <3>6
  <2>2. FramesState'
    BY <1>1, <1>9, NoRunIsNone DEF GiveUp, Spinning, Return
  <2>3. DeviceState'
    BY <1>1, <1>9, NoRunIsNone DEF GiveUp, Spinning, Return
  <2>4. CommandState'
    BY <1>1, <1>9, NoRunIsNone DEF GiveUp, Spinning, Return
  <2>5. CallState'
    BY <1>1, <1>9, NoRunIsNone DEF GiveUp, Spinning, Return
  <2> QED
    BY <2>1, <2>2, <2>3, <2>4, <2>5
<1>10. CASE Issue
  BY <1>1, <1>10, NoRunIsNone DEF Issue, Spinning
<1>11. CASE PollIssue
  <2>1. TypeOK'
    <3>1. /\ cmdSts' \in [ST : BOOLEAN, FRE : BOOLEAN, FR : BOOLEAN, CR : BOOLEAN]
         /\ commandListBase' \in {FirmwareFrame} \cup 0 .. taken' - 1
         /\ fisBaseAddress' \in {FirmwareFrame} \cup 0 .. taken' - 1
         /\ taken' \in {0, Slots + 2}
         /\ tables' \in [0 .. Slots - 1 -> {FirmwareFrame} \cup Nat]
      BY <1>1, <1>11 DEF PollIssue, Done, Return
    <3>2. /\ commandIssue' \in BOOLEAN
         /\ taskFileError' \in BOOLEAN
         /\ busy' \in BOOLEAN
      BY <1>1, <1>11 DEF PollIssue, Done, Return
    <3>3. /\ commandTable' \in Runs \cup {NoRun}
         /\ buffer' \in Runs \cup {NoRun}
         /\ pc' \in {"stop", "stopFis", "stopped", "start", "idle", "build", "spin", "poll", "pollError"}
         /\ spin' \in 0 .. SpinLimit
         /\ working' \in {"no", "taken", "sent"}
         /\ failures' \in 0 .. MaxFailures
      BY <1>1, <1>11 DEF PollIssue, Done, Return
    <3>4. asked' \in Runs \cup {NoRun}
      BY <1>1, <1>11 DEF PollIssue, Done, Return
    <3>5. answer' \in BOOLEAN
      BY <1>1, <1>11 DEF PollIssue, Done, Return
    <3>6. halted' \in BOOLEAN
      BY <1>1, <1>11 DEF PollIssue, Done, Return
    <3> QED
      BY <3>1, <3>2, <3>3, <3>4, <3>5, <3>6
  <2>2. FramesState'
    BY <1>1, <1>11, NoRunIsNone DEF PollIssue, Done, Return
  <2>3. DeviceState'
    BY <1>1, <1>11, NoRunIsNone DEF PollIssue, Done, Return
  <2>4. CommandState'
    BY <1>1, <1>11, NoRunIsNone DEF PollIssue, Done, Return
  <2>5. CallState'
    BY <1>1, <1>11, NoRunIsNone DEF PollIssue, Done, Return
  <2> QED
    BY <2>1, <2>2, <2>3, <2>4, <2>5
<1>12. CASE PollError
  <2>1. TypeOK'
    <3>1. /\ cmdSts' \in [ST : BOOLEAN, FRE : BOOLEAN, FR : BOOLEAN, CR : BOOLEAN]
         /\ commandListBase' \in {FirmwareFrame} \cup 0 .. taken' - 1
         /\ fisBaseAddress' \in {FirmwareFrame} \cup 0 .. taken' - 1
         /\ taken' \in {0, Slots + 2}
         /\ tables' \in [0 .. Slots - 1 -> {FirmwareFrame} \cup Nat]
      BY <1>1, <1>12 DEF PollError, Error, Return
    <3>2. /\ commandIssue' \in BOOLEAN
         /\ taskFileError' \in BOOLEAN
         /\ busy' \in BOOLEAN
      BY <1>1, <1>12 DEF PollError, Error, Return
    <3>3. /\ commandTable' \in Runs \cup {NoRun}
         /\ buffer' \in Runs \cup {NoRun}
         /\ pc' \in {"stop", "stopFis", "stopped", "start", "idle", "build", "spin", "poll", "pollError"}
         /\ spin' \in 0 .. SpinLimit
         /\ working' \in {"no", "taken", "sent"}
         /\ failures' \in 0 .. MaxFailures
      BY <1>1, <1>12 DEF PollError, Error, Return
    <3>4. asked' \in Runs \cup {NoRun}
      BY <1>1, <1>12 DEF PollError, Error, Return
    <3>5. answer' \in BOOLEAN
      BY <1>1, <1>12 DEF PollError, Error, Return
    <3>6. halted' \in BOOLEAN
      BY <1>1, <1>12 DEF PollError, Error, Return
    <3> QED
      BY <3>1, <3>2, <3>3, <3>4, <3>5, <3>6
  <2>2. FramesState'
    BY <1>1, <1>12, NoRunIsNone DEF PollError, Error, Return
  <2>3. DeviceState'
    BY <1>1, <1>12, NoRunIsNone DEF PollError, Error, Return
  <2>4. CommandState'
    BY <1>1, <1>12, NoRunIsNone DEF PollError, Error, Return
  <2>5. CallState'
    BY <1>1, <1>12, NoRunIsNone DEF PollError, Error, Return
  <2> QED
    BY <2>1, <2>2, <2>3, <2>4, <2>5
<1>13. CASE FollowStart
  BY <1>1, <1>13, NoRunIsNone DEF FollowStart
<1>14. CASE FollowReceive
  BY <1>1, <1>14, NoRunIsNone DEF FollowReceive
<1>15. CASE BecomeReady
  <2>1. TypeOK'
    <3>1. /\ cmdSts' \in [ST : BOOLEAN, FRE : BOOLEAN, FR : BOOLEAN, CR : BOOLEAN]
         /\ commandListBase' \in {FirmwareFrame} \cup 0 .. taken' - 1
         /\ fisBaseAddress' \in {FirmwareFrame} \cup 0 .. taken' - 1
         /\ taken' \in {0, Slots + 2}
         /\ tables' \in [0 .. Slots - 1 -> {FirmwareFrame} \cup Nat]
      BY <1>1, <1>15 DEF BecomeReady
    <3>2. /\ commandIssue' \in BOOLEAN
         /\ taskFileError' \in BOOLEAN
         /\ busy' \in BOOLEAN
      BY <1>1, <1>15 DEF BecomeReady
    <3>3. /\ commandTable' \in Runs \cup {NoRun}
         /\ buffer' \in Runs \cup {NoRun}
         /\ pc' \in {"stop", "stopFis", "stopped", "start", "idle", "build", "spin", "poll", "pollError"}
         /\ spin' \in 0 .. SpinLimit
         /\ working' \in {"no", "taken", "sent"}
         /\ failures' \in 0 .. MaxFailures
      BY <1>1, <1>15 DEF BecomeReady
    <3>4. asked' \in Runs \cup {NoRun}
      BY <1>1, <1>15 DEF BecomeReady
    <3>5. answer' \in BOOLEAN
      BY <1>1, <1>15 DEF BecomeReady
    <3>6. halted' \in BOOLEAN
      BY <1>1, <1>15 DEF BecomeReady
    <3> QED
      BY <3>1, <3>2, <3>3, <3>4, <3>5, <3>6
  <2>2. FramesState'
    BY <1>1, <1>15, NoRunIsNone DEF BecomeReady
  <2>3. DeviceState'
    BY <1>1, <1>15, NoRunIsNone DEF BecomeReady
  <2>4. CommandState'
    BY <1>1, <1>15, NoRunIsNone DEF BecomeReady
  <2>5. CallState'
    BY <1>1, <1>15, NoRunIsNone DEF BecomeReady
  <2> QED
    BY <2>1, <2>2, <2>3, <2>4, <2>5
<1>16. CASE TakeCommand
  BY <1>1, <1>16, NoRunIsNone DEF TakeCommand
<1>17. CASE Transfer
  BY <1>1, <1>17, NoRunIsNone DEF Transfer
<1>18. CASE Complete
  BY <1>1, <1>18, NoRunIsNone DEF Complete
<1>19. CASE FailCommand
  <2>1. TypeOK'
    <3>1. /\ cmdSts' \in [ST : BOOLEAN, FRE : BOOLEAN, FR : BOOLEAN, CR : BOOLEAN]
         /\ commandListBase' \in {FirmwareFrame} \cup 0 .. taken' - 1
         /\ fisBaseAddress' \in {FirmwareFrame} \cup 0 .. taken' - 1
         /\ taken' \in {0, Slots + 2}
         /\ tables' \in [0 .. Slots - 1 -> {FirmwareFrame} \cup Nat]
      BY <1>1, <1>19 DEF FailCommand
    <3>2. /\ commandIssue' \in BOOLEAN
         /\ taskFileError' \in BOOLEAN
         /\ busy' \in BOOLEAN
      BY <1>1, <1>19 DEF FailCommand
    <3>3. /\ commandTable' \in Runs \cup {NoRun}
         /\ buffer' \in Runs \cup {NoRun}
         /\ pc' \in {"stop", "stopFis", "stopped", "start", "idle", "build", "spin", "poll", "pollError"}
         /\ spin' \in 0 .. SpinLimit
         /\ working' \in {"no", "taken", "sent"}
         /\ failures' \in 0 .. MaxFailures
      BY <1>1, <1>19 DEF FailCommand
    <3>4. asked' \in Runs \cup {NoRun}
      BY <1>1, <1>19 DEF FailCommand
    <3>5. answer' \in BOOLEAN
      BY <1>1, <1>19 DEF FailCommand
    <3>6. halted' \in BOOLEAN
      BY <1>1, <1>19 DEF FailCommand
    <3> QED
      BY <3>1, <3>2, <3>3, <3>4, <3>5, <3>6
  <2>2. FramesState'
    BY <1>1, <1>19, NoRunIsNone DEF FailCommand
  <2>3. DeviceState'
    BY <1>1, <1>19, NoRunIsNone DEF FailCommand
  <2>4. CommandState'
    BY <1>1, <1>19, NoRunIsNone DEF FailCommand
  <2>5. CallState'
    BY <1>1, <1>19, NoRunIsNone DEF FailCommand
  <2> QED
    BY <2>1, <2>2, <2>3, <2>4, <2>5
<1>20. CASE UNCHANGED vars
  BY <1>20 DEF vars
<1> QED
  BY <1>2, <1>3, <1>4, <1>5, <1>6, <1>7, <1>8, <1>9, <1>10, <1>11, <1>12, <1>13, <1>14, <1>15, <1>16, <1>17, <1>18, <1>19, <1>20 DEF Next, Driver

\* The strengthened invariant holds in every reachable state.
THEOREM Invariance == Spec => []IInv
<1>1. Init => IInv
  BY InvInit
<1>2. IInv /\ [Next]_vars => IInv'
  BY InvStep
<1> QED
  BY <1>1, <1>2, PTL DEF Spec

\* The port's registers, its memory and the driver's variables keep their
\* types.  (ahci.cpp 20-154)
THEOREM TypeCorrect == Spec => []TypeOK
<1>1. IInv => TypeOK
  BY DEF IInv
<1> QED
  BY <1>1, Invariance, PTL

-----------------------------------------------------------------------------
(* What the driver and the device do to each other's memory.                 *)

\* configure exchanges the lists of the port only while both of the device's
\* engines stand still, and Read writes the command's table only while the
\* device executes no command: no late step of an earlier command can find
\* another one's table.  (ahci.cpp 20-61, 88-107)
THEOREM EnginesAtRest == Spec => EnginesRest
<1> DEFINE A == /\ <<commandListBase, fisBaseAddress, tables>>'
                     # <<commandListBase, fisBaseAddress, tables>> => ~cmdSts.CR /\ ~cmdSts.FR
                /\ commandTable' # commandTable => working = "no"
<1>1. IInv /\ [Next]_vars => [A]_vars
  <2> SUFFICES ASSUME IInv, Next
               PROVE  A
    BY DEF vars
  <2>1. CASE SetMemory
    BY <2>1 DEF SetMemory, Stopped
  <2>2. CASE BuildCommand
    <3>1. working = "no"
      BY <2>2 DEF BuildCommand, IInv, CommandState, Waiting
    <3> QED
      BY <2>2, <3>1 DEF BuildCommand, registers
  <2>3. CASE ~SetMemory /\ ~BuildCommand
    BY <2>3 DEF Next, Driver, StopCommand, StopFis, StartCommand, Read, Spin, GiveUp, Issue,
                PollIssue, PollError, FollowStart, FollowReceive, BecomeReady, TakeCommand,
                Transfer, Complete, FailCommand, registers, memory
  <2> QED
    BY <2>1, <2>2, <2>3
<1> QED
  BY <1>1, Invariance, PTL DEF Spec, EnginesRest

\* A port implements the reader that the file system relies on: every step of
\* the driver and the device is a step of the abstract reader or none at all.
\* A call is answered true only with the sectors that were asked for, false
\* after a time-out or an error, and nobody fills the buffer between calls.
\* (ahci.cpp 63-154)
THEOREM ReaderImplemented == Spec => ImplementsReader
<1>1. Init => Reader!Init
  BY DEF Init, Reader!Init
<1>2. IInv /\ [Next]_vars => [Reader!Next]_(Reader!vars)
  <2> SUFFICES ASSUME IInv, Next
               PROVE  Reader!Next \/ UNCHANGED <<asked, buffer, answer>>
    BY DEF vars, registers, memory, driver, device, Reader!vars
  <2> USE DEF Reader!Next
  <2>1. ASSUME NEW run \in Runs, Read(run)
        PROVE  Reader!Ask(run)
    <3>1. asked = NoRun
      BY <2>1 DEF Read, IInv, CallState, TypeOK, Calling
    <3> QED
      BY <2>1, <3>1 DEF Read, Reader!Ask, memory
  <2>2. CASE GiveUp
    <3>1. asked # NoRun
      BY <2>2, NoRunIsNone DEF GiveUp, IInv, CallState, Calling
    <3> QED
      BY <2>2, <3>1 DEF GiveUp, Return, memory, Reader!Fail
  <2>3. CASE PollIssue
    <3>1. asked # NoRun
      BY <2>3, NoRunIsNone DEF PollIssue, IInv, CallState, Calling
    <3>2. CASE Done
      <4>1. buffer = asked
        BY <2>3, <3>2 DEF PollIssue, Done, IInv, CallState, Waiting
      <4> QED
        BY <2>3, <3>1, <3>2, <4>1 DEF PollIssue, Return, memory, Reader!Succeed
    <3>3. CASE ~Done
      BY <2>3, <3>3 DEF PollIssue, memory
    <3> QED
      BY <3>2, <3>3
  <2>4. CASE PollError
    <3>1. asked # NoRun
      BY <2>4, NoRunIsNone DEF PollError, IInv, CallState, Calling
    <3> QED
      BY <2>4, <3>1 DEF PollError, Return, memory, Reader!Fail
  <2>5. CASE Transfer
    <3>1. asked # NoRun /\ commandTable = asked
      BY <2>5, NoRunIsNone DEF Transfer, IInv, CommandState, CallState, Calling, Waiting
    <3> QED
      BY <2>5, <3>1 DEF Transfer, driver, Reader!Fill
  <2>6. CASE \/ StopCommand \/ StopFis \/ SetMemory \/ StartCommand \/ BuildCommand \/ Spin
             \/ Issue \/ FollowStart \/ FollowReceive \/ BecomeReady \/ TakeCommand \/ Complete
             \/ FailCommand
    BY <2>6 DEF StopCommand, StopFis, SetMemory, StartCommand, BuildCommand, Spin, Issue,
                FollowStart, FollowReceive, BecomeReady, TakeCommand, Complete, FailCommand,
                memory, driver
  <2> QED
    BY <2>1, <2>2, <2>3, <2>4, <2>5, <2>6 DEF Next, Driver
<1> QED
  BY <1>1, <1>2, Invariance, PTL DEF Spec, ImplementsReader, Reader!Spec
=============================================================================
