------------------------------ MODULE BootProofs ------------------------------
(***************************************************************************)
(* The theorems about the start of the kernel, for computers with any      *)
(* tables, segments, functions and ports, and a firmware that changes its  *)
(* memory map at any time.                                                 *)
(*                                                                         *)
(* The loader's half is about keys: the map's never comes back.  The       *)
(* kernel's half is about what the enumeration has not come to yet.        *)
(***************************************************************************)
EXTENDS Boot, NaturalsInduction, WellFoundedInduction, SequenceTheorems, TLAPS

-----------------------------------------------------------------------------
(* The invariant.                                                            *)

LoaderSteps == {"query", "allocate", "get", "rsdp", "exit", "start"}
KernelSteps == {"acpi", "pci", "probe", "disk", "read", "running", "lost"}

UsedPorts == [controller : Addresses(machine.segments), port : 1 .. 32, type : PortTypes]

Typed ==
    /\ pc \in LoaderSteps \cup KernelSteps /\ machine \in Machines
    /\ memoryMap \in [key : Nat, size : Nat, events : Nat]
    /\ live \in BOOLEAN /\ changed \in BOOLEAN
    /\ Map \in Nat \cup {NoMap} /\ MapSize \in Nat /\ MapKey \in Nat
    /\ unvisited \subseteq DOMAIN machine.functions
    /\ ports \in Seq(UsedPorts) /\ devices \in Seq(Seq(UsedPorts))

\* The map's key grows with every change, so that it tells whether there was one.
MapState ==
    /\ pc \in LoaderSteps \ {"start"} => live
    /\ pc \in {"query", "allocate", "get"} => Map = NoMap /\ ~changed
    /\ Map # NoMap =>
         /\ MapKey = Map /\ Map <= memoryMap.key
         /\ changed <=> Map # memoryMap.key
         /\ ~changed => MapSize = memoryMap.size
         /\ pc \notin {"rsdp", "exit"} => (live <=> changed)

\* The row of a controller's ports in use, of those below n.
Row(row, a, n) ==
    /\ Len(row) < n
    /\ \A j \in DOMAIN row :
         /\ row[j].controller = a /\ row[j].port \in 1 .. n - 1
         /\ row[j].type = CheckPortType(PortsOf(a)[row[j].port])
         /\ row[j].type \in {"SATA", "SATAPI"}
    /\ \A j, k \in DOMAIN row : j < k => row[j].port < row[k].port
    /\ \A p \in 1 .. n - 1 :
         CheckPortType(PortsOf(a)[p]) \in {"SATA", "SATAPI"} => \E j \in DOMAIN row : row[j].port = p

EnumerationState ==
    /\ pc \in {"exit", "start"} \cup KernelSteps => rsdp = Rsdp
    /\ pc \in LoaderSteps \cup {"acpi"} => devices = <<>> /\ unvisited = DOMAIN machine.functions
    /\ pc = "probe" =>
         /\ controller \in AHCIControllers /\ Visited(controller)
         /\ i \in 1 .. Len(PortsOf(controller)) + 1 /\ Row(ports, controller, i)

\* On an ordinary computer the first controller is still to come, or being
\* built, or has the first row.
SearchState ==
    /\ pc # "lost"
    /\ pc = "pci" /\ devices = <<>> => FirstController \in unvisited
    /\ pc = "probe" /\ devices = <<>> => controller = FirstController
    /\ devices # <<>> => Row(devices[1], FirstController, Len(PortsOf(FirstController)) + 1)
    /\ pc \in {"disk", "read", "running"} => devices # <<>>
    /\ pc = "running" => reader.controller = FirstController /\ reader.port = Min(Disks)

IInv ==
    /\ Typed /\ MapState /\ EnumerationState
    /\ Ordinary /\ Map # NoMap => SearchState

-----------------------------------------------------------------------------
(* Lemmas about numbers and addresses.                                       *)

\* A set of numbers that is not empty has a smallest one, and Min finds it.
LEMMA MinIs ==
    ASSUME NEW S \in SUBSET Nat, S # {}
    PROVE  Min(S) \in S /\ \A y \in S : Min(S) <= y
<1> DEFINE R == OpToRel(<, Nat)
<1>1. IsWellFoundedOn(R, Nat)
  BY NatLessThanWellFounded
<1>2. \E k \in S : \A m \in S : <<m, k>> \notin R
  <2> HIDE DEF R
  <2> QED
    BY <1>1, WFMin
<1>3. PICK k \in S : \A m \in S : ~(m < k)
  BY <1>2 DEF OpToRel
<1>4. \A y \in S : k <= y
  BY <1>3
<1> QED
  BY <1>4 DEF Min

\* A computer's functions have addresses.
LEMMA FunctionsAre ==
    ASSUME machine \in Machines, NEW a \in DOMAIN machine.functions
    PROVE  /\ a \in Addresses(machine.segments) /\ Address(a) \in Nat
           /\ a[1] \in 1 .. Len(machine.segments)
           /\ machine.segments[a[1]] \in Segments
           /\ a[2] \in machine.segments[a[1]].StartBus .. 255
           /\ PortsOf(a) \in Seq(Ports) /\ Len(PortsOf(a)) \in 0 .. 32
<1>1. /\ a \in Addresses(machine.segments) /\ a[2] >= machine.segments[a[1]].StartBus
      /\ machine.functions[a].ports \in Seq(Ports) /\ Len(machine.functions[a].ports) <= 32
      /\ machine.segments \in Seq(Segments)
  BY BootAssumption DEF WellFormed
<1>2. PICK last \in Nat : last = Len(machine.segments)
  BY <1>1, LenProperties
<1>3. a \in (1 .. last) \X (0 .. 255) \X (0 .. 31) \X (0 .. 7)
  BY <1>1, <1>2 DEF Addresses
<1>4. a[1] \in 1 .. last /\ a[2] \in 0 .. 255 /\ a[3] \in 0 .. 31 /\ a[4] \in 0 .. 7
  BY <1>3
<1>5. machine.segments[a[1]] \in Segments
  BY <1>1, <1>2, <1>4
<1>6. machine.segments[a[1]].StartBus \in 0 .. 255
  BY <1>5 DEF Segments
<1>7. Address(a) \in Nat
  <2>1. \A s, u, d, f \in Nat : ((s * 256 + u) * 32 + d) * 8 + f \in Nat
    OBVIOUS
  <2>2. a[1] \in Nat /\ a[2] \in Nat /\ a[3] \in Nat /\ a[4] \in Nat
    BY <1>4
  <2> QED
    BY <2>1, <2>2 DEF Address
<1>8. a[2] \in machine.segments[a[1]].StartBus .. 255
  <2>1. \A u, first \in 0 .. 255 : u >= first => u \in first .. 255
    OBVIOUS
  <2> QED
    BY <1>1, <1>4, <1>6, <2>1
<1>9. PICK count \in Nat : count = Len(PortsOf(a))
  BY <1>1, LenProperties DEF PortsOf
<1>10. PortsOf(a) \in Seq(Ports) /\ Len(PortsOf(a)) \in 0 .. 32
  <2>1. \A n \in Nat : n <= 32 => n \in 0 .. 32
    OBVIOUS
  <2> QED
    BY <1>1, <1>9, <2>1 DEF PortsOf
<1> QED
  BY <1>1, <1>2, <1>4, <1>5, <1>7, <1>8, <1>10

\* The last part of a number and the rest of it.
LEMMA LastPart ==
    ASSUME NEW x \in Int, NEW y \in Int, NEW f \in Nat, NEW g \in Nat
    PROVE  /\ x * 8 + f = y * 8 + g /\ f <= 7 /\ g <= 7 => x = y /\ f = g
           /\ x * 32 + f = y * 32 + g /\ f <= 31 /\ g <= 31 => x = y /\ f = g
           /\ x * 256 + f = y * 256 + g /\ f <= 255 /\ g <= 255 => x = y /\ f = g
<1>1. x * 8 + f = y * 8 + g /\ f <= 7 /\ g <= 7 => x = y /\ f = g
  OBVIOUS
<1>2. x * 32 + f = y * 32 + g /\ f <= 31 /\ g <= 31 => x = y /\ f = g
  OBVIOUS
<1>3. x * 256 + f = y * 256 + g /\ f <= 255 /\ g <= 255 => x = y /\ f = g
  OBVIOUS
<1> QED
  BY <1>1, <1>2, <1>3

\* The parts of an address.
LEMMA PartsAre ==
    ASSUME machine \in Machines, NEW a \in DOMAIN machine.functions
    PROVE  /\ a = <<a[1], a[2], a[3], a[4]>>
           /\ a[1] \in Nat /\ a[2] \in Nat /\ a[3] \in Nat /\ a[4] \in Nat
           /\ a[2] <= 255 /\ a[3] <= 31 /\ a[4] <= 7
<1>1. a \in Nat \X (0 .. 255) \X (0 .. 31) \X (0 .. 7)
  BY FunctionsAre DEF Addresses
<1>2. a = <<a[1], a[2], a[3], a[4]>>
  BY <1>1
<1>3. a[1] \in Nat /\ a[2] \in 0 .. 255 /\ a[3] \in 0 .. 31 /\ a[4] \in 0 .. 7
  BY <1>1
<1> QED
  BY <1>2, <1>3

\* No two functions have the same place in the order.
LEMMA AddressesDiffer ==
    ASSUME machine \in Machines,
           NEW a \in DOMAIN machine.functions, NEW b \in DOMAIN machine.functions,
           Address(a) = Address(b)
    PROVE  a = b
<1> DEFINE bus(c)    == c[1] * 256 + c[2]
           device(c) == bus(c) * 32 + c[3]
<1>1. /\ a[1] \in Nat /\ a[2] \in Nat /\ a[3] \in Nat /\ a[4] \in Nat
      /\ b[1] \in Nat /\ b[2] \in Nat /\ b[3] \in Nat /\ b[4] \in Nat
  BY PartsAre
<1>2. /\ a[2] <= 255 /\ a[3] <= 31 /\ a[4] <= 7
      /\ b[2] <= 255 /\ b[3] <= 31 /\ b[4] <= 7
  BY PartsAre
<1>3. bus(a) \in Int /\ bus(b) \in Int
  BY <1>1
<1>4. device(a) \in Int /\ device(b) \in Int
  <2> HIDE DEF bus
  <2> QED
    BY <1>1, <1>3
<1>5. device(a) * 8 + a[4] = device(b) * 8 + b[4]
  BY DEF Address
<1>6. device(a) = device(b) /\ a[4] = b[4]
  <2> HIDE DEF device
  <2> QED
    BY <1>1, <1>2, <1>4, <1>5, LastPart
<1>7. bus(a) = bus(b) /\ a[3] = b[3]
  <2> HIDE DEF bus
  <2> QED
    BY <1>1, <1>2, <1>3, <1>6, LastPart
<1>8. a[1] = b[1] /\ a[2] = b[2]
  BY <1>1, <1>2, <1>7, LastPart
<1>9. a = <<a[1], a[2], a[3], a[4]>> /\ b = <<b[1], b[2], b[3], b[4]>>
  BY PartsAre
<1> QED
  BY <1>6, <1>7, <1>8, <1>9

\* A screen has a number of rows.
LEMMA RowsAre ==
    ASSUME machine \in Machines
    PROVE  machine.rows \in Nat
  BY BootAssumption DEF WellFormed

\* There is a first controller when there is one.
LEMMA FirstControllerIs ==
    ASSUME machine \in Machines, AHCIControllers # {}
    PROVE  First(FirstController, AHCIControllers)
<1> DEFINE places == {Address(a) : a \in AHCIControllers}
<1>1. AHCIControllers \subseteq DOMAIN machine.functions
  BY DEF AHCIControllers
<1>2. places \in SUBSET Nat /\ places # {}
  BY <1>1, FunctionsAre
<1>3. Min(places) \in places /\ \A y \in places : Min(places) <= y
  <2> HIDE DEF places
  <2> QED
    BY <1>2, MinIs
<1>4. PICK a \in AHCIControllers : Address(a) = Min(places)
  BY <1>3
<1>5. First(a, AHCIControllers)
  BY <1>3, <1>4 DEF First
<1> QED
  BY <1>5 DEF FirstController

-----------------------------------------------------------------------------
(* Ordinary computers.                                                       *)

\* The loader's search ends at ACPI 2's table, and the kernel's at the MCFG.
LEMMA TablesFound ==
    ASSUME machine \in Machines, Ordinary
    PROVE  Rsdp # NoTable /\ machine.tables[Rsdp + 1] = "ACPI 2" /\ FindTable = "MCFG"
<1>1. PICK last \in Nat : last = Len(machine.tables) /\ DOMAIN machine.tables = 1 .. last
  <2>1. machine.tables \in Seq({"ACPI 1", "ACPI 2", "other"})
    BY BootAssumption DEF WellFormed
  <2> QED
    BY <2>1, LenProperties
<1>2. PICK n \in 2 .. last :
         /\ machine.tables[n] = "ACPI 2"
         /\ \A j \in 1 .. last : machine.tables[j] = "ACPI 2" => j = n
         /\ \A j \in n + 1 .. last : machine.tables[j] = "other"
  BY <1>1 DEF Ordinary
<1>3. ~machine.beyond
  BY DEF Ordinary
<1>4. ~IsAcpi2(2 * (n - 1))
  <2>1. CASE 2 * (n - 1) < last
    <3>1. 2 * (n - 1) + 1 \in 1 .. last /\ 2 * (n - 1) + 1 # n
      BY <2>1
    <3>2. machine.tables[2 * (n - 1) + 1] # "ACPI 2"
      BY <1>2, <3>1
    <3> QED
      BY <1>1, <2>1, <3>2 DEF IsAcpi2
  <2>2. CASE ~(2 * (n - 1) < last)
    BY <1>1, <1>3, <2>2 DEF IsAcpi2
  <2> QED
    BY <2>1, <2>2
<1>5. n - 1 \in Candidates
  <2>1. n - 1 \in 0 .. last - 1 /\ (n - 1) + 1 = n
    OBVIOUS
  <2> QED
    BY <1>1, <1>2, <1>4, <2>1 DEF Candidates
<1>6. ASSUME NEW c \in Candidates
      PROVE  c \in Int /\ c <= n - 1
  <2>1. c \in 0 .. last - 1 /\ machine.tables[c + 1] # "other"
    BY <1>1 DEF Candidates
  <2>2. ~(c + 1 \in n + 1 .. last)
    BY <1>2, <2>1
  <2> QED
    BY <2>1, <2>2
<1>7. Max(Candidates) = n - 1
  <2>1. \E x \in Candidates : \A y \in Candidates : x >= y
    BY <1>5, <1>6
  <2>2. Max(Candidates) \in Candidates /\ Max(Candidates) >= n - 1
    BY <1>5, <2>1 DEF Max
  <2> QED
    BY <1>6, <2>2
<1>8. Rsdp = n - 1
  BY <1>5, <1>7 DEF Rsdp
<1>9. Rsdp # NoTable /\ Rsdp + 1 = n
  BY <1>8 DEF NoTable
<1>10. FindTable = "MCFG"
  BY DEF Ordinary, FindTable
<1> QED
  BY <1>2, <1>9, <1>10

\* The enumeration does not pass the first controller over.
LEMMA FirstVisited ==
    ASSUME machine \in Machines, Ordinary
    PROVE  /\ First(FirstController, AHCIControllers) /\ Visited(FirstController)
           /\ FirstController \in AHCIControllers /\ FirstController \in DOMAIN machine.functions
<1>1. First(FirstController, AHCIControllers) /\ FirstController \in AHCIControllers
  BY FirstControllerIs DEF Ordinary, First
<1> DEFINE a == FirstController
<1>2. a \in DOMAIN machine.functions /\ machine.functions[a].kind = "AHCI"
  BY <1>1 DEF AHCIControllers
<1>3. Present(a)
  BY <1>2 DEF Present
<1>4. Present(<<a[1], a[2], 0, 0>>) /\ Present(<<a[1], a[2], a[3], 0>>)
  BY <1>2, <1>3 DEF Ordinary
<1>5. a[2] < machine.segments[a[1]].EndBus
  BY DEF Ordinary
<1>6. a[2] \in machine.segments[a[1]].StartBus .. 255 /\ machine.segments[a[1]] \in Segments
  BY <1>2, FunctionsAre
<1> HIDE DEF a
<1>7. a[2] \in machine.segments[a[1]].StartBus .. machine.segments[a[1]].EndBus - 1
  BY <1>5, <1>6 DEF Segments
<1> QED
  BY <1>1, <1>2, <1>3, <1>4, <1>7 DEF Visited, a

-----------------------------------------------------------------------------
(* Lemmas about rows of ports.                                               *)

\* What a probe does to the row.  (ahci.cpp, ProbePorts)
LEMMA RowGrows ==
    ASSUME machine \in Machines, NEW a \in AHCIControllers, NEW n \in Nat \ {0},
           n <= Len(PortsOf(a)), NEW row \in Seq(UsedPorts), Row(row, a, n),
           NEW type, type = CheckPortType(PortsOf(a)[n]),
           NEW new, new = IF type \in {"SATA", "SATAPI"}
                          THEN Append(row, [controller |-> a, port |-> n, type |-> type]) ELSE row
    PROVE  new \in Seq(UsedPorts) /\ Row(new, a, n + 1)
<1>1. a \in DOMAIN machine.functions
  BY DEF AHCIControllers
<1>2. PICK count \in Nat : count = Len(row) /\ DOMAIN row = 1 .. count
  BY LenProperties
<1>3. /\ count < n
      /\ \A j \in 1 .. count :
           /\ row[j].controller = a /\ row[j].port \in 1 .. n - 1
           /\ row[j].type = CheckPortType(PortsOf(a)[row[j].port])
           /\ row[j].type \in {"SATA", "SATAPI"}
      /\ \A j, k \in 1 .. count : j < k => row[j].port < row[k].port
      /\ \A p \in 1 .. n - 1 :
           CheckPortType(PortsOf(a)[p]) \in {"SATA", "SATAPI"} =>
               \E j \in 1 .. count : row[j].port = p
  BY <1>2 DEF Row
<1>4. 1 .. n - 1 \subseteq 1 .. n /\ 1 .. (n + 1) - 1 = 1 .. n /\ \A p \in 1 .. n : p = n \/ p \in 1 .. n - 1
  OBVIOUS
<1>5. CASE type \notin {"SATA", "SATAPI"}
  <2>1. new = row
    BY <1>5
  <2>2. Len(row) < n + 1
    BY <1>2, <1>3
  <2>3. \A p \in 1 .. n :
           CheckPortType(PortsOf(a)[p]) \in {"SATA", "SATAPI"} =>
               \E j \in 1 .. count : row[j].port = p
    BY <1>3, <1>4, <1>5
  <2>4. Row(row, a, n + 1)
    BY <1>2, <1>3, <1>4, <2>2, <2>3 DEF Row
  <2> QED
    BY <2>1, <2>4
<1>6. CASE type \in {"SATA", "SATAPI"}
  <2> DEFINE used == [controller |-> a, port |-> n, type |-> type]
  <2>1. new = Append(row, used)
    BY <1>6
  <2>2. used \in UsedPorts
    <3>1. a \in Addresses(machine.segments) /\ Len(PortsOf(a)) \in 0 .. 32
      BY <1>1, FunctionsAre
    <3>2. n \in 1 .. 32
      <4>1. PICK last \in 0 .. 32 : last = Len(PortsOf(a))
        BY <3>1
      <4>2. \A k \in 0 .. 32, m \in Nat \ {0} : m <= k => m \in 1 .. 32
        OBVIOUS
      <4> QED
        BY <4>1, <4>2
    <3> QED
      BY <1>6, <3>1, <3>2 DEF UsedPorts, PortTypes
  <2>3. used.controller = a /\ used.port = n /\ used.type = type
    OBVIOUS
  <2> HIDE DEF used
  <2>4. /\ new \in Seq(UsedPorts) /\ Len(new) = count + 1 /\ DOMAIN new = 1 .. count + 1
        /\ \A j \in 1 .. count : new[j] = row[j]
        /\ new[count + 1] = used
    BY <1>2, <2>1, <2>2, AppendProperties
  <2>5. \A j \in 1 .. count + 1 : j \in 1 .. count \/ j = count + 1
    BY <1>2
  <2>6. Len(new) < n + 1
    BY <1>2, <1>3, <2>4
  <2>7. ASSUME NEW j \in 1 .. count + 1
        PROVE  /\ new[j].controller = a /\ new[j].port \in 1 .. n
               /\ new[j].type = CheckPortType(PortsOf(a)[new[j].port])
               /\ new[j].type \in {"SATA", "SATAPI"}
    <3>1. CASE j \in 1 .. count
      BY <1>3, <1>4, <2>4, <3>1
    <3>2. CASE j = count + 1
      <4>1. n \in 1 .. n
        OBVIOUS
      <4> QED
        BY <1>6, <2>3, <2>4, <3>2, <4>1
    <3> QED
      BY <2>5, <3>1, <3>2
  <2>8. ASSUME NEW j \in 1 .. count + 1, NEW k \in 1 .. count + 1, j < k
        PROVE  new[j].port < new[k].port
    <3>1. j \in 1 .. count
      BY <2>8
    <3>2. CASE k \in 1 .. count
      BY <1>3, <2>4, <2>8, <3>1, <3>2
    <3>3. CASE k = count + 1
      <4>1. row[j].port \in 1 .. n - 1
        BY <1>3, <3>1
      <4> QED
        BY <2>3, <2>4, <3>1, <3>3, <4>1
    <3> QED
      BY <2>5, <3>2, <3>3
  <2>9. ASSUME NEW p \in 1 .. n, CheckPortType(PortsOf(a)[p]) \in {"SATA", "SATAPI"}
        PROVE  \E j \in 1 .. count + 1 : new[j].port = p
    <3>1. CASE p = n
      <4>1. count + 1 \in 1 .. count + 1
        OBVIOUS
      <4> QED
        BY <2>3, <2>4, <3>1, <4>1
    <3>2. CASE p \in 1 .. n - 1
      <4>1. PICK j \in 1 .. count : row[j].port = p
        BY <1>3, <2>9, <3>2
      <4>2. j \in 1 .. count + 1
        OBVIOUS
      <4> QED
        BY <2>4, <4>1, <4>2
    <3> QED
      BY <1>4, <3>1, <3>2
  <2>10. Row(new, a, n + 1)
    BY <1>4, <2>4, <2>6, <2>7, <2>8, <2>9 DEF Row
  <2> QED
    BY <2>4, <2>10
<1> QED
  BY <1>5, <1>6

\* The row of a controller with a disk leads the file system to its first disk.
LEMMA RowHasDisk ==
    ASSUME machine \in Machines, Ordinary, NEW row \in Seq(UsedPorts),
           Row(row, FirstController, Len(PortsOf(FirstController)) + 1),
           NEW sata, sata = {j \in 1 .. 32 : PortType(row, j) = "SATA"}
    PROVE  /\ PortType(row, 1) \in {"SATA", "SATAPI"}
           /\ sata # {} /\ Min(sata) <= Len(row)
           /\ row[Min(sata)].controller = FirstController
           /\ row[Min(sata)].port = Min(Disks)
<1> DEFINE a == FirstController
<1>1. PICK last \in Nat : last = Len(PortsOf(a)) /\ DOMAIN PortsOf(a) = 1 .. last /\ last <= 32
  <2>1. PortsOf(a) \in Seq(Ports) /\ Len(PortsOf(a)) \in 0 .. 32
    BY FirstVisited, FunctionsAre
  <2>2. PICK last \in 0 .. 32 : last = Len(PortsOf(a))
    BY <2>1
  <2>3. DOMAIN PortsOf(a) = 1 .. last
    BY <2>1, <2>2, LenProperties
  <2>4. last \in Nat /\ last <= 32
    OBVIOUS
  <2> QED
    BY <2>2, <2>3, <2>4
<1>2. PICK count \in Nat : count = Len(row) /\ DOMAIN row = 1 .. count
  BY LenProperties
<1>3. 1 .. (last + 1) - 1 = 1 .. last /\ (count < last + 1 <=> count <= last)
  OBVIOUS
<1> HIDE DEF a
<1>4. /\ count <= last
      /\ \A j \in 1 .. count :
           /\ row[j].controller = a /\ row[j].port \in 1 .. last
           /\ row[j].type = CheckPortType(PortsOf(a)[row[j].port])
           /\ row[j].type \in {"SATA", "SATAPI"}
      /\ \A j, k \in 1 .. count : j < k => row[j].port < row[k].port
      /\ \A p \in 1 .. last :
           CheckPortType(PortsOf(a)[p]) \in {"SATA", "SATAPI"} =>
               \E j \in 1 .. count : row[j].port = p
  BY <1>1, <1>2, <1>3 DEF Row, a
<1>5. Disks = {p \in 1 .. last : CheckPortType(PortsOf(a)[p]) = "SATA"} /\ Disks # {}
  BY <1>1 DEF Disks, Ordinary, a
<1>6. Min(Disks) \in Disks /\ \A y \in Disks : Min(Disks) <= y
  <2>1. \A p \in 1 .. last : p \in Nat
    OBVIOUS
  <2>2. Disks \in SUBSET Nat
    BY <1>5, <2>1
  <2> QED
    BY <1>5, <2>2, MinIs
<1>7. PICK j \in 1 .. count : row[j].port = Min(Disks)
  BY <1>4, <1>5, <1>6
<1>8. \A k \in 1 .. count : PortType(row, k) = row[k].type
  BY <1>2 DEF PortType
<1>9. j \in sata
  <2>1. row[j].type = "SATA"
    BY <1>4, <1>5, <1>6, <1>7
  <2>2. j \in 1 .. 32
    BY <1>1, <1>4
  <2> QED
    BY <1>8, <2>1, <2>2
<1>10. Min(sata) \in sata /\ \A y \in sata : Min(sata) <= y
  <2>1. \A k \in 1 .. 32 : k \in Nat
    OBVIOUS
  <2>2. sata \in SUBSET Nat
    BY <2>1
  <2> QED
    BY <1>9, <2>2, MinIs
<1>11. Min(sata) \in 1 .. count /\ Min(sata) <= j
  <2>1. Min(sata) \in 1 .. 32 /\ Min(sata) <= j
    BY <1>9, <1>10
  <2>2. \A k \in 1 .. 32 : k <= j => k \in 1 .. count
    OBVIOUS
  <2> QED
    BY <2>1, <2>2
<1>12. row[Min(sata)].port \in Disks
  <2>1. row[Min(sata)].type = "SATA"
    BY <1>8, <1>10, <1>11
  <2> QED
    BY <1>4, <1>5, <1>11, <2>1
<1>13. Min(sata) = j
  <2>1. Min(Disks) <= row[Min(sata)].port
    BY <1>6, <1>12
  <2>2. Min(sata) < j => row[Min(sata)].port < row[j].port
    BY <1>4, <1>11
  <2>3. row[Min(sata)].port \in Int /\ Min(Disks) \in Int
    BY <1>5, <1>6, <1>12
  <2> QED
    BY <1>7, <1>11, <2>1, <2>2, <2>3
<1>14. PortType(row, 1) \in {"SATA", "SATAPI"}
  <2>1. 1 \in 1 .. count
    BY <1>7
  <2> QED
    BY <1>4, <1>8, <2>1
<1>15. Min(sata) <= Len(row)
  BY <1>2, <1>11
<1> QED
  BY <1>4, <1>7, <1>9, <1>13, <1>14, <1>15 DEF a

-----------------------------------------------------------------------------
(* The steps.                                                                *)

KernelAction ==
    \/ KernelStart \/ PrepareACPI \/ (\E a \in unvisited : EnumerateFunction(a))
    \/ EnumeratePCIEnds \/ ProbePort \/ ProbePortsEnds \/ ChooseDisk \/ readDiskSector

\* The kernel leaves the firmware alone.
LEMMA KernelKeeps ==
    ASSUME KernelAction, pc \in LoaderSteps \cup KernelSteps
    PROVE  /\ machine' = machine /\ UNCHANGED loader
           /\ pc \in {"start"} \cup KernelSteps /\ pc' \in KernelSteps
<1>1. CASE KernelStart
  BY <1>1 DEF KernelStart, Go, KernelSteps
<1>2. CASE PrepareACPI
  BY <1>2 DEF PrepareACPI, Go, KernelSteps
<1>3. ASSUME NEW a \in unvisited, EnumerateFunction(a)
      PROVE  /\ machine' = machine /\ UNCHANGED loader
             /\ pc \in {"start"} \cup KernelSteps /\ pc' \in KernelSteps
  BY <1>3 DEF EnumerateFunction, Hopefully, KernelSteps
<1>4. CASE EnumeratePCIEnds
  BY <1>4 DEF EnumeratePCIEnds, Hopefully, KernelSteps
<1>5. CASE ProbePort
  BY <1>5 DEF ProbePort, KernelSteps
<1>6. CASE ProbePortsEnds
  BY <1>6 DEF ProbePortsEnds, Hopefully, KernelSteps
<1>7. CASE ChooseDisk
  BY <1>7 DEF ChooseDisk, Go, KernelSteps
<1>8. CASE readDiskSector
  BY <1>8 DEF readDiskSector, Go, KernelSteps
<1> QED
  BY <1>1, <1>2, <1>3, <1>4, <1>5, <1>6, <1>7, <1>8 DEF KernelAction

\* The steps of Next: those of the loader and its firmware leave the kernel's state alone.
LEMMA LoaderKeeps ==
    ASSUME Next, pc \in LoaderSteps \cup KernelSteps, ~KernelAction
    PROVE  /\ machine' = machine /\ UNCHANGED kernel
           /\ pc \in LoaderSteps \ {"start"} /\ pc' \in LoaderSteps
<1>1. CASE QueryMapSize
  BY <1>1 DEF QueryMapSize, Go, LoaderSteps
<1>2. CASE AllocateMap
  BY <1>2 DEF AllocateMap, Go, LoaderSteps
<1>3. CASE GetMap
  BY <1>3 DEF GetMap, Go, LoaderSteps
<1>4. CASE FindRsdp
  BY <1>4 DEF FindRsdp, Go, LoaderSteps
<1>5. CASE ExitBootServices
  BY <1>5 DEF ExitBootServices, Go, LoaderSteps
<1>6. CASE FirmwareEvent
  BY <1>6 DEF FirmwareEvent, LoaderSteps
<1> QED
  BY <1>1, <1>2, <1>3, <1>4, <1>5, <1>6 DEF Next, KernelAction

\* The firmware's map changes to one with the next key.
LEMMA ChangesAre ==
    ASSUME memoryMap \in [key : Nat, size : Nat, events : Nat], NEW events \in Nat,
           NEW new \in Changes(events)
    PROVE  new \in [key : Nat, size : Nat, events : Nat] /\ new.key = memoryMap.key + 1
<1>1. memoryMap.key \in Nat /\ memoryMap.size \in Nat
  OBVIOUS
<1>2. new.key = memoryMap.key + 1 /\ new.size \in {memoryMap.size, memoryMap.size + 1}
  BY DEF Changes
<1>3. memoryMap.key + 1 \in Nat /\ memoryMap.size + 1 \in Nat
  BY <1>1
<1> QED
  BY <1>1, <1>2, <1>3 DEF Changes

\* The loader's map and the firmware's, after every step.
LEMMA MapStep ==
    ASSUME Typed, MapState, Next
    PROVE  /\ MapState'
           /\ memoryMap' \in [key : Nat, size : Nat, events : Nat]
           /\ live' \in BOOLEAN /\ changed' \in BOOLEAN
           /\ Map' \in Nat \cup {NoMap} /\ MapSize' \in Nat /\ MapKey' \in Nat
<1> DEFINE Goal == /\ MapState'
                   /\ memoryMap' \in [key : Nat, size : Nat, events : Nat]
                   /\ live' \in BOOLEAN /\ changed' \in BOOLEAN
                   /\ Map' \in Nat \cup {NoMap} /\ MapSize' \in Nat /\ MapKey' \in Nat
<1>1. /\ memoryMap \in [key : Nat, size : Nat, events : Nat]
      /\ memoryMap.key \in Nat /\ memoryMap.size \in Nat /\ memoryMap.events \in Nat
      /\ live \in BOOLEAN /\ changed \in BOOLEAN
      /\ Map \in Nat \cup {NoMap} /\ MapSize \in Nat /\ MapKey \in Nat
      /\ NoMap \notin Nat /\ pc \in LoaderSteps \cup KernelSteps
  BY DEF Typed, NoMap
<1>2. CASE QueryMapSize
  BY <1>1, <1>2 DEF QueryMapSize, Go, MapState, LoaderSteps, kernel
<1>3. CASE AllocateMap
  <2>1. memoryMap' \in [key : Nat, size : Nat, events : Nat]
    BY <1>1, <1>3, ChangesAre DEF AllocateMap
  <2> QED
    BY <1>1, <1>3, <2>1 DEF AllocateMap, Go, MapState, LoaderSteps, kernel
<1>4. CASE GetMap
  <2>1. /\ pc = "get" /\ pc' = "rsdp" /\ MapSize' = memoryMap.size
        /\ UNCHANGED <<memoryMap, live, changed>>
    BY <1>4 DEF GetMap, Go
  <2>2. live /\ ~changed
    BY <2>1 DEF MapState, LoaderSteps
  <2>3. CASE memoryMap.size <= MapSize
    <3>1. Map' = memoryMap.key /\ MapKey' = memoryMap.key
      BY <1>4, <2>3 DEF GetMap
    <3> QED
      BY <1>1, <2>1, <2>2, <3>1 DEF MapState, LoaderSteps
  <2>4. CASE ~(memoryMap.size <= MapSize)
    <3>1. Map' = NoMap /\ MapKey' \in {MapKey, memoryMap.key}
      BY <1>4, <2>4 DEF GetMap
    <3> QED
      BY <1>1, <2>1, <2>2, <3>1 DEF MapState, LoaderSteps
  <2> QED
    BY <2>3, <2>4
<1>5. CASE FindRsdp
  BY <1>1, <1>5 DEF FindRsdp, Go, MapState, LoaderSteps, kernel
<1>6. CASE ExitBootServices
  <2>1. /\ pc = "exit" /\ pc' = "start" /\ live' = (MapKey # memoryMap.key)
        /\ UNCHANGED <<memoryMap, Map, MapSize, MapKey, changed>>
    BY <1>6 DEF ExitBootServices, Go
  <2>2. live' \in BOOLEAN
    BY <2>1
  <2>3. Map # NoMap => (live' <=> changed)
    BY <2>1 DEF MapState
  <2> QED
    BY <1>1, <2>1, <2>2, <2>3 DEF MapState, LoaderSteps
<1>7. CASE FirmwareEvent
  <2>1. /\ pc \in {"allocate", "get", "rsdp", "exit"} /\ live
        /\ memoryMap' \in Changes(memoryMap.events + 1)
        /\ changed' = (pc \in {"rsdp", "exit"})
        /\ UNCHANGED <<pc, live, Map, MapSize, MapKey>>
    BY <1>7 DEF FirmwareEvent
  <2>2. memoryMap' \in [key : Nat, size : Nat, events : Nat] /\ memoryMap'.key = memoryMap.key + 1
    BY <1>1, <2>1, ChangesAre
  <2>3. changed' \in BOOLEAN
    BY <2>1
  <2>4. Map # NoMap => /\ Map \in Nat /\ Map <= memoryMap.key /\ MapKey = Map
                       /\ changed'
    BY <1>1, <2>1 DEF MapState
  <2>5. Map # NoMap => Map <= memoryMap'.key /\ Map # memoryMap'.key
    BY <1>1, <2>2, <2>4
  <2>6. pc \in {"allocate", "get"} => Map = NoMap /\ ~changed'
    BY <2>1 DEF MapState
  <2> QED
    BY <1>1, <2>1, <2>2, <2>3, <2>4, <2>5, <2>6 DEF MapState
<1>8. CASE KernelAction
  <2>1. /\ UNCHANGED <<memoryMap, live, Map, MapSize, MapKey, changed>>
        /\ pc \in {"start"} \cup KernelSteps /\ pc' \in KernelSteps
    BY <1>1, <1>8, KernelKeeps DEF loader
  <2> QED
    BY <1>1, <2>1 DEF MapState, LoaderSteps, KernelSteps
<1> QED
  BY <1>2, <1>3, <1>4, <1>5, <1>6, <1>7, <1>8 DEF Next, KernelAction

\* The enumeration and the drivers, after every step.
LEMMA EnumerationStep ==
    ASSUME Typed, EnumerationState, Next
    PROVE  /\ EnumerationState'
           /\ unvisited' \subseteq DOMAIN machine.functions
           /\ ports' \in Seq(UsedPorts) /\ devices' \in Seq(Seq(UsedPorts))
           /\ pc' \in LoaderSteps \cup KernelSteps /\ machine' = machine
<1>1. /\ pc \in LoaderSteps \cup KernelSteps /\ machine \in Machines
      /\ unvisited \subseteq DOMAIN machine.functions
      /\ ports \in Seq(UsedPorts) /\ devices \in Seq(Seq(UsedPorts))
  BY DEF Typed
<1>2. machine' = machine /\ Rsdp' = Rsdp
  <2>1. machine' = machine
    BY <1>1, KernelKeeps, LoaderKeeps
  <2> QED
    BY <2>1 DEF Rsdp, Candidates, IsAcpi2
<1>3. pc' \in LoaderSteps \cup KernelSteps
  BY <1>1, KernelKeeps, LoaderKeeps
<1>4. pc' \in {"exit", "start"} \cup KernelSteps => rsdp' = Rsdp
  <2>1. CASE KernelAction
    <3>1. rsdp' = rsdp /\ pc \in {"start"} \cup KernelSteps
      BY <1>1, <2>1, KernelKeeps DEF loader
    <3> QED
      BY <3>1 DEF EnumerationState
  <2>2. CASE FindRsdp
    BY <2>2 DEF FindRsdp
  <2>3. CASE QueryMapSize \/ AllocateMap \/ GetMap
    BY <2>3 DEF QueryMapSize, AllocateMap, GetMap, Go, KernelSteps
  <2>4. CASE ExitBootServices \/ FirmwareEvent
    BY <2>4 DEF ExitBootServices, FirmwareEvent, Go, EnumerationState, KernelSteps
  <2> QED
    BY <2>1, <2>2, <2>3, <2>4 DEF Next, KernelAction
<1>5. CASE ~KernelAction
  <2>1. UNCHANGED <<unvisited, ports, devices>> /\ pc \in LoaderSteps /\ pc' \in LoaderSteps
    BY <1>1, <1>5, LoaderKeeps DEF kernel, driver
  <2>2. pc' # "probe"
    BY <2>1 DEF LoaderSteps
  <2> QED
    BY <1>1, <1>2, <1>3, <1>4, <2>1, <2>2 DEF EnumerationState
<1>6. CASE KernelStart \/ PrepareACPI \/ EnumeratePCIEnds \/ ChooseDisk
  <2>1. UNCHANGED <<unvisited, ports, devices>> /\ pc' # "probe"
    BY <1>6 DEF KernelStart, PrepareACPI, EnumeratePCIEnds, ChooseDisk, Go, Hopefully, kernel, driver
  <2>2. pc' \in LoaderSteps \cup {"acpi"} => pc \in LoaderSteps
    BY <1>6 DEF KernelStart, PrepareACPI, EnumeratePCIEnds, ChooseDisk, Go, Hopefully, LoaderSteps
  <2> QED
    BY <1>1, <1>2, <1>3, <1>4, <2>1, <2>2 DEF EnumerationState
<1>7. CASE readDiskSector
  <2>1. UNCHANGED <<unvisited, ports, devices>> /\ pc' \in {"lost", "running"}
    BY <1>7 DEF readDiskSector, Go, driver
  <2> QED
    BY <1>1, <1>2, <1>3, <1>4, <2>1 DEF EnumerationState, LoaderSteps
<1>8. ASSUME NEW a \in unvisited, EnumerateFunction(a)
      PROVE  /\ EnumerationState' /\ unvisited' \subseteq DOMAIN machine.functions
             /\ ports' \in Seq(UsedPorts) /\ devices' \in Seq(Seq(UsedPorts))
  <2>1. pc = "pci" /\ unvisited' = unvisited \ {a} /\ devices' = devices
    BY <1>8 DEF EnumerateFunction
  <2>2. CASE Visited(a) /\ a \in AHCIControllers
    <3>1. pc' \in {"lost", "probe"} /\ controller' = a /\ i' = 1 /\ ports' = <<>>
      BY <1>8, <2>2 DEF EnumerateFunction, Hopefully
    <3>2. i' \in 1 .. Len(PortsOf(a)) + 1
      <4>1. a \in DOMAIN machine.functions
        BY <2>2 DEF AHCIControllers
      <4>2. PICK last \in Nat : last = Len(PortsOf(a))
        BY <1>1, <4>1, FunctionsAre, LenProperties
      <4> QED
        BY <3>1, <4>2
    <3>3. Row(<<>>, a, 1)
      BY DEF Row
    <3>4. ports' \in Seq(UsedPorts) /\ Row(ports', a, i')
      BY <3>1, <3>3
    <3>5. a \in AHCIControllers' /\ PortsOf(a)' = PortsOf(a) /\ Visited(a)'
      BY <1>2, <2>2 DEF AHCIControllers, PortsOf, Visited, Present
    <3>6. (controller \in AHCIControllers /\ Visited(controller))'
      BY <3>1, <3>5 DEF Visited, Present
    <3>7. Row(ports, controller, i)' <=> Row(ports', a, i')
      BY <1>2, <3>1 DEF Row, PortsOf
    <3> QED
      BY <1>1, <1>2, <1>4, <2>1, <3>1, <3>2, <3>4, <3>5, <3>6, <3>7 DEF EnumerationState, LoaderSteps, PortsOf
  <2>3. CASE ~(Visited(a) /\ a \in AHCIControllers)
    <3>1. pc' \in {"lost", "pci"} /\ ports' = ports
      BY <1>8, <2>1, <2>3 DEF EnumerateFunction, Hopefully, driver
    <3> QED
      BY <1>1, <1>2, <1>4, <2>1, <3>1 DEF EnumerationState, LoaderSteps
  <2> QED
    BY <2>2, <2>3
<1>9. CASE ProbePort
  <2> DEFINE type == CheckPortType(PortsOf(controller)[i])
  <2>1. /\ pc = "probe" /\ pc' \in {"probe", "lost"} /\ i <= Len(PortsOf(controller)) /\ i' = i + 1
        /\ ports' = IF type \in {"SATA", "SATAPI"}
                    THEN Append(ports, [controller |-> controller, port |-> i, type |-> type])
                    ELSE ports
        /\ UNCHANGED <<unvisited, controller, devices>>
    BY <1>9 DEF ProbePort
  <2>2. /\ controller \in AHCIControllers
        /\ i \in 1 .. Len(PortsOf(controller)) + 1 /\ Row(ports, controller, i)
    BY <2>1 DEF EnumerationState
  <2>3. PICK last \in Nat : last = Len(PortsOf(controller))
    BY <1>1, <2>2, FunctionsAre, LenProperties DEF AHCIControllers
  <2>4. i \in Nat \ {0} /\ i' \in 1 .. last + 1
    BY <2>1, <2>2, <2>3
  <2> HIDE DEF type
  <2>5. ports' \in Seq(UsedPorts) /\ Row(ports', controller, i + 1)
    BY <1>1, <2>1, <2>2, <2>4, RowGrows DEF type
  <2>6. Row(ports, controller, i)' <=> Row(ports', controller, i + 1)
    BY <1>2, <2>1 DEF Row, PortsOf
  <2>7. Visited(controller)'
    BY <1>2, <2>1 DEF EnumerationState, Visited, Present
  <2>8. controller' \in AHCIControllers' /\ i' \in 1 .. Len(PortsOf(controller))' + 1
    BY <1>2, <2>1, <2>2, <2>3, <2>4 DEF AHCIControllers, PortsOf
  <2>9. pc' \notin LoaderSteps \cup {"acpi"} /\ unvisited' \subseteq DOMAIN machine.functions
    BY <1>1, <2>1 DEF LoaderSteps
  <2>10. /\ (controller \in AHCIControllers /\ Visited(controller))'
         /\ (i \in 1 .. Len(PortsOf(controller)) + 1 /\ Row(ports, controller, i))'
    BY <2>5, <2>6, <2>7, <2>8
  <2>11. EnumerationState'
    BY <1>2, <1>4, <2>9, <2>10 DEF EnumerationState
  <2> QED
    BY <1>1, <1>2, <1>3, <2>1, <2>5, <2>9, <2>11
<1>10. CASE ProbePortsEnds
  <2>1. /\ pc = "probe" /\ pc' \in {"pci", "lost"} /\ devices' = Append(devices, ports)
        /\ UNCHANGED <<unvisited, ports>>
    BY <1>10 DEF ProbePortsEnds, Hopefully, driver
  <2>2. devices' \in Seq(Seq(UsedPorts))
    BY <1>1, <2>1, AppendProperties
  <2>3. pc' \notin LoaderSteps \cup {"acpi"} /\ pc' # "probe"
    BY <2>1 DEF LoaderSteps
  <2>4. EnumerationState'
    BY <1>2, <1>4, <2>3 DEF EnumerationState
  <2>5. unvisited' \subseteq DOMAIN machine.functions /\ ports' \in Seq(UsedPorts)
    BY <1>1, <2>1
  <2> QED
    BY <1>2, <1>3, <2>2, <2>4, <2>5
<1> QED
  BY <1>2, <1>3, <1>5, <1>6, <1>7, <1>8, <1>9, <1>10 DEF KernelAction

\* On an ordinary computer: how the search for the disk goes on.
LEMMA SearchStep ==
    ASSUME Typed, MapState, EnumerationState, Next, Ordinary, Map' # NoMap,
           Map # NoMap => SearchState
    PROVE  SearchState'
<1>1. /\ pc \in LoaderSteps \cup KernelSteps /\ machine \in Machines
      /\ ports \in Seq(UsedPorts) /\ devices \in Seq(Seq(UsedPorts))
  BY DEF Typed
<1>2. machine' = machine
  BY <1>1, KernelKeeps, LoaderKeeps
<1> DEFINE a == FirstController
           done(row) == Row(row, a, Len(PortsOf(a)) + 1)
<1>3. a' = a /\ Disks' = Disks /\ PortsOf(a)' = PortsOf(a)
  BY <1>2 DEF FirstController, AHCIControllers, Disks, PortsOf
<1>4. \A row : done(row)' <=> done(row)
  BY <1>2, <1>3 DEF Row, PortsOf
<1>5. CASE ~KernelAction
  <2>1. /\ UNCHANGED <<devices, unvisited>> /\ pc \in LoaderSteps /\ pc' \in LoaderSteps
    BY <1>1, <1>5, LoaderKeeps DEF kernel
  <2>2. devices = <<>>
    BY <2>1 DEF EnumerationState
  <2> QED
    BY <2>1, <2>2 DEF SearchState, LoaderSteps
<1>6. CASE KernelAction
  <2>1. UNCHANGED <<memoryMap, Map, rsdp>>
    BY <1>1, <1>6, KernelKeeps DEF loader
  <2>2. SearchState /\ Map # NoMap
    BY <2>1
  <2>3. /\ First(a, AHCIControllers) /\ Visited(a)
        /\ a \in AHCIControllers /\ a \in DOMAIN machine.functions
    BY <1>1, FirstVisited
  <2> HIDE DEF a
  <2> DEFINE Now(p, rows, rest, built, port) ==
               /\ p # "lost"
               /\ p = "pci" /\ rows = <<>> => a \in rest
               /\ p = "probe" /\ rows = <<>> => built = a
               /\ rows # <<>> => done(rows[1])
               /\ p \in {"disk", "read", "running"} => rows # <<>>
               /\ p = "running" => port.controller = a /\ port.port = Min(Disks)
  <2>4. Now(pc, devices, unvisited, controller, reader)
    BY <2>2 DEF SearchState, a
  <2>5. SearchState' <=> Now(pc', devices', unvisited', controller', reader')
    BY <1>3, <1>4 DEF SearchState, a
  <2> HIDE DEF done
  <2>6. CASE KernelStart
    <3>1. pc' = "acpi" /\ UNCHANGED <<devices, unvisited, controller, reader>> /\ devices = <<>>
      BY <2>2, <2>6 DEF KernelStart, Go, kernel, driver, EnumerationState, LoaderSteps
    <3> QED
      BY <2>5, <3>1
  <2>7. CASE PrepareACPI
    <3>1. /\ pc = "acpi" /\ UNCHANGED <<devices, unvisited, controller, reader>>
          /\ rsdp = Rsdp /\ unvisited = DOMAIN machine.functions /\ devices = <<>>
      BY <2>7 DEF PrepareACPI, Go, kernel, driver, EnumerationState, KernelSteps
    <3>2. pc' = "pci"
      BY <1>1, <2>7, <3>1, TablesFound DEF PrepareACPI, Go
    <3> QED
      BY <2>3, <2>5, <3>1, <3>2
  <2>8. ASSUME NEW b \in unvisited, EnumerateFunction(b)
        PROVE  SearchState'
    <3>1. /\ pc = "pci" /\ First(b, unvisited) /\ unvisited' = unvisited \ {b}
          /\ UNCHANGED <<devices, reader>>
      BY <2>8 DEF EnumerateFunction
    <3>2. /\ ~machine.dirty
          /\ Visited(b) => /\ machine.functions[b].classed
                           /\ Below(b) < machine.rows /\ Below(b) - 1 < machine.rows
      <4>1. /\ ~machine.dirty
            /\ Visited(b) => machine.functions[b].classed /\ Below(b) \in 0 .. machine.rows - 1
        BY <1>1, <2>8 DEF Ordinary, Listed, Typed
      <4> QED
        BY <1>1, <4>1, RowsAre
    <3>3. CASE Visited(b) /\ b \in AHCIControllers
      <4>1. pc' = "probe" /\ controller' = b
        BY <2>8, <3>2, <3>3 DEF EnumerateFunction, Hopefully
      <4>2. devices = <<>> => b = a
        <5> SUFFICES ASSUME devices = <<>>
                     PROVE  b = a
          OBVIOUS
        <5>1. a \in unvisited
          BY <2>4, <3>1
        <5>2. Address(a) <= Address(b) /\ Address(b) <= Address(a)
          BY <2>3, <3>1, <3>3, <5>1 DEF First
        <5>3. b \in DOMAIN machine.functions
          BY <3>3 DEF AHCIControllers
        <5>4. Address(a) \in Nat /\ Address(b) \in Nat
          BY <1>1, <2>3, <5>3, FunctionsAre
        <5>5. Address(a) = Address(b)
          BY <5>2, <5>4
        <5> QED
          BY <1>1, <2>3, <5>3, <5>5, AddressesDiffer
      <4> QED
        BY <2>4, <2>5, <3>1, <4>1, <4>2
    <3>4. CASE ~(Visited(b) /\ b \in AHCIControllers)
      <4>1. UNCHANGED <<pc, controller>> /\ b # a
        BY <2>3, <2>8, <3>1, <3>2, <3>4 DEF EnumerateFunction, Hopefully, driver
      <4> QED
        BY <2>4, <2>5, <3>1, <4>1
    <3> QED
      BY <3>3, <3>4
  <2>9. CASE EnumeratePCIEnds
    <3>1. /\ pc = "pci" /\ pc' = "disk" /\ unvisited = {}
          /\ UNCHANGED <<devices, unvisited, controller, reader>>
      BY <2>9 DEF EnumeratePCIEnds, Hopefully, Ordinary, Listed, kernel, driver
    <3> QED
      BY <2>4, <2>5, <3>1
  <2>10. CASE ProbePort
    <3>1. pc = "probe" /\ UNCHANGED <<pc, devices, unvisited, controller, reader>>
      <4>1. /\ pc = "probe" /\ i <= Len(PortsOf(controller))
            /\ pc' = IF PortsOf(controller)[i].implemented /\ ~Mapped(controller, i) THEN "lost" ELSE "probe"
            /\ UNCHANGED <<devices, unvisited, controller, reader>>
        BY <2>10 DEF ProbePort
      <4>2. controller \in AHCIControllers /\ i \in 1 .. Len(PortsOf(controller)) + 1
        BY <4>1 DEF EnumerationState
      <4>3. PICK last \in 0 .. 32 : last = Len(PortsOf(controller)) /\ DOMAIN PortsOf(controller) = 1 .. last
        BY <1>1, <4>2, FunctionsAre, LenProperties DEF AHCIControllers
      <4>4. i \in 1 .. 32 /\ i \in DOMAIN PortsOf(controller)
        <5>1. \A k \in 0 .. 32 : \A j \in 1 .. k + 1 : j <= k => j \in 1 .. 32 /\ j \in 1 .. k
          OBVIOUS
        <5> QED
          BY <4>1, <4>2, <4>3, <5>1
      <4>5. PortsOf(controller)[i].implemented => Mapped(controller, i)
        BY <4>2, <4>4 DEF Ordinary
      <4> QED
        BY <4>1, <4>5
    <3> QED
      BY <2>4, <2>5, <3>1
  <2>11. CASE ProbePortsEnds
    <3>1. /\ pc = "probe" /\ pc' = "pci" /\ i > Len(PortsOf(controller))
          /\ devices' = Append(devices, ports)
          /\ UNCHANGED <<unvisited, controller, reader>>
      <4>1. Below(controller) < machine.rows
        <5>1. controller \in AHCIControllers /\ Visited(controller)
          BY <2>11 DEF ProbePortsEnds, EnumerationState
        <5>2. Below(controller) \in 0 .. machine.rows - 1
          BY <5>1 DEF Ordinary, Listed, AHCIControllers
        <5> QED
          BY <1>1, <5>2, RowsAre
      <4> QED
        BY <2>11, <4>1 DEF ProbePortsEnds, Hopefully, driver
    <3>2. /\ controller \in AHCIControllers /\ Row(ports, controller, i)
          /\ i \in 1 .. Len(PortsOf(controller)) + 1
      BY <3>1 DEF EnumerationState
    <3>3. PICK last \in Nat : last = Len(PortsOf(controller))
      BY <1>1, <3>2, FunctionsAre, LenProperties DEF AHCIControllers
    <3>4. i = last + 1
      BY <3>1, <3>2, <3>3
    <3>5. PICK count \in Nat : count = Len(devices)
      BY <1>1, LenProperties
    <3>6. /\ Len(devices') = count + 1 /\ devices' # <<>>
          /\ devices'[count + 1] = ports /\ \A j \in 1 .. count : devices'[j] = devices[j]
      BY <1>1, <3>1, <3>5, AppendProperties
    <3>7. CASE devices = <<>>
      <4>1. controller = a /\ devices'[1] = ports
        BY <2>4, <3>1, <3>5, <3>6, <3>7
      <4>2. done(ports)
        BY <3>2, <3>3, <3>4, <4>1 DEF done
      <4> QED
        BY <2>5, <3>1, <3>6, <4>1, <4>2
    <3>8. CASE devices # <<>>
      <4>1. devices'[1] = devices[1]
        <5>1. 1 \in 1 .. count
          BY <1>1, <3>5, <3>8, EmptySeq
        <5> QED
          BY <3>6, <5>1
      <4> QED
        BY <2>4, <2>5, <3>1, <3>6, <3>8, <4>1
    <3> QED
      BY <3>7, <3>8
  <2>12. ASSUME pc \in {"disk", "read"}
         PROVE  LET sata == {j \in 1 .. 32 : PortType(FirstRow, j) = "SATA"}
                IN  /\ PortType(FirstRow, 1) \in {"SATA", "SATAPI"}
                    /\ sata # {} /\ Min(sata) <= Len(FirstRow) /\ Len(FirstRow) \in Nat /\ Min(sata) \in Nat
                    /\ FirstRow[Min(sata)].controller = a
                    /\ FirstRow[Min(sata)].port = Min(Disks)
    <3> DEFINE sata == {j \in 1 .. 32 : PortType(FirstRow, j) = "SATA"}
    <3>1. devices # <<>> /\ done(devices[1]) /\ FirstRow = devices[1]
      BY <2>4, <2>12 DEF FirstRow
    <3>2. FirstRow \in Seq(UsedPorts)
      BY <1>1, <3>1, EmptySeq, ElementOfSeq
    <3>3. Len(FirstRow) \in Nat
      BY <3>2, LenProperties
    <3>4. /\ PortType(FirstRow, 1) \in {"SATA", "SATAPI"}
          /\ sata # {} /\ Min(sata) <= Len(FirstRow)
          /\ FirstRow[Min(sata)].controller = a
          /\ FirstRow[Min(sata)].port = Min(Disks)
      BY <1>1, <3>1, <3>2, RowHasDisk DEF done, a
    <3>5. Min(sata) \in Nat
      <4>1. \A k \in 1 .. 32 : k \in Nat
        OBVIOUS
      <4>2. sata \in SUBSET Nat
        BY <4>1
      <4> QED
        BY <3>4, <4>2, MinIs
    <3> QED
      BY <3>3, <3>4, <3>5
  <2>13. CASE ChooseDisk
    <3>1. pc = "disk" /\ UNCHANGED <<devices, unvisited, controller, reader>>
      BY <2>13 DEF ChooseDisk, Go, kernel, driver
    <3>2. pc' = "read"
      BY <2>12, <2>13, <3>1 DEF ChooseDisk, Go
    <3> QED
      BY <2>4, <2>5, <3>1, <3>2
  <2>14. CASE readDiskSector
    <3> DEFINE sata == {j \in 1 .. 32 : PortType(FirstRow, j) = "SATA"}
    <3>1. /\ pc = "read" /\ UNCHANGED <<devices, unvisited, controller>>
          /\ pc' = IF sata # {} /\ Min(sata) > Len(FirstRow) THEN "lost" ELSE "running"
          /\ reader' = IF pc' = "running" /\ sata # {} THEN FirstRow[Min(sata)] ELSE NoPort
      BY <2>14 DEF readDiskSector, Go, driver
    <3>2. /\ sata # {} /\ Min(sata) <= Len(FirstRow) /\ Len(FirstRow) \in Nat /\ Min(sata) \in Nat
          /\ FirstRow[Min(sata)].controller = a /\ FirstRow[Min(sata)].port = Min(Disks)
      BY <2>12, <3>1
    <3> HIDE DEF sata
    <3>3. pc' = "running" /\ reader' = FirstRow[Min(sata)]
      BY <3>1, <3>2
    <3> QED
      BY <2>4, <2>5, <3>1, <3>2, <3>3
  <2> QED
    BY <1>6, <2>6, <2>7, <2>8, <2>9, <2>10, <2>11, <2>13, <2>14 DEF KernelAction
<1> QED
  BY <1>5, <1>6

\* An ordinary computer stays one.
LEMMA OrdinaryStays ==
    ASSUME machine' = machine
    PROVE  Ordinary' <=> Ordinary
<1>1. /\ AHCIControllers' = AHCIControllers /\ FirstController' = FirstController /\ Disks' = Disks
      /\ \A a : PortsOf(a)' = PortsOf(a) /\ (Present(a)' <=> Present(a)) /\ (Visited(a)' <=> Visited(a))
  BY DEF AHCIControllers, FirstController, Disks, PortsOf, Present, Visited
<1>2. /\ Bottom' = Bottom
      /\ \A a : Below(a)' = Below(a)
  BY <1>1 DEF Bottom, Below
<1>3. Listed' <=> Listed
  BY <1>1, <1>2 DEF Listed
<1>4. \A a, n : Mapped(a, n)' <=> Mapped(a, n)
  BY DEF Mapped
<1> QED
  BY <1>1, <1>3, <1>4 DEF Ordinary

\* The first state.
LEMMA InvInit ==
    ASSUME Init
    PROVE  IInv
<1>1. /\ pc = "query" /\ machine \in Machines
      /\ memoryMap \in [key : {0}, size : MapSizes, events : {0}]
      /\ live = TRUE /\ Map = NoMap /\ MapSize = 0 /\ MapKey = 0 /\ rsdp = NoTable
      /\ unvisited = DOMAIN machine.functions
      /\ ports = <<>> /\ devices = <<>> /\ changed = FALSE
  BY DEF Init
<1>2. memoryMap \in [key : Nat, size : Nat, events : Nat]
  <2>1. memoryMap \in [key : {0}, size : MapSizes, events : {0}] /\ MapSizes \subseteq Nat
    BY <1>1, BootAssumption
  <2>2. memoryMap = [key |-> 0, size |-> memoryMap.size, events |-> 0] /\ memoryMap.size \in MapSizes
    BY <2>1
  <2>3. memoryMap.size \in Nat
    BY <2>1, <2>2
  <2> QED
    BY <2>2, <2>3
<1>3. Typed
  <2>1. ports \in Seq(UsedPorts) /\ devices \in Seq(Seq(UsedPorts))
    BY <1>1
  <2> QED
    BY <1>1, <1>2, <2>1 DEF Typed, LoaderSteps
<1>4. MapState
  BY <1>1 DEF MapState
<1>5. EnumerationState
  BY <1>1 DEF EnumerationState, KernelSteps
<1> QED
  BY <1>1, <1>3, <1>4, <1>5 DEF IInv

\* Every step keeps the invariant.
LEMMA InvStep ==
    ASSUME IInv, [Next]_vars
    PROVE  IInv'
<1>1. Typed /\ MapState /\ EnumerationState /\ (Ordinary /\ Map # NoMap => SearchState)
  BY DEF IInv
<1>2. CASE Next
  <2>1. EnumerationState' /\ machine' = machine
    BY <1>1, <1>2, EnumerationStep
  <2>2. UsedPorts' = UsedPorts /\ (Ordinary' <=> Ordinary)
    <3>1. UsedPorts' = UsedPorts
      BY <2>1 DEF UsedPorts
    <3> QED
      BY <2>1, <3>1, OrdinaryStays
  <2>3. Typed' /\ MapState'
    <3>1. /\ unvisited' \subseteq DOMAIN machine.functions
          /\ ports' \in Seq(UsedPorts) /\ devices' \in Seq(Seq(UsedPorts))
          /\ pc' \in LoaderSteps \cup KernelSteps
      BY <1>1, <1>2, EnumerationStep
    <3>2. /\ MapState'
          /\ memoryMap' \in [key : Nat, size : Nat, events : Nat]
          /\ live' \in BOOLEAN /\ changed' \in BOOLEAN
          /\ Map' \in Nat \cup {NoMap} /\ MapSize' \in Nat /\ MapKey' \in Nat
      BY <1>1, <1>2, MapStep
    <3>3. machine' \in Machines
      BY <1>1, <2>1 DEF Typed
    <3> QED
      BY <2>1, <2>2, <3>1, <3>2, <3>3 DEF Typed
  <2>4. Ordinary' /\ Map' # NoMap => SearchState'
    BY <1>1, <1>2, <2>2, SearchStep
  <2> QED
    BY <2>1, <2>3, <2>4 DEF IInv
<1>3. CASE UNCHANGED vars
  <2>1. UNCHANGED <<pc, machine, memoryMap, live, Map, MapSize, MapKey, rsdp, changed,
                    unvisited, controller, i, ports, devices, reader>>
    BY <1>3 DEF vars, loader, kernel, driver
  <2>2. Typed' /\ MapState'
    BY <1>1, <2>1 DEF Typed, UsedPorts, MapState
  <2>3. AHCIControllers' = AHCIControllers /\ Rsdp' = Rsdp
    BY <2>1 DEF AHCIControllers, Rsdp, Candidates, IsAcpi2
  <2>4. EnumerationState'
    BY <1>1, <2>1, <2>3 DEF EnumerationState, Row, PortsOf, Visited, Present
  <2>5. Ordinary' <=> Ordinary
    BY <2>1, OrdinaryStays
  <2>6. SearchState' <=> SearchState
    BY <2>1 DEF SearchState, Row, PortsOf, FirstController, AHCIControllers, Disks
  <2> QED
    BY <1>1, <2>1, <2>2, <2>4, <2>5, <2>6 DEF IInv
<1> QED
  BY <1>2, <1>3

-----------------------------------------------------------------------------
(* The theorems.                                                             *)

\* The invariant holds.
THEOREM Invariance == Spec => []IInv
<1>1. Init => IInv
  BY InvInit
<1>2. IInv /\ [Next]_vars => IInv'
  BY InvStep
<1> QED
  BY <1>1, <1>2, PTL DEF Spec

\* A kernel with a map is alone, with the firmware's last map, unless the map
\* changed after it was read.  (main.c, efi_main)
THEOREM KernelAlone == Spec => []StartsAlone
<1>1. IInv => StartsAlone
  <2> SUFFICES ASSUME IInv, Map # NoMap,
                      pc \notin {"query", "allocate", "get", "rsdp", "exit", "start"}
               PROVE  (live <=> changed) /\ (~live => Map = memoryMap.key /\ MapSize = memoryMap.size)
    BY DEF StartsAlone
  <2> QED
    BY DEF IInv, MapState
<1> QED
  BY <1>1, Invariance, PTL

\* An ordinary computer's kernel reads from the first disk of the first
\* controller, whatever tables, functions and ports it has besides.
\* (main.c, acpi.cpp, pci.cpp, ahci.cpp, kernel.cpp, readDisk.cpp)
THEOREM FirstDiskFound == Spec => []DiskFound
<1>1. IInv => DiskFound
  BY DEF IInv, SearchState, DiskFound
<1> QED
  BY <1>1, Invariance, PTL
=============================================================================
