--------------------------------- MODULE Boot ---------------------------------
(***************************************************************************)
(* From the firmware to the first sector: efi_main of                      *)
(* gnu-efi/bootloader/main.c after the kernel and the font have been       *)
(* loaded, then what _start does to find the disk (kernelUtil.cpp,         *)
(* acpi.cpp, pci.cpp, ahci.cpp, kernel.cpp, readDisk.cpp).                 *)
(*                                                                         *)
(* One thread runs; the firmware's events are all that goes on beside it,  *)
(* until ExitBootServices.  What differs from one computer to the next is  *)
(* the record machine:                                                     *)
(*   tables     the configuration tables' kinds.  A table of ACPI 2 or of  *)
(*              ACPI 1 begins with 'R', no other does                      *)
(*   beyond     whether what follows them looks like ACPI 2's identifier   *)
(*   xsdt       the names of the tables in ACPI 2's list                   *)
(*   segments   the MCFG's entries                                         *)
(*   functions  address -> a PCI function: its kind, the rows of text that *)
(*              the listing gives it, whether its class is one of the 20   *)
(*              that have a name (classed), and of an AHCI controller the  *)
(*              ports, as sequence, and whether what follows the first     *)
(*              page of its registers is mapped (reach)                    *)
(*   rows       the rows of text that fit into the framebuffer             *)
(*   dirty      whether the heap's new memory is not zero                  *)
(*   low        what memory holds where a port at address 0 has its type   *)
(***************************************************************************)
EXTENDS Integers, Sequences, FiniteSets, FiniteSetsExt

CONSTANTS
    Machines,
    MapSizes,       \* sizes of the memory map at the start
    MaxEvents       \* bound on the firmware's events

PortTypes == {"None", "SATA", "SATAPI", "PM", "SEMB"}
Segments  == [StartBus : 0 .. 255, EndBus : 0 .. 255]
Ports     == [implemented : BOOLEAN, present : BOOLEAN, active : BOOLEAN, signature : PortTypes]

\* A function's address is <<segment, bus, device, function>>.
Addresses(segments) == (1 .. Len(segments)) \X (0 .. 255) \X (0 .. 31) \X (0 .. 7)

\* A segment decodes no bus before its first one.  A controller has 32 ports at
\* most; more than 32 controllers would not fit into PCI::devices.
WellFormed(m) ==
    /\ m.tables \in Seq({"ACPI 1", "ACPI 2", "other"}) /\ m.beyond \in BOOLEAN
    /\ m.xsdt \in Seq(STRING) /\ m.segments \in Seq(Segments)
    /\ m.dirty \in BOOLEAN /\ m.low \in PortTypes /\ m.rows \in Nat
    /\ \A a \in DOMAIN m.functions :
         /\ a \in Addresses(m.segments) /\ a[2] >= m.segments[a[1]].StartBus
         /\ m.functions[a].ports \in Seq(Ports) /\ Len(m.functions[a].ports) <= 32
         /\ m.functions[a].rows \in Nat \ {0}
         /\ m.functions[a].classed \in BOOLEAN /\ m.functions[a].reach \in BOOLEAN
    /\ Cardinality({a \in DOMAIN m.functions : m.functions[a].kind = "AHCI"}) <= 32

ASSUME BootAssumption ==
    /\ MapSizes \subseteq Nat /\ MaxEvents \in Nat
    /\ \A m \in Machines : WellFormed(m)

NoMap   == -1
NoTable == -1
NoPort  == [controller |-> <<>>, port |-> 0, type |-> "None"]

VARIABLES
    pc,             \* the next step, "lost" once the code uses what is not there
    machine,
    memoryMap,      \* the firmware's: its key, its size and how often it changed by itself
    live,           \* boot services are
    Map,            \* key of the map in the loader's buffer, NoMap when none is
    MapSize, MapKey,
    rsdp,           \* index of the table taken for it, NoTable for NULL
    unvisited,      \* addresses that the enumeration has not come to
    controller, i, ports,   \* the driver that is being built: its next port, and those in use
    devices,        \* PCI::devices: a row of ports for each controller
    reader,         \* the port that readDiskSector reads from, NoPort when it has none
    changed         \* history: the map changed after the loader read it

loader == <<memoryMap, live, Map, MapSize, MapKey, rsdp, changed>>
driver == <<controller, i, ports>>
kernel == <<unvisited, driver, devices, reader>>
vars   == <<pc, machine, loader, kernel>>

Init ==
    /\ pc = "query"
    /\ machine \in Machines
    /\ memoryMap \in [key : {0}, size : MapSizes, events : {0}]
    /\ live = TRUE
    /\ Map = NoMap /\ MapSize = 0 /\ MapKey = 0
    /\ rsdp = NoTable
    /\ unvisited = DOMAIN machine.functions
    /\ controller = <<>> /\ i = 1 /\ ports = <<>>
    /\ devices = <<>> /\ reader = NoPort
    /\ changed = FALSE

Go(from, to) == pc = from /\ pc' = to

-----------------------------------------------------------------------------
(* The loader                                                                *)

\* GetMemoryMap with no buffer: it fails, whatever MapSize held, and says what it needs.
QueryMapSize ==
    /\ Go("query", "allocate")
    /\ MapSize' = memoryMap.size /\ MapKey' = memoryMap.key
    /\ UNCHANGED <<machine, memoryMap, live, Map, rsdp, changed, kernel>>

\* The firmware's map with one change, which may split an entry.
Changes(events) ==
    [key : {memoryMap.key + 1}, size : {memoryMap.size, memoryMap.size + 1}, events : {events}]

\* AllocatePool takes the buffer out of the memory the map describes.
AllocateMap ==
    /\ Go("allocate", "get")
    /\ memoryMap' \in Changes(memoryMap.events)
    /\ UNCHANGED <<machine, live, Map, MapSize, MapKey, rsdp, changed, kernel>>

\* Mutant: only the query is made.
SkipGetMap ==
    /\ Go("get", "rsdp")
    /\ Map' = MapKey
    /\ UNCHANGED <<machine, memoryMap, live, MapSize, MapKey, rsdp, changed, kernel>>

\* A buffer that has become too small is left as it is; nobody looks at the
\* status.  Whether the key is given all the same is up to the firmware.
GetMap ==
    /\ Go("get", "rsdp")
    /\ MapSize' = memoryMap.size
    /\ IF memoryMap.size <= MapSize
       THEN Map' = memoryMap.key /\ MapKey' = memoryMap.key
       ELSE Map' = NoMap /\ MapKey' \in {MapKey, memoryMap.key}
    /\ UNCHANGED <<machine, memoryMap, live, rsdp, changed, kernel>>

\* The index and the pointer both advance: the identifier is that of entry
\* 2 * index, the table that of entry index.  CompareGuid answers true for
\* identifiers that differ, strcmp for tables whose first letter is the same.
IsAcpi2(entry) ==
    IF entry < Len(machine.tables) THEN machine.tables[entry + 1] = "ACPI 2" ELSE machine.beyond

Candidates ==
    {index \in 0 .. Len(machine.tables) - 1 :
        /\ ~IsAcpi2(2 * index)
        /\ machine.tables[index + 1] \in {"ACPI 1", "ACPI 2"}}

\* Mutant: the search ends at the first one.
FirstRsdp == IF Candidates = {} THEN NoTable ELSE Min(Candidates)

Rsdp == IF Candidates = {} THEN NoTable ELSE Max(Candidates)

FindRsdp ==
    /\ Go("rsdp", "exit")
    /\ rsdp' = Rsdp
    /\ UNCHANGED <<machine, memoryMap, live, Map, MapSize, MapKey, changed, kernel>>

\* Refused when the key is not the map's; nobody looks at the status.
ExitBootServices ==
    /\ Go("exit", "start")
    /\ live' = (MapKey # memoryMap.key)
    /\ UNCHANGED <<machine, memoryMap, Map, MapSize, MapKey, rsdp, changed, kernel>>

\* The frame allocator goes through the map it is given, entry by entry.
KernelStart ==
    /\ Go("start", IF Map = NoMap THEN "lost" ELSE "acpi")
    /\ UNCHANGED <<machine, loader, kernel>>

\* Timers and drivers of the firmware allocate memory as well.
FirmwareEvent ==
    /\ live /\ pc \in {"allocate", "get", "rsdp", "exit"}
    /\ memoryMap.events < MaxEvents
    /\ memoryMap' \in Changes(memoryMap.events + 1)
    /\ changed' = (pc \in {"rsdp", "exit"})
    /\ UNCHANGED <<pc, machine, live, Map, MapSize, MapKey, rsdp, kernel>>

-----------------------------------------------------------------------------
(* The kernel                                                                *)

\* The test for the fourth letter looks at the table's number instead: the
\* fourth table is the answer if its first letter is right.
FindTable ==
    IF Len(machine.xsdt) >= 4 /\ machine.xsdt[4] \in {"MCFG", "MSDM"} THEN machine.xsdt[4] ELSE "NULL"

\* Any other table than ACPI 2's has no list of tables, any other than MCFG no segments.
PrepareACPI ==
    /\ Go("acpi",
          IF /\ rsdp # NoTable /\ machine.tables[rsdp + 1] = "ACPI 2"
             /\ FindTable = "MCFG"
          THEN "pci" ELSE "lost")
    /\ UNCHANGED <<machine, loader, kernel>>

\* What is there and may go wrong: memory that belongs to something else, or is not mapped.
Hopefully(step, sound) == IF sound THEN {step} ELSE {step, "lost"}

Present(address) ==
    address \in DOMAIN machine.functions /\ machine.functions[address].kind # "absent"

\* A bus without its first device, a device without its first function is passed over.
Visited(a) ==
    /\ a[2] \in machine.segments[a[1]].StartBus .. machine.segments[a[1]].EndBus - 1
    /\ Present(<<a[1], a[2], 0, 0>>) /\ Present(<<a[1], a[2], a[3], 0>>) /\ Present(a)

AHCIControllers == {a \in DOMAIN machine.functions : machine.functions[a].kind = "AHCI"}

Address(a) == ((a[1] * 256 + a[2]) * 32 + a[3]) * 8 + a[4]
First(a, addresses) == a \in addresses /\ \A b \in addresses : Address(a) <= Address(b)

\* The listing: its heading and a blank row, then the functions one below the other.
\* A driver prints two rows when it begins and one when it ends.
Height(function) == function.rows + IF function.kind = "AHCI" THEN 3 ELSE 0
Heights(functions, S) == MapThenSumSet(LAMBDA a : Height(functions[a]), S)

\* The row the pointer stands in after a function, and after all of them.
Below(a) == 2 + Heights(machine.functions, {b \in DOMAIN machine.functions :
                                                Visited(b) /\ Address(b) <= Address(a)})
Bottom   == 3 + Heights(machine.functions, {b \in DOMAIN machine.functions : Visited(b)})

\* Its class is the index of the name that is printed, and nothing ends the listing
\* at the last row.  A driver counts its ports from whatever the heap's memory holds.
EnumerateFunction(a) ==
    /\ pc = "pci" /\ First(a, unvisited)
    /\ unvisited' = unvisited \ {a}
    /\ IF ~Visited(a) THEN UNCHANGED <<pc, driver>>
       ELSE LET last  == IF a \in AHCIControllers THEN Below(a) - 1 ELSE Below(a)
                sound == machine.functions[a].classed /\ last < machine.rows
            IN  IF a \in AHCIControllers
                THEN /\ pc' \in (IF machine.dirty THEN {"lost"} ELSE Hopefully("probe", sound))
                     /\ controller' = a /\ i' = 1 /\ ports' = <<>>
                ELSE pc' \in Hopefully("pci", sound) /\ UNCHANGED driver
    /\ UNCHANGED <<machine, loader, devices, reader>>

EnumeratePCIEnds ==
    /\ pc = "pci" /\ pc' \in Hopefully("disk", Bottom < machine.rows)
    /\ unvisited = {}
    /\ UNCHANGED <<machine, loader, kernel>>

CheckPortType(port) ==
    IF port.implemented /\ port.present /\ port.active THEN port.signature ELSE "None"

PortsOf(address) == machine.functions[address].ports

\* One page of the registers is mapped, those of 30 ports.
Mapped(a, n) == n <= 30 \/ machine.functions[a].reach

\* The ports in use are put side by side.
ProbePort ==
    /\ pc = "probe" /\ i <= Len(PortsOf(controller))
    /\ pc' = IF PortsOf(controller)[i].implemented /\ ~Mapped(controller, i) THEN "lost" ELSE "probe"
    /\ i' = i + 1
    /\ LET type == CheckPortType(PortsOf(controller)[i])
       IN  ports' = IF type \in {"SATA", "SATAPI"}
                    THEN Append(ports, [controller |-> controller, port |-> i, type |-> type])
                    ELSE ports
    /\ UNCHANGED <<machine, loader, unvisited, controller, devices, reader>>

ProbePortsEnds ==
    /\ pc = "probe" /\ i > Len(PortsOf(controller))
    /\ pc' \in Hopefully("pci", Below(controller) < machine.rows)
    /\ devices' = Append(devices, ports)
    /\ UNCHANGED <<machine, loader, unvisited, driver, reader>>

PortType(row, j) == IF j <= Len(row) THEN row[j].type ELSE machine.low

\* The search ends at the first row whose first port is neither, so that it
\* finds the first row or none; then disk has no value.
FirstRow == IF devices = <<>> THEN <<>> ELSE devices[1]

ChooseDisk ==
    /\ Go("disk", IF PortType(FirstRow, 1) \in {"SATA", "SATAPI"} THEN "read" ELSE "lost")
    /\ UNCHANGED <<machine, loader, kernel>>

\* The first SATA port of the row's 32; one that is not there cannot be read from.
readDiskSector ==
    LET sata == {j \in 1 .. 32 : PortType(FirstRow, j) = "SATA"}
    IN  /\ Go("read", IF sata # {} /\ Min(sata) > Len(FirstRow) THEN "lost" ELSE "running")
        /\ reader' = IF pc' = "running" /\ sata # {} THEN FirstRow[Min(sata)] ELSE NoPort
        /\ UNCHANGED <<machine, loader, unvisited, driver, devices>>

Next ==
    \/ QueryMapSize \/ AllocateMap \/ GetMap \/ FindRsdp \/ ExitBootServices \/ KernelStart
    \/ FirmwareEvent
    \/ PrepareACPI
    \/ \E a \in unvisited : EnumerateFunction(a)
    \/ EnumeratePCIEnds \/ ProbePort \/ ProbePortsEnds
    \/ ChooseDisk \/ readDiskSector

Spec == Init /\ [][Next]_vars

-----------------------------------------------------------------------------
(* Properties                                                                *)

\* A kernel that has been given a map has left the firmware behind, with the
\* very map it was given, unless the firmware changed the map after the loader
\* had read it: then boot services are still live.  (main.c 235-269)
StartsAlone ==
    (pc \notin {"query", "allocate", "get", "rsdp", "exit", "start"} /\ Map # NoMap) =>
        /\ live <=> changed
        /\ ~live => Map = memoryMap.key /\ MapSize = memoryMap.size

\* A computer on which the code finds its way: ACPI 2's table is the only one
\* of its kind, is not the first and has no other table of ACPI after it; the
\* MCFG is the fourth in its list; new memory is zero; the first controller in
\* the order of addresses is on a bus below its segment's last, behind first
\* devices and functions, and has a disk; no controller has ports on a second
\* page of registers unless that is mapped; every function that is listed has a
\* class with a name; and the listing ends above the screen's last row.
FirstController == CHOOSE a \in AHCIControllers : First(a, AHCIControllers)
Disks == {n \in DOMAIN PortsOf(FirstController) : CheckPortType(PortsOf(FirstController)[n]) = "SATA"}

Listed ==
    /\ Bottom < machine.rows
    /\ \A a \in DOMAIN machine.functions : Visited(a) =>
         machine.functions[a].classed /\ Below(a) \in 0 .. machine.rows - 1

Ordinary ==
    /\ ~machine.dirty /\ ~machine.beyond
    /\ Len(machine.xsdt) >= 4 /\ machine.xsdt[4] = "MCFG"
    /\ \E n \in 2 .. Len(machine.tables) :
         /\ machine.tables[n] = "ACPI 2"
         /\ \A j \in DOMAIN machine.tables : machine.tables[j] = "ACPI 2" => j = n
         /\ \A j \in n + 1 .. Len(machine.tables) : machine.tables[j] = "other"
    /\ AHCIControllers # {}
    /\ FirstController[2] < machine.segments[FirstController[1]].EndBus
    /\ \A a \in DOMAIN machine.functions :
         Present(a) => Present(<<a[1], a[2], 0, 0>>) /\ Present(<<a[1], a[2], a[3], 0>>)
    /\ Disks # {}
    /\ \A a \in AHCIControllers, n \in 1 .. 32 :
         n \in DOMAIN PortsOf(a) /\ PortsOf(a)[n].implemented => Mapped(a, n)
    /\ Listed

\* On such a computer the file system reads from the first controller's first
\* disk, whichever other functions, controllers and ports it has.  (main.c 245-255, acpi.cpp 9-17,
\* pci.cpp 10-90, ahci.cpp 47-66, kernel.cpp 26-54, readDisk.cpp 5-15)
DiskFound ==
    (pc \in {"lost", "running"} /\ Map # NoMap /\ Ordinary) =>
        /\ pc = "running"
        /\ reader.controller = FirstController /\ reader.port = Min(Disks)
=============================================================================
