-------------------------------- MODULE MCBoot --------------------------------
(***************************************************************************)
(* Machines that differ in their tables, and machines that differ in their *)
(* PCI functions: one segment of three buses, the last of which is EndBus, *)
(* and a second segment of one bus.  A third group has a controller with   *)
(* 32 ports, a function without a class's name and a screen that is too    *)
(* small by one row or more.                                               *)
(***************************************************************************)
EXTENDS Boot

Port(present, active, signature) ==
    [implemented |-> TRUE, present |-> present, active |-> active, signature |-> signature]
Disk    == Port(TRUE, TRUE, "SATA")
Asleep  == Port(TRUE, FALSE, "SATA")
Optical == Port(TRUE, TRUE, "SATAPI")
Hub     == Port(TRUE, TRUE, "PM")
Missing == [Disk EXCEPT !.implemented = FALSE]

Function(kind, ports_) ==
    [kind |-> kind, ports |-> ports_, rows |-> 1, classed |-> TRUE, reach |-> FALSE]
Absent == Function("absent", <<>>)
Other  == Function("other", <<>>)
RowsOfPorts == {<<Asleep, Disk, Disk>>, <<Optical, Hub, Disk>>, <<Optical>>, <<Hub>>}
AHCI   == {Function("AHCI", row) : row \in RowsOfPorts \cup {<<Disk>>}}

MCAddresses == {<<1, 0, 0, 0>>, <<1, 0, 0, 1>>, <<1, 1, 0, 0>>, <<1, 1, 1, 0>>, <<1, 2, 0, 0>>, <<2, 0, 0, 0>>}
MCSegments == <<[StartBus |-> 0, EndBus |-> 2], [StartBus |-> 0, EndBus |-> 1]>>

Machine(tables, beyond, xsdt, functions, dirty, low) ==
    [tables |-> tables, beyond |-> beyond, xsdt |-> xsdt, segments |-> MCSegments,
     functions |-> functions, dirty |-> dirty, low |-> low, rows |-> 22]

Usual == <<"other", "ACPI 1", "ACPI 2">>
List  == <<"FACP", "APIC", "HPET", "MCFG">>
Plain == [a \in MCAddresses |-> IF a = <<1, 0, 0, 1>> THEN Function("AHCI", <<Disk>>) ELSE Other]

Kinds(a) ==
    CASE a \in {<<1, 0, 0, 0>>, <<1, 1, 0, 0>>} -> {Absent, Other}
      [] a \in {<<1, 0, 0, 1>>, <<1, 1, 1, 0>>} -> {Absent} \cup AHCI
      [] OTHER -> {Absent, Function("AHCI", <<Disk>>)}

\* Two rows of heading, nine for the functions up to EndBus and the driver, and a
\* last one: such a listing fits on 13 rows.
Many(last) == [n \in 1 .. 32 |-> IF n = 3 THEN Disk ELSE IF n < 31 THEN Missing ELSE last]
Crowded(last, reach, classed) ==
    [Plain EXCEPT ![<<1, 0, 0, 1>>] = [Function("AHCI", Many(last)) EXCEPT !.reach = reach],
                  ![<<1, 0, 0, 0>>] = [Other EXCEPT !.rows = 2],
                  ![<<1, 1, 1, 0>>] = [Other EXCEPT !.classed = classed]]

MCMachines ==
    {Machine(tables, beyond, xsdt, Plain, dirty, "None") :
        tables \in UNION {[1 .. n -> {"ACPI 1", "ACPI 2", "other"}] : n \in 0 .. 4},
        beyond \in BOOLEAN, dirty \in BOOLEAN,
        xsdt \in {List, <<"MCFG", "FACP">>, <<"FACP", "MCFG", "APIC", "MSDM">>, <<"MCFG", "APIC", "HPET", "FACP">>}}
    \cup
    {Machine(Usual, FALSE, List, functions, FALSE, low) :
        functions \in
            {f \in [MCAddresses -> {Absent, Other} \cup AHCI] :
                \A a \in MCAddresses : f[a] \in Kinds(a)},
        low \in {"None", "SATA"}}
    \cup
    {[Machine(Usual, FALSE, List, Crowded(last, reach, classed), FALSE, "None") EXCEPT !.rows = rows] :
        last \in {Missing, Asleep, Disk}, reach \in BOOLEAN, classed \in BOOLEAN, rows \in 6 .. 13}
=============================================================================
