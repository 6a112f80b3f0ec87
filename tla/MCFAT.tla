--------------------------------- MODULE MCFAT ---------------------------------
(* A FAT16 volume of 22 sectors.  Four entries fill a sector, two sectors a  *)
(* cluster, and the root directory has two sectors.  ls reads one entry less *)
(* than a sector has, as it does in the code (15 of 16).                     *)
EXTENDS FAT, TLC

\* Chains: 2 -> 9 (directory D), 4 -> 8 -> 3 (file A), 5 (B), 6 (C), 7 (E).
\* Four entries fill a sector of the FAT, so 8 and 9 are in the third one.
MCFat == (0 :> 40) @@ (1 :> 40) @@ (2 :> 9) @@ (3 :> 40) @@ (4 :> 8) @@ (5 :> 40)
            @@ (6 :> 40) @@ (7 :> 40) @@ (8 :> 3) @@ (9 :> 40)

File(n, c, s) == [name |-> n, directory |-> FALSE, cluster |-> c, size |-> s]
Dir(n, c)     == [name |-> n, directory |-> TRUE, cluster |-> c, size |-> 0]
Sector(a, b, c, d) == (0 :> a) @@ (1 :> b) @@ (2 :> c) @@ (3 :> d)
BlankSector   == Sector(Blank, Blank, Blank, Blank)

\* The root: A ends inside a sector, B ends with its cluster, D is the last
\* entry of a sector.  D: C in its second cluster.  E and Z are empty.
MCSlots ==
    (4 :> Sector(File("A", 4, 35), Blank, File("B", 5, 16), Dir("D", 2))) @@
    (5 :> Sector(Blank, Dir("E", 7), File("Z", 0, 0), Blank)) @@
    (6 :> BlankSector) @@ (7 :> BlankSector) @@
    (20 :> Sector(Blank, File("C", 6, 3), Blank, Blank)) @@ (21 :> BlankSector) @@
    (16 :> BlankSector) @@ (17 :> BlankSector)

MCDirectories == {<<>>, <<"D">>, <<"E">>, <<"A">>, <<"A", "X">>}
MCNames == {"A", "B", "C", "Z"}
MCShortNames == {"B"}

\* A FAT32 volume of the same size.  Its root is cluster 2, which is the first
\* one of the data here, and its FAT says that there is no second cluster.
MCFat32 == (0 :> 40) @@ (1 :> 40) @@ (2 :> 40) @@ (3 :> 40)
MCSlots32 == (4 :> Sector(File("A", 3, 3), Blank, Blank, Blank)) @@ (5 :> BlankSector)
MCRootOnly == {<<>>}
MCNames32 == {"A", "B"}
=============================================================================
