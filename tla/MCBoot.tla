------------------------------- MODULE MCBoot -------------------------------
(***************************************************************************)
(* The instance of Boot for TLC: partition tables with and without a first *)
(* partition, of FAT32 and of another type, with up to four partitions.    *)
(***************************************************************************)
EXTENDS Boot

Entry(type, start) == [type |-> type, start |-> start, size |-> 10]
Unused == [type |-> 0, start |-> 0, size |-> 0]
FourTables ==
    {<<Entry(FAT32, 5), Unused, Unused, Unused>>,
     <<Entry(131, 5), Entry(FAT32, 15), Unused, Unused>>,
     <<Unused, Unused, Entry(FAT32, 25), Unused>>,
     <<Entry(FAT32, 5), Entry(131, 15), Entry(131, 25), Entry(131, 35)>>}
TimerAndUart == <<"timer0", "uart2">>
=============================================================================
