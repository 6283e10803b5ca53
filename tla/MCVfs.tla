------------------------------- MODULE MCVfs -------------------------------
(***************************************************************************)
(* The instance of Vfs for TLC.  Two volumes that mount, with clusters of  *)
(* four sectors and of one, and two that do not.                           *)
(***************************************************************************)
EXTENDS Vfs, TLC

Short(name, dir, cluster) ==
    [kind |-> "short", name |-> name, dir |-> dir, cluster |-> cluster]
Piece(name) == [Short(name, FALSE, 0) EXCEPT !.kind = "long"]
Deleted == [Short(<<"x">>, FALSE, 0) EXCEPT !.kind = "deleted"]
End == [Short(<<>>, FALSE, 0) EXCEPT !.kind = "end"]

\* Every byte of a disk is a different one.
Bytes(clusters, spc) ==
    [c \in clusters |-> [j \in 1 .. SectorBytes * spc |-> 100 * c + j]]

Bad(header) == [header |-> header, spc |-> 1, free |-> 0, fat |-> 2 :> 0,
                dirs |-> 2 :> <<<<End>>>>, data |-> Bytes({2}, 1)]

\* The root holds the file "ab", a deleted file with a long name, the file "f"
\* of two clusters, the empty file "e" and the directory "d", which leads back
\* to the root and has "f" and, in its second sector, "g".
Disk1(spc) ==
    [header |-> "fat32", spc |-> spc, free |-> 5,
     fat |-> 2 :> 0 @@ 3 :> 4 @@ 4 :> 0 @@ 5 :> 0 @@ 6 :> 0,
     dirs |-> 2 :> << <<Piece(<<"b">>), Piece(<<"a">>), Short(<<"x">>, FALSE, 6),
                        Piece(<<"x">>), Deleted, Short(<<"f">>, FALSE, 3),
                        Short(<<"e">>, FALSE, 0), Short(<<"d">>, TRUE, 5), End>>,
                      <<End>> >>
           @@ 5 :> << <<Short(<<".", ".">>, TRUE, 0), Short(<<"f">>, FALSE, 6)>>,
                      <<Short(<<"g">>, FALSE, 6), End>> >>,
     data |-> Bytes(2 .. 6, spc)]
\* A disk whose root has "f" and the directory "d" with another "f".
Disk2 ==
    [header |-> "fat32", spc |-> 1, free |-> Word - 1,
     fat |-> 2 :> 0 @@ 3 :> 4 @@ 4 :> 0 @@ 5 :> 0 @@ 6 :> 0,
     dirs |-> 2 :> <<<<Short(<<"f">>, FALSE, 3), Short(<<"d">>, TRUE, 5), End>>>>
           @@ 5 :> <<<<Short(<<".", ".">>, TRUE, 0), Short(<<"f">>, FALSE, 6), End>>>>,
     data |-> Bytes(2 .. 6, 1)]
Disks == "sd0p0" :> Disk1(4) @@ "sd0p1" :> Disk2 @@ "sd0p2" :> Bad("not FAT")
            @@ "sd0p3" :> Bad("other type")
\* Two sectors a cluster: the buffer has the right size.
OneDisk == "sd0p0" :> Disk1(2)

MountPathsMC == {<<"/">>, <<"/", "d">>, <<"/", "m", "/", "d">>}
PathsMC == {<<"/">>, <<"/", "d">>, <<"/", "e">>, <<"/", "f">>,
            <<"/", "a", "b">>, <<"/", "d", "/", "f">>, <<"/", "d", "/", "g">>,
            <<"/", "d", "/", ".", ".", "/", "f">>, <<"/", "d", "d", "/", "f">>,
            <<"/", "f", "/", "f">>, <<"/", "d", "f">>,
            <<"/", "m", "/", "d", "/", "d", "/", "f">>, <<"f">>}
=============================================================================
