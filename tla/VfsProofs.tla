----------------------------- MODULE VfsProofs -----------------------------
(***************************************************************************)
(* Proofs about Vfs and Fat32, for any partitions and volumes, paths,      *)
(* reads and number of mounts: the order of the mount list; then, from     *)
(* sequences and chains of clusters over the scan of a directory sector    *)
(* and the walk along a path, that open_file finds the file that a path    *)
(* names; and that read delivers bytes of it.                              *)
(***************************************************************************)
EXTENDS Vfs, SetInduction, SequenceTheorems

\* The invariant, in parts: the types, the order, and the partitions.  Only
\* what works is mounted, so that a mount that fails releases a partition that
\* nobody uses.
Mountpoint == [path : MountPaths, part : Parts]
MountTypes == mountList \in Seq(Mountpoint)
LongestFirst ==
    \A i, j \in 1 .. Len(mountList) :
        i < j => Len(mountList[i].path) >= Len(mountList[j].path)
RootLast == mountList # <<>> => mountList[Len(mountList)].path = <<Slash>>
ReservedAreMounted ==
    /\ reserved = {mountList[i].part : i \in 1 .. Len(mountList)}
    /\ \A i \in 1 .. Len(mountList) : Volumes[mountList[i].part].header = "fat32"
MountInv == MountTypes /\ LongestFirst /\ RootLast /\ ReservedAreMounted

-----------------------------------------------------------------------------
\* s with e put before its element i, or, for the index after the last one,
\* behind it.
Inserted(s, i, e, t) ==
    /\ Len(t) = Len(s) + 1
    /\ t[i] = e
    /\ \A j \in 1 .. i - 1 : t[j] = s[j]
    /\ \A j \in i + 1 .. Len(s) + 1 : t[j] = s[j - 1]

\* What InsertAt does to a sequence.
LEMMA InsertAtInserts ==
    ASSUME NEW S, NEW s \in Seq(S), NEW i \in 1 .. Len(s), NEW e \in S
    PROVE  /\ InsertAt(s, i, e) \in Seq(S)
           /\ Inserted(s, i, e, InsertAt(s, i, e))
  <1>1. PICK a, b, n : a = SubSeq(s, 1, i - 1) /\ b = SubSeq(s, i, Len(s)) /\ n = Len(s)
    OBVIOUS
  <1>2. n \in Nat /\ i \in Nat /\ i >= 1 /\ i <= n /\ \A j \in 1 .. n : s[j] \in S
    BY <1>1
  <1>3. /\ a \in Seq(S) /\ Len(a) = i - 1
        /\ \A j \in 1 .. i - 1 : a[j] = s[j]
    <2>1. \A j \in 1 .. i - 1 : s[j] \in S
      BY <1>2
    <2>2. /\ a \in Seq(S) /\ Len(a) = IF 1 <= i - 1 THEN (i - 1) - 1 + 1 ELSE 0
          /\ \A j \in 1 .. (i - 1) - 1 + 1 : a[j] = s[1 + j - 1]
      BY <1>1, <1>2, <2>1, SubSeqProperties
    <2> QED
      BY <1>2, <2>2
  <1>4. /\ b \in Seq(S) /\ Len(b) = n - i + 1
        /\ \A j \in 1 .. n - i + 1 : b[j] = s[i + j - 1]
    <2>1. \A j \in i .. n : s[j] \in S
      BY <1>2
    <2>2. /\ b \in Seq(S) /\ Len(b) = IF i <= n THEN n - i + 1 ELSE 0
          /\ \A j \in 1 .. n - i + 1 : b[j] = s[i + j - 1]
      BY <1>1, <1>2, <2>1, SubSeqProperties
    <2> QED
      BY <1>2, <2>2
  <1>5. PICK c : c = a \o <<e>>
    OBVIOUS
  <1>6. /\ c \in Seq(S) /\ Len(c) = i /\ c[i] = e
        /\ \A j \in 1 .. i - 1 : c[j] = s[j]
    BY <1>2, <1>3, <1>5
  <1>7. PICK t : t = c \o b
    OBVIOUS
  <1>8. InsertAt(s, i, e) = t
    BY <1>1, <1>5, <1>7 DEF InsertAt
  <1>9. /\ t \in Seq(S) /\ Len(t) = i + (n - i + 1)
        /\ \A j \in 1 .. i + (n - i + 1) : t[j] = IF j <= i THEN c[j] ELSE b[j - i]
    <2>1. /\ t \in Seq(S) /\ Len(t) = Len(c) + Len(b)
          /\ \A j \in 1 .. Len(c) + Len(b) :
                t[j] = IF j <= Len(c) THEN c[j] ELSE b[j - Len(c)]
      BY <1>4, <1>6, <1>7, ConcatProperties
    <2> QED
      BY <2>1, <1>4, <1>6
  <1>10. Len(t) = n + 1
    BY <1>2, <1>9
  <1>11. ASSUME NEW j \in i + 1 .. n + 1 PROVE t[j] = s[j - 1]
    <2>1. j - i \in 1 .. n - i + 1 /\ i + (j - i) - 1 = j - 1 /\ ~(j <= i)
          /\ j \in 1 .. i + (n - i + 1)
      BY <1>2
    <2> QED
      BY <2>1, <1>4, <1>9
  <1>12. t[i] = e /\ \A j \in 1 .. i - 1 : t[j] = s[j]
    BY <1>2, <1>6, <1>9
  <1> QED
    BY <1>1, <1>8, <1>9, <1>10, <1>11, <1>12 DEF Inserted

\* Where add_mountpoint puts a mount point: everything before it has a path
\* at least as long, and what comes after it, the last one included, does not
\* have a longer one.
LEMMA AddMountpointPlace ==
    ASSUME MountInv, mountList # <<>>, NEW m \in Mountpoint
    PROVE  \E i \in 1 .. Len(mountList) :
              /\ AddMountpoint(m) = InsertAt(mountList, i, m)
              /\ \A j \in 1 .. i - 1 : Len(mountList[j].path) >= Len(m.path)
              /\ \A j \in i .. Len(mountList) : Len(mountList[j].path) <= Len(m.path)
  <1>1. PICK n : n = Len(mountList)
    OBVIOUS
  <1>2. n \in Nat /\ n >= 1
    BY <1>1 DEF MountInv, MountTypes
  <1>3. \A j \in 1 .. n : Len(mountList[j].path) \in Nat /\ Len(mountList[j].path) >= 1
    <2>1. \A j \in 1 .. n : mountList[j] \in Mountpoint
      BY <1>1, ElementOfSeq DEF MountInv, MountTypes
    <2>2. \A j \in 1 .. n : mountList[j].path \in MountPaths
      BY <2>1 DEF Mountpoint
    <2> QED
      BY <2>2, MountPathsAssumption
  <1>4. Len(m.path) \in Nat /\ Len(m.path) >= 1
    BY MountPathsAssumption DEF Mountpoint
  <1>5. PICK C : C = {i \in 1 .. n - 1 : Len(mountList[i].path) < Len(m.path)} \cup {n}
    OBVIOUS
  <1>6. PICK i : i = Min(C)
    OBVIOUS
  <1>7. C \in SUBSET Nat /\ C # {} /\ C \subseteq 1 .. n
    BY <1>2, <1>5
  <1>8. i \in C /\ \A j \in C : i <= j
    BY <1>6, <1>7, LeastNumber
  <1>9. AddMountpoint(m) = InsertAt(mountList, i, m)
    BY <1>1, <1>2, <1>5, <1>6 DEF AddMountpoint
  <1>10. ASSUME NEW j \in 1 .. i - 1 PROVE Len(mountList[j].path) >= Len(m.path)
    <2>1. j \in 1 .. n - 1 /\ j < i
      BY <1>2, <1>7, <1>8
    <2>2. j \notin C
      BY <1>2, <1>7, <1>8, <2>1
    <2> QED
      BY <1>2, <1>3, <1>4, <1>5, <2>1, <2>2
  <1>11. ASSUME NEW j \in i .. n PROVE Len(mountList[j].path) <= Len(m.path)
    <2>1. i \in 1 .. n /\ j \in 1 .. n /\ i <= j
      BY <1>2, <1>7, <1>8
    <2>2. Len(mountList[j].path) <= Len(mountList[i].path)
      <3>1. CASE i = j
        BY <3>1, <1>3, <2>1
      <3>2. CASE i < j
        BY <3>2, <1>1, <2>1 DEF MountInv, LongestFirst
      <3> QED
        BY <3>1, <3>2, <2>1
    <2>3. Len(mountList[i].path) <= Len(m.path)
      <3>1. CASE i = n
        <4>1. mountList[n].path = <<Slash>>
          BY <1>1 DEF MountInv, RootLast
        <4>2. Len(mountList[n].path) = 1
          BY <4>1
        <4> QED
          BY <3>1, <4>2, <1>4
      <3>2. CASE i # n
        BY <3>2, <1>3, <1>4, <1>5, <1>8, <2>1
      <3> QED
        BY <3>1, <3>2
    <2> QED
      BY <1>3, <1>4, <2>1, <2>2, <2>3
  <1> QED
    BY <1>1, <1>7, <1>8, <1>9, <1>10, <1>11

\* A mount point put at its place leaves the longest path first, and the root
\* last.
LEMMA InsertKeepsOrder ==
    ASSUME NEW S, NEW s \in Seq(S), NEW t \in Seq(S), NEW e,
           NEW i \in 1 .. Len(s), Inserted(s, i, e, t),
           \A j \in 1 .. Len(s) : Len(s[j].path) \in Nat,
           Len(e.path) \in Nat,
           \A j, k \in 1 .. Len(s) : j < k => Len(s[j].path) >= Len(s[k].path),
           \A j \in 1 .. i - 1 : Len(s[j].path) >= Len(e.path),
           \A j \in i .. Len(s) : Len(s[j].path) <= Len(e.path)
    PROVE  /\ \A j, k \in 1 .. Len(t) : j < k => Len(t[j].path) >= Len(t[k].path)
           /\ t[Len(t)] = s[Len(s)]
  <1> PICK n : n = Len(s)
    OBVIOUS
  <1>1. n = Len(s) /\ n \in Nat /\ Len(t) = n + 1 /\ i \in 1 .. n
    BY DEF Inserted
  <1>2. ASSUME NEW j \in 1 .. n + 1, NEW k \in 1 .. n + 1, j < k
        PROVE  Len(t[j].path) >= Len(t[k].path)
    <2>1. CASE k < i
      <3>1. t[j] = s[j] /\ t[k] = s[k] /\ j \in 1 .. n /\ k \in 1 .. n
        BY <1>1, <1>2, <2>1 DEF Inserted
      <3> QED
        BY <3>1, <1>1, <1>2
    <2>2. CASE k = i
      <3>1. t[k] = e /\ j \in 1 .. i - 1
        BY <1>1, <1>2, <2>2 DEF Inserted
      <3>2. t[j] = s[j]
        BY <3>1 DEF Inserted
      <3> QED
        BY <3>1, <3>2
    <2>3. CASE j < i /\ i < k
      <3>1. t[j] = s[j] /\ j \in 1 .. i - 1
        BY <1>1, <1>2, <2>3 DEF Inserted
      <3>2. t[k] = s[k - 1] /\ k - 1 \in i .. n
        BY <1>1, <1>2, <2>3 DEF Inserted
      <3>3. j \in 1 .. n /\ k - 1 \in 1 .. n /\ j < k - 1
        BY <1>1, <1>2, <2>3, <3>1, <3>2
      <3> QED
        BY <3>1, <3>2, <3>3, <1>1
    <2>4. CASE j = i
      <3>1. t[j] = e /\ t[k] = s[k - 1] /\ k - 1 \in i .. n
        BY <1>1, <1>2, <2>4 DEF Inserted
      <3> QED
        BY <3>1, <1>1
    <2>5. CASE i < j
      <3>1. t[j] = s[j - 1] /\ t[k] = s[k - 1] /\ j - 1 \in 1 .. n /\ k - 1 \in 1 .. n
            /\ j - 1 < k - 1
        BY <1>1, <1>2, <2>5 DEF Inserted
      <3> QED
        BY <3>1, <1>1
    <2> QED
      BY <1>1, <1>2, <2>1, <2>2, <2>3, <2>4, <2>5
  <1>3. t[n + 1] = s[n]
    <2>1. n + 1 \in i + 1 .. n + 1 /\ (n + 1) - 1 = n
      BY <1>1
    <2> QED
      BY <1>1, <2>1 DEF Inserted
  <1> QED
    BY <1>1, <1>2, <1>3

\* t has the elements of s, and e.
HasAlso(s, e, t) ==
    /\ \A j \in 1 .. Len(t) : t[j] = e \/ \E k \in 1 .. Len(s) : t[j] = s[k]
    /\ \A k \in 1 .. Len(s) : \E j \in 1 .. Len(t) : t[j] = s[k]
    /\ \E j \in 1 .. Len(t) : t[j] = e

\* The elements of the list after the insertion.
LEMMA InsertAdds ==
    ASSUME NEW s, Len(s) \in Nat, NEW e, NEW i \in 1 .. Len(s), NEW t,
           Inserted(s, i, e, t)
    PROVE  HasAlso(s, e, t)
  <1>1. Len(s) \in Nat
    OBVIOUS
  <1>2. ASSUME NEW j \in 1 .. Len(s) + 1
        PROVE  t[j] = e \/ \E k \in 1 .. Len(s) : t[j] = s[k]
    <2>1. CASE j < i
      BY <1>1, <2>1 DEF Inserted
    <2>2. CASE j > i
      <3>1. t[j] = s[j - 1] /\ j - 1 \in 1 .. Len(s)
        BY <1>1, <2>2 DEF Inserted
      <3> QED
        BY <3>1
    <2>3. CASE j = i
      BY <2>3 DEF Inserted
    <2> QED
      BY <1>1, <2>1, <2>2, <2>3
  <1>3. ASSUME NEW k \in 1 .. Len(s)
        PROVE  \E j \in 1 .. Len(s) + 1 : t[j] = s[k]
    <2>1. CASE k < i
      BY <1>1, <2>1 DEF Inserted
    <2>2. CASE k >= i
      <3>1. k + 1 \in i + 1 .. Len(s) + 1 /\ (k + 1) - 1 = k /\ k + 1 \in 1 .. Len(s) + 1
        BY <1>1, <2>2
      <3> QED
        BY <3>1 DEF Inserted
    <2> QED
      BY <1>1, <2>1, <2>2
  <1>4. i \in 1 .. Len(s) + 1 /\ t[i] = e /\ Len(t) = Len(s) + 1
    BY <1>1 DEF Inserted
  <1> QED
    BY <1>2, <1>3, <1>4 DEF HasAlso

-----------------------------------------------------------------------------
\* A partition that is mounted keeps the invariant.
LEMMA AcceptedMount ==
    ASSUME MountInv, NEW m \in Mountpoint, Volumes[m.part].header = "fat32",
           mountList # <<>> \/ m.path = <<Slash>>,
           mountList' = AddMountpoint(m), reserved' = reserved \cup {m.part}
    PROVE  MountInv'
  <1>1. CASE mountList = <<>>
    <2>1. mountList' = <<m>> /\ m.path = <<Slash>> /\ Len(mountList) = 0
      BY <1>1 DEF AddMountpoint
    <2>2. Len(mountList') = 1 /\ mountList'[1] = m /\ mountList' \in Seq(Mountpoint)
      BY <2>1
    <2>3. reserved = {}
      BY <2>1 DEF MountInv, ReservedAreMounted
    <2>4. Mountpoint' = Mountpoint
      BY DEF Mountpoint
    <2>5. MountTypes' /\ LongestFirst' /\ RootLast'
      BY <2>1, <2>2, <2>4 DEF MountTypes, LongestFirst, RootLast
    <2>6. ReservedAreMounted'
      BY <2>2, <2>3 DEF ReservedAreMounted
    <2> QED
      BY <2>5, <2>6 DEF MountInv
  <1>2. CASE mountList # <<>>
    <2>1. PICK i \in 1 .. Len(mountList) :
              /\ AddMountpoint(m) = InsertAt(mountList, i, m)
              /\ \A j \in 1 .. i - 1 : Len(mountList[j].path) >= Len(m.path)
              /\ \A j \in i .. Len(mountList) : Len(mountList[j].path) <= Len(m.path)
      BY <1>2, AddMountpointPlace
    <2>2. PICK s, t : s = mountList /\ t = mountList'
      OBVIOUS
    <2>3. s \in Seq(Mountpoint) /\ i \in 1 .. Len(s) /\ Len(s) \in Nat
      BY <2>2 DEF MountInv, MountTypes
    <2>4. t \in Seq(Mountpoint) /\ Inserted(s, i, m, t)
      BY <2>1, <2>2, <2>3, InsertAtInserts
    <2>6. (\A j \in 1 .. Len(s) : Len(s[j].path) \in Nat) /\ Len(m.path) \in Nat
      <3>1. \A j \in 1 .. Len(s) : s[j] \in Mountpoint
        BY <2>3, ElementOfSeq
      <3> QED
        BY <3>1, MountPathsAssumption DEF Mountpoint
    <2>7. /\ \A j, k \in 1 .. Len(t) : j < k => Len(t[j].path) >= Len(t[k].path)
          /\ t[Len(t)] = s[Len(s)]
      <3>1. \A j, k \in 1 .. Len(s) : j < k => Len(s[j].path) >= Len(s[k].path)
        BY <2>2 DEF MountInv, LongestFirst
      <3>2. /\ \A j \in 1 .. i - 1 : Len(s[j].path) >= Len(m.path)
            /\ \A j \in i .. Len(s) : Len(s[j].path) <= Len(m.path)
        BY <2>1, <2>2
      <3> QED
        BY <2>3, <2>4, <2>6, <3>1, <3>2, InsertKeepsOrder
    <2>8. HasAlso(s, m, t)
      BY <2>3, <2>4, InsertAdds
    <2>9. MountTypes'
      BY <2>2, <2>4 DEF MountTypes, Mountpoint
    <2>10. LongestFirst'
      BY <2>2, <2>7 DEF LongestFirst
    <2>11. RootLast'
      BY <1>2, <2>2, <2>7 DEF MountInv, RootLast
    <2>12. ReservedAreMounted'
      <3>1. /\ reserved = {s[j].part : j \in 1 .. Len(s)}
            /\ \A j \in 1 .. Len(s) : Volumes[s[j].part].header = "fat32"
        BY <2>2 DEF MountInv, ReservedAreMounted
      <3>2. reserved \cup {m.part} = {t[j].part : j \in 1 .. Len(t)}
        <4>1. ASSUME NEW p \in reserved \cup {m.part}
              PROVE  p \in {t[j].part : j \in 1 .. Len(t)}
          BY <2>8, <3>1 DEF HasAlso
        <4>2. ASSUME NEW j \in 1 .. Len(t)
              PROVE  t[j].part \in reserved \cup {m.part}
          BY <2>8, <3>1 DEF HasAlso
        <4> QED
          BY <4>1, <4>2
      <3>3. \A j \in 1 .. Len(t) : Volumes[t[j].part].header = "fat32"
        BY <2>8, <3>1 DEF HasAlso
      <3> QED
        BY <2>2, <3>2, <3>3 DEF ReservedAreMounted
    <2> QED
      BY <2>9, <2>10, <2>11, <2>12 DEF MountInv
  <1> QED
    BY <1>1, <1>2

\* So does one that is refused.
LEMMA MountStep ==
    ASSUME MountInv, NEW path \in MountPaths, NEW part \in Parts, Mount(path, part)
    PROVE  MountInv'
  <1>1. PICK m : m = [path |-> path, part |-> part]
    OBVIOUS
  <1>2. m \in Mountpoint /\ m.path = path /\ m.part = part
    BY <1>1 DEF Mountpoint
  <1>3. CASE Volumes[part].header = "fat32" /\ (mountList # <<>> \/ path = <<Slash>>)
    <2>1. mountList' = AddMountpoint(m) /\ reserved' = reserved \cup {m.part}
      BY <1>1, <1>2, <1>3 DEF Mount
    <2> QED
      BY <1>2, <1>3, <2>1, AcceptedMount
  <1>4. CASE ~(Volumes[part].header = "fat32" /\ (mountList # <<>> \/ path = <<Slash>>))
    <2>1. mountList' = mountList /\ reserved' \in {reserved, reserved \ {part}}
      BY <1>4 DEF Mount
    <2>2. part \notin reserved
      <3>1. CASE mountList = <<>>
        BY <3>1 DEF MountInv, ReservedAreMounted
      <3>2. CASE Volumes[part].header # "fat32"
        BY <3>2 DEF MountInv, ReservedAreMounted
      <3> QED
        BY <1>4, <3>1, <3>2
    <2>3. reserved' = reserved
      BY <2>1, <2>2
    <2> QED
      BY <2>1, <2>3 DEF MountInv, MountTypes, Mountpoint, LongestFirst, RootLast,
                        ReservedAreMounted
  <1> QED
    BY <1>3, <1>4

\* The inductive invariant: the mount list is ordered, and the partitions that
\* are reserved are those of the list, all of them FAT32 volumes.
THEOREM MountInvariant == Spec => []MountInv
  <1>1. Init => MountInv
    BY EmptySeq DEF Init, MountInv, MountTypes, LongestFirst, RootLast,
                    ReservedAreMounted
  <1>2. MountInv /\ [Next]_vars => MountInv'
    <2> SUFFICES ASSUME MountInv, [Next]_vars PROVE MountInv'
      OBVIOUS
    <2>1. ASSUME UNCHANGED <<mountList, reserved>> PROVE MountInv'
      BY <2>1 DEF MountInv, MountTypes, Mountpoint, LongestFirst, RootLast,
                  ReservedAreMounted
    <2>2. CASE \E path \in MountPaths, part \in Parts : Mount(path, part)
      BY <2>2, MountStep
    <2>3. CASE \E path \in MountPaths : Unmount(path)
      BY <2>1, <2>3 DEF Unmount
    <2>4. CASE \E path \in Paths : Open(path) \/ List(path) \/ FileExists(path)
      BY <2>1, <2>4 DEF Open, List, FileExists
    <2>5. CASE \E size \in Sizes, offset \in Offsets : Read(size, offset)
      BY <2>1, <2>5 DEF Read
    <2>6. CASE Write \/ GetFreeSpace
      BY <2>1, <2>6 DEF Write, GetFreeSpace
    <2>7. CASE UNCHANGED vars
      BY <2>1, <2>7 DEF vars
    <2> QED
      BY <2>2, <2>3, <2>4, <2>5, <2>6, <2>7 DEF Next
  <1> QED
    BY <1>1, <1>2, PTL DEF Spec

\* add_mountpoint keeps the longest path first and the root last, and the
\* constructors and destructors of file systems leave exactly the mounted
\* partitions reserved, whatever is mounted and in whichever order.
THEOREM MountListIsOrdered == Spec => []MountListInOrder
  <1>1. MountInv => MountListInOrder
    <2> SUFFICES ASSUME MountInv PROVE MountListInOrder
      OBVIOUS
    <2>1. DOMAIN mountList = 1 .. Len(mountList)
      BY LenProperties DEF MountInv, MountTypes
    <2> QED
      BY <2>1 DEF MountInv, LongestFirst, RootLast, ReservedAreMounted,
                  MountListInOrder
  <1> QED
    BY <1>1, MountInvariant, PTL

\* What vfs.cpp takes the first mount point whose path fits for: no mount
\* point that fits has a longer path.
FirstIsLongest ==
    \A path \in Paths : \A i \in Matches(path) :
        Len(mountList[i].path) <= Len(MountOf(path).path)

\* open_file and read_directory stop at the first mount point that fits, and
\* that is the innermost one.
THEOREM InnermostMountServes == Spec => []FirstIsLongest
  <1>1. MountInv => FirstIsLongest
    <2> SUFFICES ASSUME MountInv, NEW path \in Paths, NEW i \in Matches(path)
                 PROVE  Len(mountList[i].path) <= Len(MountOf(path).path)
      BY DEF FirstIsLongest
    <2>1. DOMAIN mountList = 1 .. Len(mountList) /\ Len(mountList) \in Nat
      BY LenProperties DEF MountInv, MountTypes
    <2>2. PICK M : M = Matches(path)
      OBVIOUS
    <2>3. M \in SUBSET (1 .. Len(mountList)) /\ i \in M
      BY <2>1, <2>2 DEF Matches
    <2>4. Min(M) \in M /\ Min(M) <= i
      BY <2>1, <2>3, LeastNumber
    <2>5. PICK k : k = Min(M)
      OBVIOUS
    <2>6. k \in 1 .. Len(mountList) /\ i \in 1 .. Len(mountList) /\ k <= i
      BY <2>3, <2>4, <2>5
    <2>7. Len(mountList[i].path) \in Nat
      <3>1. mountList[i] \in Mountpoint
        BY <2>6, ElementOfSeq DEF MountInv, MountTypes
      <3> QED
        BY <3>1, MountPathsAssumption DEF Mountpoint
    <2>8. Len(mountList[i].path) <= Len(mountList[k].path)
      <3>1. CASE k = i
        BY <3>1, <2>7
      <3>2. CASE k < i
        BY <3>2, <2>6 DEF MountInv, LongestFirst
      <3> QED
        BY <3>1, <3>2, <2>6
    <2> QED
      BY <2>2, <2>5, <2>8 DEF MountOf
  <1> QED
    BY <1>1, MountInvariant, PTL

-----------------------------------------------------------------------------
\* t begins with s.
Begins(s, t) == Len(s) <= Len(t) /\ \A i \in 1 .. Len(s) : t[i] = s[i]

\* Sequences strung together are a sequence that begins with the first one.
LEMMA FlattenFacts ==
    ASSUME NEW S, NEW q \in Seq(Seq(S)), q # <<>>
    PROVE  FlattenSeq(q) \in Seq(S) /\ Begins(q[1], FlattenSeq(q))
<1>1. PICK n : n = Len(q)
  OBVIOUS
<1>2. n \in Nat /\ n >= 1 /\ \A i \in 1 .. n : q[i] \in Seq(S)
  BY <1>1, EmptySeq, ElementOfSeq
<1> DEFINE Body(a) == [i \in 1 .. n |-> IF i = 1 THEN q[i] ELSE a[i - 1] \o q[i]]
           f == CHOOSE a : a = Body(a)
           F == [i \in 1 .. n - 1 |-> [x \in Seq(S) |-> x \o q[i + 1]]]
<1>3. F \in [1 .. n - 1 -> [Seq(S) -> Seq(S)]]
  <2>1. \A i \in 1 .. n - 1 : \A x \in Seq(S) : x \o q[i + 1] \in Seq(S)
    BY <1>2
  <2> QED BY <2>1
<1>4. PICK g : /\ g \in [0 .. n - 1 -> Seq(S)] /\ g[0] = q[1]
               /\ \A i \in 1 .. n - 1 : g[i] = F[i][g[i - 1]]
  <2> HIDE DEF F
  <2>1. n - 1 \in Nat /\ q[1] \in Seq(S)
    BY <1>2
  <2>2. \E g : IsIteration(n - 1, Seq(S), q[1], F, g)
    BY <1>3, <2>1, IterationExists
  <2> QED BY <2>2 DEF IsIteration
<1>5. PICK h : h = [i \in 1 .. n |-> g[i - 1]]
  OBVIOUS
<1>6. h = Body(h)
  <2>1. ASSUME NEW i \in 1 .. n, i # 1 PROVE h[i] = h[i - 1] \o q[i]
    <3>1. PICK j : j = i - 1
      OBVIOUS
    <3>2. j \in 1 .. n - 1 /\ j - 1 \in 0 .. n - 1 /\ j + 1 = i /\ j \in 1 .. n
      BY <1>2, <2>1, <3>1
    <3>3. g[j - 1] \in Seq(S)
      BY <1>4, <3>2
    <3>4. g[j] = g[j - 1] \o q[j + 1]
      BY <1>4, <3>2, <3>3
    <3>5. h[i] = g[j] /\ h[j] = g[j - 1]
      BY <1>5, <3>1, <3>2
    <3> QED BY <3>1, <3>2, <3>4, <3>5
  <2>2. h[1] = q[1]
    BY <1>2, <1>4, <1>5
  <2> QED BY <2>1, <2>2, <1>5
<1>7. PICK k : k = f /\ k = Body(k)
  <2>1. f = Body(f)
    <3> HIDE DEF Body
    <3> QED BY <1>6
  <2> HIDE DEF f
  <2> QED BY <2>1
<1>8. FlattenSeq(q) = k[n]
  <2>1. FlattenSeq(q) = f[n]
    BY <1>1, <1>2 DEF FlattenSeq
  <2> HIDE DEF f
  <2> QED BY <2>1, <1>7
<1> HIDE DEF f, F
<1> DEFINE T == {i \in 0 .. n - 1 : k[i + 1] \in Seq(S) /\ Begins(q[1], k[i + 1])}
<1>9. 0 \in T
  <2>1. k[1] = q[1] /\ k[1] \in Seq(S)
    BY <1>2, <1>7
  <2>2. Len(k[1]) \in Nat
    BY <2>1
  <2> QED BY <1>2, <2>1, <2>2 DEF Begins
<1>10. ASSUME NEW i \in 0 .. (n - 1) - 1, i \in T PROVE i + 1 \in T
  <2>1. PICK a, b : a = k[i + 1] /\ b = q[i + 2]
    OBVIOUS
  <2>2. i + 2 \in 1 .. n /\ i + 2 # 1 /\ (i + 2) - 1 = i + 1 /\ (i + 1) + 1 = i + 2
    BY <1>2
  <2>3. a \in Seq(S) /\ b \in Seq(S) /\ Begins(q[1], a)
    BY <1>2, <1>10, <2>1, <2>2
  <2>4. k[i + 2] = a \o b
    BY <1>7, <2>1, <2>2
  <2>5. PICK c : c = a \o b
    OBVIOUS
  <2>6. /\ c \in Seq(S) /\ Len(c) = Len(a) + Len(b)
        /\ Len(a) \in Nat /\ Len(b) \in Nat /\ Len(q[1]) \in Nat
        /\ \A j \in 1 .. Len(a) : c[j] = a[j]
    <3>1. q[1] \in Seq(S)
      BY <1>2
    <3> QED BY <2>3, <2>5, <3>1, ConcatProperties, LenProperties
  <2>7. Begins(q[1], c)
    BY <2>3, <2>6 DEF Begins
  <2>8. i + 1 \in 0 .. n - 1 /\ k[(i + 1) + 1] = c
    BY <1>2, <2>2, <2>4, <2>5
  <2> QED BY <2>6, <2>7, <2>8
<1>11. \A i \in 0 .. n - 1 : i \in T
  <2>1. n - 1 \in Nat
    BY <1>2
  <2> HIDE DEF T
  <2> QED BY <2>1, <1>9, <1>10, IntervalInduction
<1>12. n - 1 \in T /\ (n - 1) + 1 = n
  <2>1. n - 1 \in 0 .. n - 1 /\ (n - 1) + 1 = n
    BY <1>2
  <2> HIDE DEF T
  <2> QED BY <2>1, <1>11
<1> QED BY <1>8, <1>12

\* A set of clusters that chains do not leave.
Closed(vol, D) ==
    /\ IsFiniteSet(DOMAIN vol.fat)
    /\ D \subseteq DOMAIN vol.fat
    /\ 0 \notin D
    /\ \A c \in D : vol.fat[c] \in D \cup {0}

\* The chain of a cluster begins with it and stays in such a set.
LEMMA ChainFacts ==
    ASSUME NEW vol, NEW D, Closed(vol, D), NEW c \in D
    PROVE  /\ Chain(vol, c) \in Seq(D) /\ Chain(vol, c) # <<>>
           /\ Chain(vol, c)[1] = c
<1> DEFINE G == D \cup {0}
           Link(x) == IF x = 0 THEN 0 ELSE vol.fat[x]
<1>1. PICK n : n = Cardinality(DOMAIN vol.fat)
  OBVIOUS
<1>2. n \in Nat /\ n >= 1
  <2>1. IsFiniteSet(DOMAIN vol.fat) /\ c \in DOMAIN vol.fat
    BY DEF Closed
  <2>2. n \in Nat /\ n # 0
    BY <1>1, <2>1, FS_CardinalityType, FS_EmptySet
  <2> QED BY <2>2
<1> DEFINE Body(a) == [i \in 0 .. n |-> IF i = 0 THEN c
                                        ELSE IF a[i - 1] = 0 THEN 0 ELSE vol.fat[a[i - 1]]]
           f == CHOOSE a : a = Body(a)
           F == [i \in 1 .. n |-> [x \in G |-> Link(x)]]
<1>3. F \in [1 .. n -> [G -> G]]
  <2>1. \A x \in G : Link(x) \in G
    BY DEF Closed
  <2> HIDE DEF Link, G
  <2> QED BY <2>1
<1>4. PICK g : /\ g \in [0 .. n -> G] /\ g[0] = c
               /\ \A i \in 1 .. n : g[i] = F[i][g[i - 1]]
  <2>1. c \in G
    OBVIOUS
  <2> HIDE DEF F, G
  <2>2. \E g : IsIteration(n, G, c, F, g)
    BY <1>2, <1>3, <2>1, IterationExists
  <2> QED BY <2>2 DEF IsIteration
<1>5. g = Body(g)
  <2>1. ASSUME NEW i \in 1 .. n PROVE g[i] = Link(g[i - 1])
    <3>1. i - 1 \in 0 .. n
      BY <1>2
    <3>2. g[i - 1] \in G
      BY <3>1, <1>4
    <3> HIDE DEF Link, G
    <3> QED BY <3>2, <1>4
  <2> QED BY <2>1, <1>2, <1>4
<1>6. PICK h : h = f /\ h = Body(h)
  <2>1. f = Body(f)
    <3> HIDE DEF Body
    <3> QED BY <1>5
  <2> HIDE DEF f
  <2> QED BY <2>1
<1> DEFINE N(a) == Min({i \in 0 .. n : a[i] = 0} \cup {n})
<1>7. Chain(vol, c) = [i \in 1 .. N(h) |-> h[i - 1]]
  <2>1. Chain(vol, c) = [i \in 1 .. N(f) |-> f[i - 1]]
    BY <1>1 DEF Chain
  <2> HIDE DEF f, N
  <2> QED BY <2>1, <1>6
<1> HIDE DEF f, F
<1>8. \A i \in 0 .. n : h[i] \in G
  <2> DEFINE T == {i \in 0 .. n : h[i] \in G}
  <2>1. 0 \in T
    BY <1>2, <1>6
  <2>2. ASSUME NEW i \in 0 .. n - 1, i \in T PROVE i + 1 \in T
    <3>1. i + 1 \in 0 .. n /\ i + 1 # 0 /\ (i + 1) - 1 = i
      BY <1>2
    <3>2. h[i + 1] = Link(h[i])
      <4>1. h[i + 1] = Body(h)[i + 1]
        <5> HIDE DEF Body
        <5> QED BY <1>6
      <4>2. Body(h)[i + 1] = Link(h[i])
        BY <3>1
      <4> HIDE DEF Body, Link
      <4> QED BY <4>1, <4>2
    <3>3. h[i] \in G
      BY <2>2
    <3>4. Link(h[i]) \in G
      BY <3>3 DEF Closed
    <3> QED BY <3>1, <3>2, <3>4
  <2>3. \A i \in 0 .. n : i \in T
    <3> HIDE DEF T
    <3> QED BY <1>2, <2>1, <2>2, IntervalInduction
  <2> QED BY <2>3
<1>9. PICK Z, m : Z = {i \in 0 .. n : h[i] = 0} \cup {n} /\ m = Min(Z)
  OBVIOUS
<1>10. m \in Z /\ \A i \in Z : m <= i
  <2>1. Z \in SUBSET Nat /\ Z # {}
    BY <1>2, <1>9
  <2> QED BY <1>9, <2>1, LeastNumber
<1>11. h[0] = c /\ c # 0
  BY <1>2, <1>6 DEF Closed
<1>12. m \in 1 .. n
  <2>1. 0 \notin Z
    BY <1>2, <1>9, <1>11
  <2> QED BY <1>2, <1>9, <1>10, <2>1
<1>13. \A i \in 1 .. m : h[i - 1] \in D
  <2> SUFFICES ASSUME NEW i \in 1 .. m PROVE h[i - 1] \in D
    OBVIOUS
  <2>1. i - 1 \in 0 .. n /\ i - 1 < m
    BY <1>2, <1>12
  <2>2. i - 1 \notin Z
    BY <1>10, <2>1, <1>12
  <2>3. h[i - 1] # 0
    BY <2>1, <2>2, <1>9
  <2> QED BY <2>1, <2>3, <1>8
<1>14. PICK s : s = [i \in 1 .. m |-> h[i - 1]]
  OBVIOUS
<1>15. Chain(vol, c) = s
  BY <1>7, <1>9, <1>14
<1>16. s \in Seq(D) /\ Len(s) = m
  <2>1. s \in [1 .. m -> D] /\ m \in Nat
    BY <1>12, <1>13, <1>14
  <2> QED BY <2>1, FunctionIsSeq
<1>17. s[1] = c /\ s # <<>>
  BY <1>11, <1>12, <1>14, <1>16
<1> QED BY <1>15, <1>16, <1>17

\* The raw entries of a directory begin with those of its first sector.
LEMMA RawFacts ==
    ASSUME NEW vol, WellFormed(vol), NEW c \in DOMAIN vol.dirs
    PROVE  /\ RawEntries(vol, c) \in Seq(Entry)
           /\ vol.dirs[c][1] \in Seq(Entry)
           /\ Begins(vol.dirs[c][1], RawEntries(vol, c))
<1>1. PICK D : D = DOMAIN vol.dirs
  OBVIOUS
<1>2. Closed(vol, D) /\ c \in D
  BY <1>1 DEF Closed, WellFormed
<1>3. PICK chain : chain = Chain(vol, c)
  OBVIOUS
<1>4. chain \in Seq(D) /\ chain # <<>> /\ chain[1] = c
  BY <1>2, <1>3, ChainFacts
<1>5. PICK n : n = Len(chain)
  OBVIOUS
<1>6. n \in Nat /\ n >= 1 /\ DOMAIN chain = 1 .. n /\ \A i \in 1 .. n : chain[i] \in D
  BY <1>4, <1>5, EmptySeq, LenProperties, ElementOfSeq
<1>7. PICK q : q = [i \in DOMAIN chain |-> vol.dirs[chain[i]]]
  OBVIOUS
<1>8. q \in Seq(Seq(Seq(Entry))) /\ Len(q) = n /\ q[1] = vol.dirs[c] /\ q # <<>>
  <2>1. \A x \in D : vol.dirs[x] \in Seq(Seq(Entry))
    BY <1>1 DEF WellFormed
  <2>2. q \in [1 .. n -> Seq(Seq(Entry))]
    BY <1>6, <1>7, <2>1
  <2>3. q \in Seq(Seq(Seq(Entry))) /\ Len(q) = n
    BY <1>6, <2>2, FunctionIsSeq
  <2>4. q # <<>>
    BY <1>6, <2>3
  <2>5. 1 \in DOMAIN chain
    BY <1>6
  <2>6. q[1] = vol.dirs[c]
    BY <1>4, <1>7, <2>5
  <2> QED BY <2>3, <2>4, <2>6
<1>9. PICK r : r = FlattenSeq(q)
  OBVIOUS
<1>10. r \in Seq(Seq(Entry)) /\ Begins(vol.dirs[c], r)
  BY <1>8, <1>9, FlattenFacts
<1>11. r # <<>> /\ r[1] = vol.dirs[c][1] /\ vol.dirs[c][1] \in Seq(Entry)
  <2>1. PICK e : e = vol.dirs[c]
    OBVIOUS
  <2>2. e \in Seq(Seq(Entry)) /\ e # <<>>
    BY <2>1 DEF WellFormed
  <2>3. Len(e) \in Nat /\ Len(e) >= 1
    BY <2>2
  <2>4. Len(r) >= 1 /\ r[1] = e[1] /\ e[1] \in Seq(Entry)
    BY <1>10, <2>1, <2>2, <2>3 DEF Begins
  <2> QED BY <1>10, <2>1, <2>4
<1>12. PICK z : z = FlattenSeq(r)
  OBVIOUS
<1>13. z \in Seq(Entry) /\ Begins(r[1], z)
  BY <1>10, <1>11, <1>12, FlattenFacts
<1>14. RawEntries(vol, c) = z
  BY <1>3, <1>7, <1>9, <1>12 DEF RawEntries
<1> QED BY <1>11, <1>13, <1>14

\* The long name that ends with an entry, from the entry and the one before.
LEMMA LongNamesFacts ==
    ASSUME NEW raw \in Seq(Entry)
    PROVE  /\ LongNames(raw)[0] = <<>>
           /\ \A i \in 1 .. Len(raw) :
                 LongNames(raw)[i] = IF raw[i].kind # "long" THEN <<>>
                                     ELSE raw[i].name \o LongNames(raw)[i - 1]
           /\ \A i \in 0 .. Len(raw) : LongNames(raw)[i] \in Seq(Chars)
<1>1. PICK n : n = Len(raw)
  OBVIOUS
<1>2. n \in Nat /\ \A i \in 1 .. n : raw[i] \in Entry
  BY <1>1, LenProperties, ElementOfSeq
<1>3. \A i \in 1 .. n : raw[i].name \in Seq(Chars)
  BY <1>2 DEF Entry
<1> DEFINE G == Seq(Chars)
           Put(i, x) == IF raw[i].kind # "long" THEN <<>> ELSE raw[i].name \o x
           Body(a) == [i \in 0 .. n |-> IF i = 0 THEN <<>> ELSE
                          IF raw[i].kind # "long" THEN <<>> ELSE raw[i].name \o a[i - 1]]
           f == CHOOSE a : a = Body(a)
           F == [i \in 1 .. n |-> [x \in G |-> Put(i, x)]]
<1>4. \A i \in 1 .. n : \A x \in G : Put(i, x) \in G
  BY <1>3
<1>5. F \in [1 .. n -> [G -> G]]
  <2> HIDE DEF Put, G
  <2> QED BY <1>4
<1>6. PICK g : /\ g \in [0 .. n -> G] /\ g[0] = <<>>
               /\ \A i \in 1 .. n : g[i] = F[i][g[i - 1]]
  <2>1. <<>> \in G
    OBVIOUS
  <2> HIDE DEF F, G
  <2>2. \E g : IsIteration(n, G, <<>>, F, g)
    BY <1>2, <1>5, <2>1, IterationExists
  <2> QED BY <2>2 DEF IsIteration
<1>7. g = Body(g)
  <2>1. ASSUME NEW i \in 1 .. n PROVE g[i] = Put(i, g[i - 1])
    <3>1. i - 1 \in 0 .. n
      BY <1>2
    <3>2. g[i - 1] \in G
      BY <3>1, <1>6
    <3> HIDE DEF Put, G
    <3> QED BY <3>2, <1>6
  <2>2. \A i \in 0 .. n : g[i] = Body(g)[i]
    <3> SUFFICES ASSUME NEW i \in 0 .. n PROVE g[i] = Body(g)[i]
      OBVIOUS
    <3>1. CASE i = 0
      BY <3>1, <1>6
    <3>2. CASE i # 0
      <4>1. i \in 1 .. n
        BY <1>2, <3>2
      <4> QED BY <2>1, <3>2, <4>1
    <3> QED BY <3>1, <3>2
  <2>3. DOMAIN g = 0 .. n /\ DOMAIN Body(g) = 0 .. n /\ g = [i \in 0 .. n |-> g[i]]
    BY <1>6
  <2>4. Body(g) = [i \in 0 .. n |-> Body(g)[i]]
    OBVIOUS
  <2> HIDE DEF Body
  <2> QED BY <2>2, <2>3, <2>4
<1>8. PICK h : h = f /\ h = Body(h)
  <2>1. f = Body(f)
    <3> HIDE DEF Body
    <3> QED BY <1>7
  <2> HIDE DEF f
  <2> QED BY <2>1
<1>9. LongNames(raw) = h
  <2>1. LongNames(raw) = f
    BY <1>1 DEF LongNames
  <2> HIDE DEF f
  <2> QED BY <2>1, <1>8
<1> HIDE DEF f, F
<1>10. h[0] = <<>> /\ \A i \in 1 .. n : h[i] = Put(i, h[i - 1])
  BY <1>2, <1>8
<1>11. \A i \in 0 .. n : h[i] \in G
  <2> DEFINE T == {i \in 0 .. n : h[i] \in G}
  <2>1. 0 \in T
    <3>1. h[0] \in G
      BY <1>10, EmptySeq
    <3> QED BY <1>2, <3>1
  <2>2. ASSUME NEW i \in 0 .. n - 1, i \in T PROVE i + 1 \in T
    <3>1. i + 1 \in 1 .. n /\ (i + 1) - 1 = i
      BY <1>2
    <3>2. h[i + 1] = Put(i + 1, h[i]) /\ h[i] \in G
      BY <1>10, <2>2, <3>1
    <3>3. h[i + 1] \in G
      <4> HIDE DEF Put, G
      <4> QED BY <1>4, <3>1, <3>2
    <3> QED BY <1>2, <3>1, <3>3
  <2>3. \A i \in 0 .. n : i \in T
    <3> HIDE DEF T
    <3> QED BY <1>2, <2>1, <2>2, IntervalInduction
  <2> QED BY <2>3
<1> QED BY <1>1, <1>9, <1>10, <1>11

-----------------------------------------------------------------------------
\* What a list of entries of a volume consists of.
ShortEntries(vol) ==
    {e \in Entry : /\ e.kind = "short"
                   /\ \/ e.cluster = 0
                      \/ /\ e.cluster \in DOMAIN vol.fat
                         /\ e.dir <=> e.cluster \in DOMAIN vol.dirs}
ScanState(vol) ==
    [list : Seq(ShortEntries(vol)), long : Seq(Chars), finished : BOOLEAN]

\* An entry of a directory, whatever kind it is of, keeps the scan a scan.
ScanStep(acc, e, new) ==
    /\ new.finished <=> e.kind = "end"
    /\ e.kind # "end" =>
         new.long = IF e.kind # "long" THEN <<>> ELSE e.name \o acc.long
    /\ e.kind # "short" => new.list = acc.list
    /\ e.kind = "short" =>
         new.list = Append(acc.list,
           [e EXCEPT !.name = IF acc.long = <<>> THEN e.name ELSE acc.long])
\* ScanEntry is such a step, whatever kind the entry is of.
LEMMA ScanEntryFacts ==
    ASSUME NEW vol, NEW acc \in ScanState(vol), NEW e \in Entry,
           e.kind = "short" => e \in ShortEntries(vol)
    PROVE  /\ ScanEntry(acc, e) \in ScanState(vol)
           /\ acc.finished => ScanEntry(acc, e) = acc
           /\ acc.finished \/ ScanStep(acc, e, ScanEntry(acc, e))
<1>1. /\ acc.list \in Seq(ShortEntries(vol)) /\ acc.long \in Seq(Chars)
      /\ acc.finished \in BOOLEAN
      /\ acc = [list |-> acc.list, long |-> acc.long, finished |-> acc.finished]
  BY DEF ScanState
<1>2. CASE acc.finished
  BY <1>2 DEF ScanEntry
<1>3. CASE ~acc.finished /\ e.kind = "deleted"
  <2>1. ScanEntry(acc, e) = [acc EXCEPT !.long = <<>>]
    BY <1>3 DEF ScanEntry
  <2>2. ScanEntry(acc, e) = [list |-> acc.list, long |-> <<>>, finished |-> acc.finished]
    BY <1>1, <2>1
  <2>3. <<>> \in Seq(Chars)
    BY EmptySeq
  <2>4. ScanEntry(acc, e) \in ScanState(vol)
    BY <1>1, <2>2, <2>3 DEF ScanState
  <2> QED BY <1>3, <2>2, <2>4 DEF ScanStep
<1>4. CASE ~acc.finished /\ e.kind = "end"
  <2>1. ScanEntry(acc, e) = [acc EXCEPT !.finished = TRUE]
    BY <1>4 DEF ScanEntry
  <2> QED BY <1>1, <1>4, <2>1 DEF ScanState, ScanStep
<1>5. CASE ~acc.finished /\ e.kind = "long"
  <2>1. ScanEntry(acc, e) = [acc EXCEPT !.long = e.name \o acc.long]
    BY <1>5 DEF ScanEntry
  <2>2. e.name \o acc.long \in Seq(Chars)
    BY <1>1 DEF Entry
  <2> QED BY <1>1, <1>5, <2>1, <2>2 DEF ScanState, ScanStep
<1>6. CASE ~acc.finished /\ e.kind = "short"
  <2>1. PICK name : name = IF acc.long = <<>> THEN e.name ELSE acc.long
    OBVIOUS
  <2>2. PICK d : d = [e EXCEPT !.name = name]
    OBVIOUS
  <2>3. ScanEntry(acc, e) = [acc EXCEPT !.long = <<>>, !.list = Append(acc.list, d)]
    BY <1>6, <2>1, <2>2 DEF ScanEntry
  <2>4. d \in ShortEntries(vol)
    <3>1. name \in Seq(Chars) /\ e \in ShortEntries(vol)
      BY <1>1, <1>6, <2>1 DEF Entry
    <3>2. d \in Entry /\ d.kind = e.kind /\ d.cluster = e.cluster /\ d.dir = e.dir
      BY <2>2, <3>1 DEF Entry
    <3> QED BY <3>1, <3>2 DEF ShortEntries
  <2>5. Append(acc.list, d) \in Seq(ShortEntries(vol))
    BY <1>1, <2>4
  <2>6. ScanEntry(acc, e) = [list |-> Append(acc.list, d), long |-> <<>>,
                             finished |-> acc.finished]
    <3>1. PICK x, y, z : x = Append(acc.list, d) /\ y = acc.list /\ z = acc.long
      OBVIOUS
    <3>2. PICK w : w = acc.finished
      OBVIOUS
    <3>3. acc = [list |-> y, long |-> z, finished |-> w]
      BY <1>1, <3>1, <3>2
    <3>4. PICK b : b = [acc EXCEPT !.long = <<>>]
      OBVIOUS
    <3>5. b = [list |-> y, long |-> <<>>, finished |-> w]
      BY <3>3, <3>4
    <3>6. [b EXCEPT !.list = x] = [list |-> x, long |-> <<>>, finished |-> w]
      BY <3>5
    <3>7. [acc EXCEPT !.long = <<>>, !.list = x]
             = [list |-> x, long |-> <<>>, finished |-> w]
      BY <3>4, <3>6
    <3> QED BY <2>3, <3>1, <3>2, <3>7
  <2>7. <<>> \in Seq(Chars)
    BY EmptySeq
  <2>8. ScanEntry(acc, e) \in ScanState(vol)
    BY <1>1, <2>5, <2>6, <2>7 DEF ScanState
  <2>9. /\ ScanEntry(acc, e).long = <<>> /\ ScanEntry(acc, e).finished = acc.finished
        /\ ScanEntry(acc, e).list = Append(acc.list, d)
    BY <2>6
  <2> QED BY <1>6, <2>1, <2>2, <2>8, <2>9 DEF ScanStep
<1>7. e.kind \in {"short", "long", "deleted", "end"}
  BY DEF Entry
<1> QED BY <1>1, <1>2, <1>3, <1>4, <1>5, <1>6, <1>7

\* The scan of a sector is one step for each entry.
IsScan(vol, s, h) ==
    /\ ScanSector(s) = h[Len(s)]
    /\ h[0] = NothingScanned
    /\ \A i \in 1 .. Len(s) : h[i] = ScanEntry(h[i - 1], s[i])
    /\ \A i \in 0 .. Len(s) : h[i] \in ScanState(vol)
\* There is such a scan of every sector.
LEMMA ScanExists ==
    ASSUME NEW vol, NEW s \in Seq(Entry),
           \A i \in 1 .. Len(s) : s[i].kind = "short" => s[i] \in ShortEntries(vol)
    PROVE  \E h : IsScan(vol, s, h)
<1>1. PICK n : n = Len(s)
  OBVIOUS
<1>2. n \in Nat /\ \A i \in 1 .. n : s[i] \in Entry
  BY <1>1, LenProperties, ElementOfSeq
<1>3. PICK G : G = ScanState(vol)
  OBVIOUS
<1>4. PICK start : start = NothingScanned
  OBVIOUS
<1>5. start \in G
  BY <1>3, <1>4 DEF NothingScanned, ScanState
<1> DEFINE Body(a) == [i \in 0 .. n |-> IF i = 0 THEN NothingScanned
                                        ELSE ScanEntry(a[i - 1], s[i])]
           f == CHOOSE a : a = Body(a)
           F == [i \in 1 .. n |-> [x \in G |-> ScanEntry(x, s[i])]]
<1>6. \A i \in 1 .. n : \A x \in G : ScanEntry(x, s[i]) \in G
  BY <1>1, <1>2, <1>3, ScanEntryFacts
<1>7. F \in [1 .. n -> [G -> G]]
  BY <1>6
<1>8. PICK g : /\ g \in [0 .. n -> G] /\ g[0] = start
               /\ \A i \in 1 .. n : g[i] = F[i][g[i - 1]]
  <2> HIDE DEF F
  <2>1. \E g : IsIteration(n, G, start, F, g)
    BY <1>2, <1>5, <1>7, IterationExists
  <2> QED BY <2>1 DEF IsIteration
<1>9. g = Body(g)
  <2>1. ASSUME NEW i \in 1 .. n PROVE g[i] = ScanEntry(g[i - 1], s[i])
    <3>1. i - 1 \in 0 .. n
      BY <1>2
    <3>2. g[i - 1] \in G
      BY <3>1, <1>8
    <3> QED BY <3>2, <1>8
  <2> QED BY <2>1, <1>2, <1>4, <1>8
<1>10. PICK h : h = f /\ h = Body(h)
  <2>1. f = Body(f)
    <3> HIDE DEF Body
    <3> QED BY <1>9
  <2> HIDE DEF f
  <2> QED BY <2>1
<1>11. ScanSector(s) = h[n]
  <2>1. ScanSector(s) = f[n]
    BY <1>1 DEF ScanSector
  <2> HIDE DEF f
  <2> QED BY <2>1, <1>10
<1> HIDE DEF f, F
<1>12. h[0] = start /\ \A i \in 1 .. n : h[i] = ScanEntry(h[i - 1], s[i])
  BY <1>2, <1>4, <1>10
<1>13. \A i \in 0 .. n : h[i] \in G
  <2> DEFINE T == {i \in 0 .. n : h[i] \in G}
  <2>1. 0 \in T
    BY <1>2, <1>5, <1>12
  <2>2. ASSUME NEW i \in 0 .. n - 1, i \in T PROVE i + 1 \in T
    <3>1. i + 1 \in 1 .. n /\ (i + 1) - 1 = i /\ i + 1 \in 0 .. n
      BY <1>2
    <3>2. h[i + 1] = ScanEntry(h[i], s[i + 1]) /\ h[i] \in G
      BY <1>12, <2>2, <3>1
    <3>3. h[i + 1] \in G
      BY <1>6, <3>1, <3>2
    <3> QED BY <3>1, <3>3
  <2>3. \A i \in 0 .. n : i \in T
    <3> HIDE DEF T
    <3> QED BY <1>2, <2>1, <2>2, IntervalInduction
  <2> QED BY <2>3
<1> QED BY <1>1, <1>3, <1>4, <1>11, <1>12, <1>13 DEF IsScan

\* The entries of a list are entries.
LEMMA ListFacts ==
    ASSUME NEW vol, NEW list \in Seq(ShortEntries(vol))
    PROVE  list # Null /\ list # Undefined
<1>1. list \in Seq(Entry)
  <2>1. ShortEntries(vol) \subseteq Entry
    BY DEF ShortEntries
  <2>2. Len(list) \in Nat /\ list \in [1 .. Len(list) -> Entry]
    BY <2>1, LenProperties
  <2> QED BY <2>2, IsASeq
<1> QED BY <1>1, AnswersAssumption

\* An entry is not one of the other answers.
LEMMA EntryFacts ==
    ASSUME NEW e \in Entry
    PROVE  e # Null /\ e # Undefined
BY AnswersAssumption

\* find_entry: the first entry with the name.
Holders(name, list) == {i \in DOMAIN list : list[i].name = name}
\* It is found if there is one.
LEMMA FindEntryFacts ==
    ASSUME NEW vol, NEW name, NEW list \in Seq(ShortEntries(vol))
    PROVE  /\ FindEntry(name, list) \in ShortEntries(vol) \cup {Null}
           /\ list = <<>> => FindEntry(name, list) = Null
           /\ FindEntry(name, list) = Null <=> Holders(name, list) = {}
           /\ Holders(name, list) # {} =>
                FindEntry(name, list) = list[Min(Holders(name, list))]
<1>0. PICK A : A = Holders(name, list)
  OBVIOUS
<1>1. A = {i \in DOMAIN list : list[i].name = name}
  BY <1>0 DEF Holders
<1>2. list # Null /\ list # Undefined
  BY ListFacts
<1>3. FindEntry(name, list) = IF A = {} THEN Null ELSE list[Min(A)]
  BY <1>1, <1>2 DEF FindEntry
<1>4. DOMAIN list = 1 .. Len(list) /\ Len(list) \in Nat
  OBVIOUS
<1>5. ASSUME A # {} PROVE Min(A) \in DOMAIN list /\ list[Min(A)] \in ShortEntries(vol)
  <2>1. A \in SUBSET Nat
    BY <1>1, <1>4
  <2>2. Min(A) \in A
    BY <1>5, <2>1, LeastNumber
  <2>3. Min(A) \in DOMAIN list
    BY <1>1, <2>2
  <2> QED BY <2>3, <1>4, ElementOfSeq
<1>6. \A e \in ShortEntries(vol) : e # Null
  BY EntryFacts DEF ShortEntries
<1>7. list = <<>> => A = {}
  BY <1>1
<1> QED BY <1>0, <1>3, <1>5, <1>6, <1>7

\* The least number, when a greater one is added to a set.
LEMMA MinStep ==
    ASSUME NEW k \in Nat, NEW A \in SUBSET (1 .. k)
    PROVE  Min(A \cup {k + 1}) = IF A = {} THEN k + 1 ELSE Min(A)
<1>1. PICK B, m : B = A \cup {k + 1} /\ m = Min(B)
  OBVIOUS
<1>2. m \in B /\ \A i \in B : m <= i
  <2>1. B \in SUBSET Nat /\ B # {}
    BY <1>1
  <2> QED BY <1>1, <2>1, LeastNumber
<1>3. CASE A = {}
  BY <1>1, <1>2, <1>3
<1>4. CASE A # {}
  <2>1. PICK n : n = Min(A)
    OBVIOUS
  <2>2. n \in A /\ \A i \in A : n <= i
    <3>1. A \in SUBSET Nat
      OBVIOUS
    <3> QED BY <1>4, <2>1, <3>1, LeastNumber
  <2>3. m \in Nat /\ n \in Nat /\ m <= n /\ n <= k
    <3>1. n \in 1 .. k /\ n \in B
      BY <1>1, <2>2
    <3>2. m <= n /\ m \in Nat
      BY <1>1, <1>2, <3>1
    <3> QED BY <3>1, <3>2
  <2>4. m \in A
    BY <1>1, <1>2, <2>3
  <2>5. n <= m
    BY <2>2, <2>4
  <2>6. m = n
    BY <2>3, <2>5
  <2> QED BY <1>1, <1>4, <2>1, <2>6
<1> QED BY <1>3, <1>4

\* The first entry with a name, when one more is appended to the list.
LEMMA FindEntryAppend ==
    ASSUME NEW vol, NEW name, NEW list \in Seq(ShortEntries(vol)),
           NEW d \in ShortEntries(vol)
    PROVE  FindEntry(name, Append(list, d)) =
             IF FindEntry(name, list) # Null THEN FindEntry(name, list)
             ELSE IF d.name = name THEN d ELSE Null
<1>1. PICK l : l = Append(list, d)
  OBVIOUS
<1>2. PICK n : n = Len(list)
  OBVIOUS
<1>3. /\ n \in Nat /\ DOMAIN list = 1 .. n /\ DOMAIN l = 1 .. n + 1
      /\ l \in Seq(ShortEntries(vol)) /\ l[n + 1] = d
      /\ \A i \in 1 .. n : l[i] = list[i]
  BY <1>1, <1>2, AppendProperties, LenProperties
<1>4. PICK A, B : A = Holders(name, list) /\ B = Holders(name, l)
  OBVIOUS
<1>5. /\ A \in SUBSET (1 .. n)
      /\ \A i : i \in B <=> i \in A \/ (i = n + 1 /\ d.name = name)
  BY <1>3, <1>4 DEF Holders
<1>6. CASE A # {}
  <2>1. B = A \/ B = A \cup {n + 1}
    BY <1>5
  <2>2. Min(B) = Min(A) /\ B # {}
    BY <1>3, <1>5, <1>6, <2>1, MinStep
  <2>3. Min(A) \in 1 .. n
    <3>1. A \in SUBSET Nat
      BY <1>5
    <3> QED BY <1>5, <1>6, <3>1, LeastNumber
  <2>4. FindEntry(name, list) # Null /\ FindEntry(name, l) # Null
    BY <1>3, <1>4, <1>6, <2>2, FindEntryFacts
  <2>5. FindEntry(name, list) = list[Min(A)] /\ FindEntry(name, l) = l[Min(B)]
    BY <1>3, <1>4, <1>6, <2>2, FindEntryFacts
  <2> QED BY <1>1, <1>3, <2>2, <2>3, <2>4, <2>5
<1>7. CASE A = {}
  <2>1. FindEntry(name, list) = Null
    BY <1>4, <1>7, FindEntryFacts
  <2>2. CASE d.name = name
    <3>1. B = A \cup {n + 1}
      BY <1>5, <2>2
    <3>2. Min(B) = n + 1 /\ B # {}
      BY <1>3, <1>5, <1>7, <3>1, MinStep
    <3>3. FindEntry(name, l) # Null
      BY <1>3, <1>4, <3>2, FindEntryFacts
    <3>4. FindEntry(name, l) = l[Min(B)]
      BY <1>3, <1>4, <3>2, FindEntryFacts
    <3> QED BY <1>1, <1>3, <2>1, <2>2, <3>2, <3>4
  <2>3. CASE d.name # name
    <3>1. B = {}
      BY <1>5, <1>7, <2>3
    <3>2. FindEntry(name, l) = Null
      BY <1>3, <1>4, <3>1, FindEntryFacts
    <3> QED BY <1>1, <2>1, <2>3, <3>2
  <2> QED BY <2>2, <2>3
<1> QED BY <1>6, <1>7

-----------------------------------------------------------------------------
\* The reference: the first entry in use with the name, among k and k + 1.
LEMMA FirstNamedFacts ==
    ASSUME NEW raw \in Seq(Entry), NEW name, NEW k \in 0 .. Len(raw)
    PROVE  /\ FirstNamed(raw, k, name) \in Entry \cup {Null}
           /\ FirstNamed(raw, k, name) = Null <=> Named(raw, k, name) = {}
           /\ k = 0 => FirstNamed(raw, k, name) = Null
<1>1. PICK A : A = Named(raw, k, name)
  OBVIOUS
<1>2. A \in SUBSET (1 .. k) /\ k \in Nat /\ (k = 0 => A = {})
  BY <1>1 DEF Named
<1>3. FirstNamed(raw, k, name) = IF A = {} THEN Null
                                 ELSE [raw[Min(A)] EXCEPT !.name = name]
  BY <1>1 DEF FirstNamed
<1>4. ASSUME A # {} PROVE [raw[Min(A)] EXCEPT !.name = name] \in Entry
  <2>1. PICK i : i = Min(A)
    OBVIOUS
  <2>2. i \in A
    <3>1. A \in SUBSET Nat
      BY <1>2
    <3> QED BY <1>4, <2>1, <3>1, LeastNumber
  <2>3. i \in 1 .. Len(raw) /\ i - 1 \in 0 .. Len(raw) /\ NameAt(raw, i) = name
    BY <1>1, <1>2, <2>2 DEF Named
  <2>4. raw[i] \in Entry
    BY <2>3, ElementOfSeq
  <2>5. LongNames(raw)[i - 1] \in Seq(Chars) /\ raw[i].name \in Seq(Chars)
    BY <2>3, <2>4, LongNamesFacts DEF Entry
  <2>6. name \in Seq(Chars)
    BY <2>3, <2>5 DEF NameAt
  <2>7. [raw[i] EXCEPT !.name = name] \in Entry
    BY <2>4, <2>6 DEF Entry
  <2> QED BY <2>1, <2>7
<1>5. \A e \in Entry : e # Null
  BY EntryFacts
<1> QED BY <1>1, <1>2, <1>3, <1>4, <1>5

\* The reference goes on in the same way.
LEMMA FirstNamedStep ==
    ASSUME NEW raw \in Seq(Entry), NEW name, NEW k \in 0 .. Len(raw) - 1
    PROVE  FirstNamed(raw, k + 1, name) =
             IF FirstNamed(raw, k, name) # Null THEN FirstNamed(raw, k, name)
             ELSE IF /\ raw[k + 1].kind = "short"
                     /\ \A j \in 1 .. k : raw[j].kind # "end"
                     /\ NameAt(raw, k + 1) = name
             THEN [raw[k + 1] EXCEPT !.name = name] ELSE Null
<1>1. PICK A, B : A = Named(raw, k, name) /\ B = Named(raw, k + 1, name)
  OBVIOUS
<1> DEFINE P == /\ raw[k + 1].kind = "short"
                /\ \A j \in 1 .. k : raw[j].kind # "end"
                /\ NameAt(raw, k + 1) = name
<1>2. /\ A \in SUBSET (1 .. k) /\ k \in Nat /\ Len(raw) \in Nat
      /\ \A i : i \in B <=> i \in A \/ (i = k + 1 /\ P)
  <2>1. k \in Nat /\ Len(raw) \in Nat /\ (k + 1) - 1 = k
    BY LenProperties
  <2>2. A \in SUBSET (1 .. k)
    BY <1>1 DEF Named
  <2>3. \A i : i \in 1 .. k + 1 <=> i \in 1 .. k \/ i = k + 1
    BY <2>1
  <2> QED BY <1>1, <2>1, <2>2, <2>3 DEF Named
<1>3. /\ FirstNamed(raw, k, name) = IF A = {} THEN Null
                                    ELSE [raw[Min(A)] EXCEPT !.name = name]
      /\ FirstNamed(raw, k + 1, name) = IF B = {} THEN Null
                                    ELSE [raw[Min(B)] EXCEPT !.name = name]
  BY <1>1 DEF FirstNamed
<1>4. FirstNamed(raw, k, name) = Null <=> A = {}
  BY <1>1, <1>2, FirstNamedFacts
<1>5. CASE A # {}
  <2>1. B = A \/ B = A \cup {k + 1}
    <3> HIDE DEF P
    <3> QED BY <1>2
  <2>2. Min(B) = Min(A) /\ B # {}
    BY <1>2, <1>5, <2>1, MinStep
  <2> QED BY <1>3, <1>4, <1>5, <2>2
<1>6. CASE A = {} /\ P
  <2> HIDE DEF P
  <2>1. B = A \cup {k + 1}
    BY <1>2, <1>6
  <2>2. Min(B) = k + 1 /\ B # {}
    BY <1>2, <1>6, <2>1, MinStep
  <2> QED BY <1>3, <1>4, <1>6, <2>2 DEF P
<1>7. CASE A = {} /\ ~P
  <2> HIDE DEF P
  <2>1. B = {}
    BY <1>2, <1>7
  <2> QED BY <1>3, <1>4, <1>7, <2>1 DEF P
<1> QED BY <1>5, <1>6, <1>7

\* Nothing behind the end is in use.
LEMMA FirstNamedEnd ==
    ASSUME NEW raw \in Seq(Entry), NEW name, NEW k \in 0 .. Len(raw),
           \E j \in 1 .. k : raw[j].kind = "end"
    PROVE  FirstNamed(raw, Len(raw), name) = FirstNamed(raw, k, name)
<1>1. PICK j \in 1 .. k : raw[j].kind = "end"
  OBVIOUS
<1>2. k \in Nat /\ Len(raw) \in Nat /\ k <= Len(raw)
  BY LenProperties
<1>3. \A i \in 1 .. Len(raw) : i > k => j \in 1 .. i - 1
  BY <1>1, <1>2
<1>4. Named(raw, Len(raw), name) = Named(raw, k, name)
  <2>1. \A i : i \in 1 .. k => i \in 1 .. Len(raw)
    BY <1>2
  <2>2. \A i \in Named(raw, Len(raw), name) : i \in 1 .. k
    <3> SUFFICES ASSUME NEW i \in Named(raw, Len(raw), name), i > k PROVE FALSE
      BY <1>2 DEF Named
    <3>1. i \in 1 .. Len(raw) /\ \A m \in 1 .. i - 1 : raw[m].kind # "end"
      BY DEF Named
    <3> QED BY <3>1, <1>1, <1>3
  <2> QED BY <2>1, <2>2 DEF Named
<1> QED BY <1>4 DEF FirstNamed

\* After k entries of the sector: whether the end has been met, the long name
\* that is being put together, and which entry a name has.
ScanInv(raw, name, h, k) ==
    /\ h[k].finished <=> \E j \in 1 .. k : raw[j].kind = "end"
    /\ ~h[k].finished => h[k].long = LongNames(raw)[k]
    /\ FindEntry(name, h[k].list) = FirstNamed(raw, k, name)

\* One more entry keeps it.
LEMMA ScanInvStep ==
    ASSUME NEW vol, NEW raw \in Seq(Entry), NEW name, NEW h,
           NEW k \in 0 .. Len(raw) - 1,
           h[k] \in ScanState(vol), h[k + 1] = ScanEntry(h[k], raw[k + 1]),
           raw[k + 1].kind = "short" => raw[k + 1] \in ShortEntries(vol),
           ScanInv(raw, name, h, k)
    PROVE  ScanInv(raw, name, h, k + 1)
<1>1. PICK acc, e, new : acc = h[k] /\ e = raw[k + 1] /\ new = h[k + 1]
  OBVIOUS
<1>2. PICK l : l = LongNames(raw)
  OBVIOUS
<1>3. /\ k \in Nat /\ k + 1 \in 1 .. Len(raw) /\ (k + 1) - 1 = k
      /\ \A j : j \in 1 .. k + 1 <=> j \in 1 .. k \/ j = k + 1
  BY LenProperties
<1>4. e \in Entry /\ e.kind \in {"short", "long", "deleted", "end"}
  <2>1. e \in Entry
    BY <1>1, <1>3, ElementOfSeq
  <2> QED BY <2>1 DEF Entry
<1>5. acc \in ScanState(vol) /\ new = ScanEntry(acc, e)
      /\ (e.kind = "short" => e \in ShortEntries(vol))
  BY <1>1
<1>6. l[k + 1] = IF e.kind # "long" THEN <<>> ELSE e.name \o l[k]
  BY <1>1, <1>2, <1>3, LongNamesFacts
<1>7. /\ acc.finished <=> \E j \in 1 .. k : raw[j].kind = "end"
      /\ ~acc.finished => acc.long = l[k]
      /\ FindEntry(name, acc.list) = FirstNamed(raw, k, name)
  BY <1>1, <1>2 DEF ScanInv
<1>8. acc.finished \in BOOLEAN /\ acc.list \in Seq(ShortEntries(vol))
  BY <1>5 DEF ScanState
<1> DEFINE P == /\ raw[k + 1].kind = "short"
                /\ \A j \in 1 .. k : raw[j].kind # "end"
                /\ NameAt(raw, k + 1) = name
<1>9. FirstNamed(raw, k + 1, name) =
             IF FirstNamed(raw, k, name) # Null THEN FirstNamed(raw, k, name)
             ELSE IF P THEN [raw[k + 1] EXCEPT !.name = name] ELSE Null
  BY FirstNamedStep
<1> SUFFICES /\ new.finished <=> \E j \in 1 .. k + 1 : raw[j].kind = "end"
             /\ ~new.finished => new.long = l[k + 1]
             /\ FindEntry(name, new.list) = FirstNamed(raw, k + 1, name)
  BY <1>1, <1>2 DEF ScanInv
<1>10. ASSUME ~P PROVE FirstNamed(raw, k + 1, name) = FirstNamed(raw, k, name)
  <2> HIDE DEF P
  <2> QED BY <1>9, <1>10
<1>11. CASE acc.finished
  <2>1. new = acc
    BY <1>4, <1>5, <1>11, ScanEntryFacts
  <2>2. ~P
    BY <1>7, <1>11
  <2> QED BY <1>3, <1>7, <1>10, <1>11, <2>1, <2>2
<1>12. CASE ~acc.finished
  <2>0. /\ new.finished <=> e.kind = "end"
        /\ e.kind # "end" =>
             new.long = IF e.kind # "long" THEN <<>> ELSE e.name \o acc.long
        /\ e.kind # "short" => new.list = acc.list
        /\ e.kind = "short" =>
             new.list = Append(acc.list,
               [e EXCEPT !.name = IF acc.long = <<>> THEN e.name ELSE acc.long])
    <3>1. acc.finished \/ ScanStep(acc, e, new)
      BY <1>4, <1>5, ScanEntryFacts
    <3>2. ScanStep(acc, e, new)
      BY <1>12, <3>1
    <3> QED BY <3>2 DEF ScanStep
  <2>1. /\ new.finished <=> e.kind = "end"
        /\ e.kind # "end" => new.long = IF e.kind # "long" THEN <<>>
                                        ELSE e.name \o acc.long
    BY <2>0
  <2>2. new.finished <=> \E j \in 1 .. k + 1 : raw[j].kind = "end"
    BY <1>1, <1>3, <1>7, <1>12, <2>1
  <2>3. ~new.finished => new.long = l[k + 1]
    BY <1>6, <1>7, <1>12, <2>1
  <2>4. CASE e.kind # "short"
    <3>1. new.list = acc.list
      BY <2>0, <2>4
    <3>2. ~P
      BY <1>1, <2>4
    <3> QED BY <1>7, <1>10, <2>2, <2>3, <3>1, <3>2
  <2>5. CASE e.kind = "short"
    <3>1. PICK nm : nm = IF acc.long = <<>> THEN e.name ELSE acc.long
      OBVIOUS
    <3>2. PICK d : d = [e EXCEPT !.name = nm]
      OBVIOUS
    <3>3. new.list = Append(acc.list, d)
      BY <2>0, <2>5, <3>1, <3>2
    <3>4. nm = NameAt(raw, k + 1)
      BY <1>1, <1>2, <1>3, <1>7, <1>12, <3>1 DEF NameAt
    <3>5. P <=> nm = name
      BY <1>1, <1>7, <1>12, <2>5, <3>4
    <3>6. nm \in Seq(Chars)
      BY <1>4, <1>5, <3>1 DEF ScanState, Entry
    <3>7. d \in ShortEntries(vol) /\ d.name = nm
      <4>1. /\ d \in Entry /\ d.kind = e.kind /\ d.cluster = e.cluster
            /\ d.dir = e.dir /\ d.name = nm
        BY <1>4, <3>2, <3>6 DEF Entry
      <4> QED BY <1>5, <2>5, <4>1 DEF ShortEntries
    <3>8. FindEntry(name, new.list) =
             IF FindEntry(name, acc.list) # Null THEN FindEntry(name, acc.list)
             ELSE IF d.name = name THEN d ELSE Null
      BY <1>8, <3>3, <3>7, FindEntryAppend
    <3>9. P => d = [raw[k + 1] EXCEPT !.name = name]
      BY <1>1, <3>2, <3>5
    <3>10. FindEntry(name, new.list) = FirstNamed(raw, k + 1, name)
      <4> HIDE DEF P
      <4> QED BY <1>7, <1>9, <3>5, <3>7, <3>8, <3>9
    <3> QED BY <2>2, <2>3, <3>10
  <2> QED BY <2>4, <2>5
<1> QED BY <1>8, <1>11, <1>12

\* What the scan of the first sector of a directory finds.
LEMMA ScanFinds ==
    ASSUME NEW vol, WellFormed(vol), NEW c \in DOMAIN vol.dirs, NEW name
    PROVE  /\ ScanSector(vol.dirs[c][1]) \in ScanState(vol)
           /\ ScanSector(vol.dirs[c][1]).finished <=> Small(vol, c)
           /\ FindEntry(name, ScanSector(vol.dirs[c][1]).list)
                = FirstNamed(RawEntries(vol, c), Len(vol.dirs[c][1]), name)
           /\ Small(vol, c) =>
                FindEntry(name, ScanSector(vol.dirs[c][1]).list) = Lookup(vol, c, name)
<1>1. PICK s, raw : s = vol.dirs[c][1] /\ raw = RawEntries(vol, c)
  OBVIOUS
<1>2. s \in Seq(Entry) /\ raw \in Seq(Entry) /\ Begins(s, raw)
  BY <1>1, RawFacts
<1>3. PICK n : n = Len(s)
  OBVIOUS
<1>4. /\ n \in Nat /\ n <= Len(raw) /\ Len(raw) \in Nat /\ DOMAIN s = 1 .. n
      /\ \A i \in 1 .. n : raw[i] = s[i]
  BY <1>2, <1>3, LenProperties DEF Begins
<1>5. \A i \in 1 .. n : s[i].kind = "short" => s[i] \in ShortEntries(vol)
  <2> SUFFICES ASSUME NEW i \in 1 .. n, s[i].kind = "short"
               PROVE  s[i] \in ShortEntries(vol)
    OBVIOUS
  <2>1. s[i] \in Entry
    BY <1>2, <1>3, ElementOfSeq
  <2>2. 1 \in DOMAIN vol.dirs[c]
    <3>1. PICK e : e = vol.dirs[c]
      OBVIOUS
    <3>2. e \in Seq(Seq(Entry)) /\ e # <<>>
      BY <3>1 DEF WellFormed
    <3>3. 1 \in DOMAIN e
      BY <3>2
    <3> QED BY <3>1, <3>3
  <2>3. \/ s[i].cluster = 0
        \/ /\ s[i].cluster \in DOMAIN vol.fat
           /\ s[i].dir <=> s[i].cluster \in DOMAIN vol.dirs
    BY <1>1, <1>4, <2>2 DEF WellFormed
  <2> QED BY <2>1, <2>3 DEF ShortEntries
<1>6. PICK h : IsScan(vol, s, h)
  BY <1>2, <1>3, <1>5, ScanExists
<1>7. /\ ScanSector(s) = h[n] /\ h[0] = NothingScanned
      /\ \A i \in 1 .. n : h[i] = ScanEntry(h[i - 1], s[i])
      /\ \A i \in 0 .. n : h[i] \in ScanState(vol)
  BY <1>3, <1>6 DEF IsScan
<1> DEFINE T == {i \in 0 .. n : ScanInv(raw, name, h, i)}
<1>8. 0 \in T
  <2>1. h[0].list = <<>> /\ h[0].long = <<>> /\ h[0].finished = FALSE
    BY <1>7 DEF NothingScanned
  <2>2. <<>> \in Seq(ShortEntries(vol))
    BY EmptySeq
  <2>3. FindEntry(name, <<>>) = Null
    BY <2>2, FindEntryFacts
  <2>4. FirstNamed(raw, 0, name) = Null
    BY <1>2, <1>4, FirstNamedFacts
  <2>5. LongNames(raw)[0] = <<>>
    BY <1>2, LongNamesFacts
  <2>6. ScanInv(raw, name, h, 0)
    BY <2>1, <2>3, <2>4, <2>5 DEF ScanInv
  <2> QED BY <1>4, <2>6
<1>9. ASSUME NEW i \in 0 .. n - 1, i \in T PROVE i + 1 \in T
  <2>1. i \in 0 .. Len(raw) - 1 /\ i \in 0 .. n /\ i + 1 \in 1 .. n /\ (i + 1) - 1 = i
        /\ i + 1 \in 0 .. n
    BY <1>4
  <2>2. /\ h[i] \in ScanState(vol) /\ h[i + 1] = ScanEntry(h[i], raw[i + 1])
        /\ raw[i + 1].kind = "short" => raw[i + 1] \in ShortEntries(vol)
        /\ ScanInv(raw, name, h, i)
    BY <1>4, <1>5, <1>7, <1>9, <2>1
  <2>3. ScanInv(raw, name, h, i + 1)
    BY <1>2, <2>1, <2>2, ScanInvStep
  <2> QED BY <2>1, <2>3
<1>10. \A i \in 0 .. n : i \in T
  <2> HIDE DEF T
  <2> QED BY <1>4, <1>8, <1>9, IntervalInduction
<1>11. ScanInv(raw, name, h, n)
  BY <1>4, <1>10
<1>12. ScanSector(s).finished <=> Small(vol, c)
  BY <1>1, <1>4, <1>7, <1>11 DEF ScanInv, Small
<1>13. FindEntry(name, ScanSector(s).list) = FirstNamed(raw, n, name)
  BY <1>7, <1>11 DEF ScanInv
<1>14. Small(vol, c) => FirstNamed(raw, n, name) = Lookup(vol, c, name)
  <2> SUFFICES ASSUME Small(vol, c) PROVE FirstNamed(raw, n, name) = Lookup(vol, c, name)
    OBVIOUS
  <2>1. \E j \in 1 .. n : raw[j].kind = "end"
    BY <1>1, <1>4 DEF Small
  <2>2. FirstNamed(raw, Len(raw), name) = FirstNamed(raw, n, name)
    BY <1>2, <1>4, <2>1, FirstNamedEnd
  <2> QED BY <1>1, <2>2 DEF Lookup
<1>15. h[n] \in ScanState(vol)
  BY <1>4, <1>7
<1> QED BY <1>1, <1>3, <1>7, <1>12, <1>13, <1>14, <1>15

\* A listing, and what a name leads to in it.
LEMMA ReadDirectoryAtFacts ==
    ASSUME NEW vol, WellFormed(vol), NEW c
    PROVE  /\ ReadDirectoryAt(vol, c) \in Seq(ShortEntries(vol)) \cup {Null, Undefined}
           /\ ReadDirectoryAt(vol, c) = Undefined <=> c \notin DOMAIN vol.dirs
           /\ ReadDirectoryAt(vol, c) \notin {Null, Undefined} =>
                /\ Small(vol, c)
                /\ \A name : FindEntry(name, ReadDirectoryAt(vol, c)) = Lookup(vol, c, name)
           /\ ReadDirectoryAt(vol, c) = Null /\ Small(vol, c) =>
                \A name : Lookup(vol, c, name) = Null
<1>1. CASE c \notin DOMAIN vol.dirs
  BY <1>1, AnswersAssumption DEF ReadDirectoryAt
<1>2. CASE c \in DOMAIN vol.dirs
  <2>1. PICK scan : scan = ScanSector(vol.dirs[c][1])
    OBVIOUS
  <2>2. /\ scan \in ScanState(vol) /\ (scan.finished <=> Small(vol, c))
        /\ \A name : Small(vol, c) => FindEntry(name, scan.list) = Lookup(vol, c, name)
    BY <1>2, <2>1, ScanFinds
  <2>3. scan.list \in Seq(ShortEntries(vol)) /\ scan.finished \in BOOLEAN
    BY <2>2 DEF ScanState
  <2>4. scan.list # Null /\ scan.list # Undefined
    BY <2>3, ListFacts
  <2>5. ReadDirectoryAt(vol, c) =
           IF scan.list = <<>> \/ ~scan.finished THEN Null ELSE scan.list
    BY <1>2, <2>1 DEF ReadDirectoryAt, NextCluster, ReadBlockAnswer
  <2>6. scan.list = <<>> => \A name : FindEntry(name, scan.list) = Null
    BY <2>3, FindEntryFacts
  <2>7. CASE scan.list = <<>> \/ ~scan.finished
    BY <1>2, <2>2, <2>5, <2>6, <2>7, AnswersAssumption
  <2>8. CASE ~(scan.list = <<>> \/ ~scan.finished)
    BY <1>2, <2>2, <2>3, <2>4, <2>5, <2>8
  <2> QED BY <2>7, <2>8
<1> QED BY <1>1, <1>2

\* Entries of a directory; those in use lead to a cluster, or to cluster 0.
DirEntries(vol) == {e \in Entry : e.kind = "short" => e \in ShortEntries(vol)}

\* All raw entries of a directory are such entries.
LEMMA RawEntriesType ==
    ASSUME NEW vol, WellFormed(vol), NEW c \in DOMAIN vol.dirs
    PROVE  RawEntries(vol, c) \in Seq(DirEntries(vol))
<1>1. PICK D, S : D = DOMAIN vol.dirs /\ S = DirEntries(vol)
  OBVIOUS
<1>2. Closed(vol, D) /\ c \in D
  BY <1>1 DEF Closed, WellFormed
<1>3. PICK chain : chain = Chain(vol, c)
  OBVIOUS
<1>4. chain \in Seq(D) /\ chain # <<>>
  BY <1>2, <1>3, ChainFacts
<1>5. PICK n : n = Len(chain)
  OBVIOUS
<1>6. n \in Nat /\ n >= 1 /\ DOMAIN chain = 1 .. n /\ \A i \in 1 .. n : chain[i] \in D
  BY <1>4, <1>5, EmptySeq, LenProperties, ElementOfSeq
<1>7. PICK q : q = [i \in DOMAIN chain |-> vol.dirs[chain[i]]]
  OBVIOUS
<1>8. ASSUME NEW x \in D PROVE vol.dirs[x] \in Seq(Seq(S))
  <2>1. PICK e : e = vol.dirs[x]
    OBVIOUS
  <2>2. /\ e \in Seq(Seq(Entry))
        /\ \A i \in DOMAIN e : \A j \in DOMAIN e[i] : e[i][j].kind = "short" =>
              \/ e[i][j].cluster = 0
              \/ /\ e[i][j].cluster \in DOMAIN vol.fat
                 /\ e[i][j].dir <=> e[i][j].cluster \in DOMAIN vol.dirs
    BY <1>1, <1>8, <2>1 DEF WellFormed
  <2>3. ASSUME NEW i \in 1 .. Len(e) PROVE e[i] \in Seq(S)
    <3>1. PICK s : s = e[i]
      OBVIOUS
    <3>2. s \in Seq(Entry) /\ i \in DOMAIN e
      BY <2>2, <2>3, <3>1, ElementOfSeq, LenProperties
    <3>3. Len(s) \in Nat /\ DOMAIN s = 1 .. Len(s) /\ s = [j \in 1 .. Len(s) |-> s[j]]
      BY <3>2, LenProperties
    <3>4. ASSUME NEW j \in 1 .. Len(s) PROVE s[j] \in S
      <4>1. s[j] \in Entry
        BY <3>2, ElementOfSeq
      <4>2. s[j].kind = "short" =>
               \/ s[j].cluster = 0
               \/ /\ s[j].cluster \in DOMAIN vol.fat
                  /\ s[j].dir <=> s[j].cluster \in DOMAIN vol.dirs
        BY <2>2, <3>1, <3>2, <3>3
      <4> QED BY <1>1, <4>1, <4>2 DEF DirEntries, ShortEntries
    <3>5. s \in [1 .. Len(s) -> S]
      BY <3>3, <3>4
    <3> QED BY <3>1, <3>3, <3>5, IsASeq
  <2>4. Len(e) \in Nat /\ e = [i \in 1 .. Len(e) |-> e[i]]
    BY <2>2, LenProperties
  <2>5. e \in [1 .. Len(e) -> Seq(S)]
    BY <2>3, <2>4
  <2> QED BY <2>1, <2>4, <2>5, IsASeq
<1>9. q \in Seq(Seq(Seq(S))) /\ Len(q) = n /\ q # <<>>
  <2>1. q \in [1 .. n -> Seq(Seq(S))]
    BY <1>6, <1>7, <1>8
  <2>2. q \in Seq(Seq(Seq(S))) /\ Len(q) = n
    BY <1>6, <2>1, FunctionIsSeq
  <2>3. q # <<>>
    BY <1>6, <2>2
  <2> QED BY <2>2, <2>3
<1>10. q[1] = vol.dirs[c]
  <2>1. 1 \in DOMAIN chain /\ chain[1] = c
    BY <1>2, <1>3, <1>6, ChainFacts
  <2> QED BY <1>7, <2>1
<1>11. PICK r : r = FlattenSeq(q)
  OBVIOUS
<1>12. r \in Seq(Seq(S)) /\ Begins(vol.dirs[c], r)
  BY <1>9, <1>10, <1>11, FlattenFacts
<1>13. r # <<>>
  <2>1. PICK e : e = vol.dirs[c]
    OBVIOUS
  <2>2. e \in Seq(Seq(Entry)) /\ e # <<>>
    BY <2>1 DEF WellFormed
  <2>3. Len(e) \in Nat /\ Len(e) >= 1
    BY <2>2
  <2>4. Len(r) >= 1 /\ Len(r) \in Nat
    BY <1>12, <2>1, <2>3, LenProperties DEF Begins
  <2> QED BY <1>12, <2>4
<1>14. FlattenSeq(r) \in Seq(S)
  BY <1>12, <1>13, FlattenFacts
<1> QED BY <1>1, <1>3, <1>7, <1>11, <1>14 DEF RawEntries

\* What a name leads to in a directory.
LEMMA LookupType ==
    ASSUME NEW vol, WellFormed(vol), NEW c \in DOMAIN vol.dirs, NEW name
    PROVE  Lookup(vol, c, name) \in ShortEntries(vol) \cup {Null}
<1>1. PICK raw : raw = RawEntries(vol, c)
  OBVIOUS
<1>2. raw \in Seq(DirEntries(vol)) /\ raw \in Seq(Entry)
  BY <1>1, RawEntriesType, RawFacts
<1>3. PICK n : n = Len(raw)
  OBVIOUS
<1>4. n \in Nat
  BY <1>2, <1>3
<1>5. PICK A : A = Named(raw, n, name)
  OBVIOUS
<1>6. Lookup(vol, c, name) = FirstNamed(raw, n, name)
  BY <1>1, <1>3 DEF Lookup
<1>7. FirstNamed(raw, n, name) \in Entry \cup {Null}
  BY <1>2, <1>3, <1>4, FirstNamedFacts
<1>8. FirstNamed(raw, n, name) = IF A = {} THEN Null ELSE [raw[Min(A)] EXCEPT !.name = name]
  BY <1>5 DEF FirstNamed
<1>9. CASE A = {}
  BY <1>6, <1>8, <1>9
<1>10. CASE A # {}
  <2>1. PICK i : i = Min(A)
    OBVIOUS
  <2>2. i \in A
    <3>1. A \in SUBSET Nat
      BY <1>4, <1>5 DEF Named
    <3> QED BY <1>10, <2>1, <3>1, LeastNumber
  <2>3. i \in 1 .. n /\ raw[i].kind = "short"
    BY <1>5, <2>2 DEF Named
  <2>4. raw[i] \in DirEntries(vol)
    BY <1>2, <1>3, <2>3, ElementOfSeq
  <2>5. raw[i] \in ShortEntries(vol) /\ raw[i] \in Entry
    BY <2>3, <2>4 DEF DirEntries
  <2>6. PICK d : d = [raw[i] EXCEPT !.name = name]
    OBVIOUS
  <2>7. Lookup(vol, c, name) = d
    BY <1>6, <1>8, <1>10, <2>1, <2>6
  <2>8. /\ d # Null
        /\ d.kind = raw[i].kind /\ d.cluster = raw[i].cluster /\ d.dir = raw[i].dir
    <3>1. FirstNamed(raw, n, name) # Null
      BY <1>2, <1>3, <1>4, <1>5, <1>10, FirstNamedFacts
    <3> QED BY <1>6, <2>5, <2>6, <2>7, <3>1 DEF Entry
  <2>9. d \in Entry
    BY <1>6, <1>7, <2>7, <2>8
  <2> QED BY <2>5, <2>7, <2>8, <2>9 DEF ShortEntries
<1> QED BY <1>9, <1>10

-----------------------------------------------------------------------------
\* The entries along a path.
TargetSet(vol) == ShortEntries(vol) \cup {Null}
IsTargets(vol, names, at) ==
    /\ at[0] = RootEntry
    /\ \A i \in 1 .. Len(names) :
          at[i] = IF at[i - 1] = Null THEN Null
                  ELSE IF ~at[i - 1].dir THEN Null
                  ELSE Lookup(vol, FirstCluster(at[i - 1]), names[i])
    /\ \A i \in 0 .. Len(names) : at[i] \in TargetSet(vol)

\* The root is an entry in use.
LEMMA RootIsAnEntry ==
    ASSUME NEW vol, WellFormed(vol)
    PROVE  RootEntry \in ShortEntries(vol)
<1>1. Root \in Nat /\ Root \in DOMAIN vol.fat /\ Root \in DOMAIN vol.dirs
  BY DEF WellFormed, Root
<1>2. <<>> \in Seq(Chars)
  BY EmptySeq
<1>3. RootEntry \in Entry
  BY <1>1, <1>2 DEF RootEntry, Entry
<1> QED BY <1>1, <1>3 DEF RootEntry, ShortEntries

\* An entry on the way leads to a cluster, a directory to one with entries;
\* cluster 0 is none of them.
LEMMA TargetFacts ==
    ASSUME NEW vol, WellFormed(vol), NEW e \in TargetSet(vol), e # Null
    PROVE  /\ e.dir \in BOOLEAN
           /\ 0 \notin DOMAIN vol.dirs
           /\ e.cluster # 0 => /\ FirstCluster(e) = e.cluster
                               /\ e.dir <=> e.cluster \in DOMAIN vol.dirs
           /\ e.dir => FirstCluster(e) \in DOMAIN vol.dirs
<1>1. Root \in DOMAIN vol.dirs /\ 0 \notin DOMAIN vol.dirs
  BY DEF WellFormed
<1>2. /\ e.dir \in BOOLEAN
      /\ e.cluster # 0 => (e.dir <=> e.cluster \in DOMAIN vol.dirs)
  BY DEF TargetSet, ShortEntries, Entry
<1> QED BY <1>1, <1>2 DEF FirstCluster

\* Targets is what its definition says, entry after entry.
LEMMA TargetsFacts ==
    ASSUME NEW vol, WellFormed(vol), NEW names, Len(names) \in Nat
    PROVE  IsTargets(vol, names, Targets(vol, names))
<1>1. PICK n, G : n = Len(names) /\ G = TargetSet(vol)
  OBVIOUS
<1> DEFINE Put(i, x) == IF x = Null THEN Null ELSE IF ~x.dir THEN Null
                        ELSE Lookup(vol, FirstCluster(x), names[i])
           Body(a) == [i \in 0 .. n |-> IF i = 0 THEN RootEntry
                         ELSE IF a[i - 1] = Null THEN Null
                         ELSE IF ~a[i - 1].dir THEN Null
                         ELSE Lookup(vol, FirstCluster(a[i - 1]), names[i])]
           f == CHOOSE a : a = Body(a)
           F == [i \in 1 .. n |-> [x \in G |-> Put(i, x)]]
<1>2. n \in Nat /\ RootEntry \in G /\ Null \in G
  BY <1>1, RootIsAnEntry DEF TargetSet
<1>3. \A i \in 1 .. n : \A x \in G : Put(i, x) \in G
  <2> SUFFICES ASSUME NEW i \in 1 .. n, NEW x \in G PROVE Put(i, x) \in G
    OBVIOUS
  <2>1. CASE x = Null \/ ~x.dir
    BY <1>2, <2>1
  <2>2. CASE x # Null /\ x.dir
    <3>1. FirstCluster(x) \in DOMAIN vol.dirs
      BY <1>1, <2>2, TargetFacts
    <3>2. Lookup(vol, FirstCluster(x), names[i]) \in ShortEntries(vol) \cup {Null}
      BY <3>1, LookupType
    <3> QED BY <1>1, <2>2, <3>2 DEF TargetSet
  <2> QED BY <2>1, <2>2
<1>4. F \in [1 .. n -> [G -> G]]
  <2> HIDE DEF Put
  <2> QED BY <1>3
<1>5. PICK g : /\ g \in [0 .. n -> G] /\ g[0] = RootEntry
               /\ \A i \in 1 .. n : g[i] = F[i][g[i - 1]]
  <2> HIDE DEF F
  <2>1. \E g : IsIteration(n, G, RootEntry, F, g)
    BY <1>2, <1>4, IterationExists
  <2> QED BY <2>1 DEF IsIteration
<1>6. g = Body(g)
  <2>1. ASSUME NEW i \in 1 .. n PROVE g[i] = Put(i, g[i - 1])
    <3>1. i - 1 \in 0 .. n
      BY <1>2
    <3>2. g[i - 1] \in G
      BY <3>1, <1>5
    <3> HIDE DEF Put
    <3> QED BY <3>2, <1>5
  <2>2. \A i \in 0 .. n : g[i] = Body(g)[i]
    <3> SUFFICES ASSUME NEW i \in 0 .. n PROVE g[i] = Body(g)[i]
      OBVIOUS
    <3>1. CASE i = 0
      BY <3>1, <1>5
    <3>2. CASE i # 0
      <4>1. i \in 1 .. n
        BY <1>2, <3>2
      <4> QED BY <2>1, <3>2, <4>1
    <3> QED BY <3>1, <3>2
  <2>3. DOMAIN Body(g) = 0 .. n /\ g = [i \in 0 .. n |-> g[i]]
    BY <1>5
  <2>4. Body(g) = [i \in 0 .. n |-> Body(g)[i]]
    OBVIOUS
  <2> HIDE DEF Body
  <2> QED BY <2>2, <2>3, <2>4
<1>7. PICK h : h = f /\ h = Body(h)
  <2>1. f = Body(f)
    <3> HIDE DEF Body
    <3> QED BY <1>6
  <2> HIDE DEF f
  <2> QED BY <2>1
<1>8. Targets(vol, names) = h
  <2>1. Targets(vol, names) = f
    BY <1>1 DEF Targets
  <2> HIDE DEF f
  <2> QED BY <2>1, <1>7
<1> HIDE DEF f, F
<1>9. h[0] = RootEntry /\ \A i \in 1 .. n : h[i] = Put(i, h[i - 1])
  <2>1. 0 \in 0 .. n /\ \A i \in 1 .. n : i \in 0 .. n /\ i # 0
    BY <1>2
  <2>2. h[0] = Body(h)[0] /\ \A i \in 1 .. n : h[i] = Body(h)[i]
    <3> HIDE DEF Body
    <3> QED BY <1>7
  <2>3. Body(h)[0] = RootEntry
    BY <2>1
  <2>4. ASSUME NEW i \in 1 .. n PROVE Body(h)[i] = Put(i, h[i - 1])
    BY <2>1
  <2> HIDE DEF Body, Put
  <2> QED BY <2>2, <2>3, <2>4
<1>10. \A i \in 0 .. n : h[i] \in G
  <2> DEFINE T == {i \in 0 .. n : h[i] \in G}
  <2>1. 0 \in T
    BY <1>2, <1>9
  <2>2. ASSUME NEW i \in 0 .. n - 1, i \in T PROVE i + 1 \in T
    <3>1. i + 1 \in 1 .. n /\ (i + 1) - 1 = i
      BY <1>2
    <3>2. h[i + 1] = Put(i + 1, h[i]) /\ h[i] \in G
      BY <1>9, <2>2, <3>1
    <3>3. h[i + 1] \in G
      <4> HIDE DEF Put
      <4> QED BY <1>3, <3>1, <3>2
    <3> QED BY <1>2, <3>1, <3>3
  <2>3. \A i \in 0 .. n : i \in T
    <3> HIDE DEF T
    <3> QED BY <1>2, <2>1, <2>2, IntervalInduction
  <2> QED BY <2>3
<1> QED BY <1>1, <1>8, <1>9, <1>10 DEF IsTargets

\* Where nothing is found, nothing is found behind it.
LEMMA NothingBehind ==
    ASSUME NEW vol, NEW names, NEW at, IsTargets(vol, names, at),
           Len(names) \in Nat, NEW k \in 0 .. Len(names), at[k] = Null
    PROVE  at[Len(names)] = Null
<1>1. PICK n : n = Len(names) - k
  OBVIOUS
<1> DEFINE T == {i \in 0 .. n : at[k + i] = Null}
<1>2. n \in Nat /\ k + n = Len(names) /\ k \in Nat
  BY <1>1
<1>3. 0 \in T
  BY <1>2
<1>4. ASSUME NEW i \in 0 .. n - 1, i \in T PROVE i + 1 \in T
  <2>1. PICK j : j = k + (i + 1)
    OBVIOUS
  <2>2. j \in 1 .. Len(names) /\ j - 1 = k + i /\ i + 1 \in 0 .. n
    BY <1>2, <2>1
  <2>3. at[j] = Null
    BY <1>4, <2>2 DEF IsTargets
  <2> QED BY <2>1, <2>2, <2>3
<1>5. \A i \in 0 .. n : i \in T
  <2> HIDE DEF T
  <2> QED BY <1>2, <1>3, <1>4, IntervalInduction
<1> QED BY <1>2, <1>5

\* A set of numbers up to n has a greatest element.
LEMMA GreatestNumber ==
    ASSUME NEW n \in Nat, NEW S \in SUBSET (0 .. n), S # {}
    PROVE  Max(S) \in S /\ \A i \in S : i <= Max(S)
<1>1. PICK A, m : A = {i \in Nat : n - i \in S} /\ m = Min(A)
  OBVIOUS
<1>2. m \in A /\ \A i \in A : m <= i
  <2>1. A \in SUBSET Nat
    BY <1>1
  <2>2. PICK i \in S : TRUE
    OBVIOUS
  <2>3. n - i \in Nat /\ n - (n - i) = i
    OBVIOUS
  <2>4. n - i \in A
    BY <1>1, <2>3
  <2> QED BY <1>1, <2>1, <2>4, LeastNumber
<1>3. PICK x : x = n - m
  OBVIOUS
<1>4. x \in S /\ m \in Nat
  BY <1>1, <1>2, <1>3
<1>5. \A i \in S : x >= i
  <2> SUFFICES ASSUME NEW i \in S PROVE x >= i
    OBVIOUS
  <2>1. n - i \in Nat /\ n - (n - i) = i
    OBVIOUS
  <2>2. m <= n - i
    BY <1>1, <1>2, <2>1
  <2> QED BY <1>3, <1>4, <2>2
<1>6. PICK y : y = Max(S)
  OBVIOUS
<1>7. y \in S /\ \A i \in S : y >= i
  BY <1>4, <1>5, <1>6 DEF Max
<1>8. \A i \in S : i <= y
  BY <1>7
<1> QED BY <1>6, <1>7, <1>8

\* kstring(string, 0, end) and kstring(string, start, length).
LEMMA SubstringHead ==
    ASSUME NEW S, NEW s \in Seq(S), NEW e \in 0 .. Len(s)
    PROVE  Substring(s, 0, e) = SubSeq(s, 1, e)
<1>1. Len(s) \in Nat /\ DOMAIN s = 1 .. Len(s)
  BY LenProperties
<1>2. ~(0 + e > Len(s)) /\ e - 0 = e /\ e \in Nat
  BY <1>1
<1>3. Substring(s, 0, e) = [i \in 1 .. e |-> s[0 + i]]
  BY <1>2 DEF Substring
<1>4. PICK t : t = [i \in 1 .. e |-> s[0 + i]]
  OBVIOUS
<1>5. t \in Seq(S) /\ Len(t) = e
  <2>1. \A i \in 1 .. e : s[0 + i] \in S
    BY <1>1, <1>2, ElementOfSeq
  <2>2. t \in [1 .. e -> S]
    BY <1>4, <2>1
  <2> QED BY <1>2, <2>2, FunctionIsSeq
<1>6. /\ SubSeq(s, 1, e) \in Seq(S) /\ Len(SubSeq(s, 1, e)) = e
      /\ \A i \in 1 .. e : SubSeq(s, 1, e)[i] = s[i]
  BY <1>1, <1>2, SubSeqProperties
<1>7. \A i \in 1 .. Len(t) : t[i] = SubSeq(s, 1, e)[i]
  BY <1>4, <1>5, <1>6
<1>8. t = SubSeq(s, 1, e)
  BY <1>5, <1>6, <1>7, SeqEqual
<1> QED BY <1>3, <1>4, <1>8

\* The rest of a string.
LEMMA SubstringTail ==
    ASSUME NEW S, NEW s \in Seq(S), NEW a \in 1 .. Len(s)
    PROVE  Substring(s, a, Len(s)) = SubSeq(s, a + 1, Len(s))
<1>1. PICK n : n = Len(s)
  OBVIOUS
<1>2. n \in Nat /\ DOMAIN s = 1 .. n /\ a \in 1 .. n /\ a + n > n /\ n - a \in Nat
  BY <1>1, LenProperties
<1>3. Substring(s, a, n) = [i \in 1 .. n - a |-> s[a + i]]
  BY <1>1, <1>2 DEF Substring
<1>4. PICK t, m : t = [i \in 1 .. m |-> s[a + i]] /\ m = n - a
  OBVIOUS
<1>5. t \in Seq(S) /\ Len(t) = m
  <2>1. \A i \in 1 .. m : s[a + i] \in S
    BY <1>1, <1>2, <1>4, ElementOfSeq
  <2>2. t \in [1 .. m -> S]
    BY <1>4, <2>1
  <2> QED BY <1>2, <1>4, <2>2, FunctionIsSeq
<1>6. PICK u : u = SubSeq(s, a + 1, n)
  OBVIOUS
<1>7. u \in Seq(S) /\ Len(u) = m /\ \A i \in 1 .. m : u[i] = s[a + i]
  <2>1. a + 1 \in 1 .. Len(s) + 1 /\ n \in (a + 1) - 1 .. Len(s)
        /\ n - (a + 1) + 1 = m /\ \A i \in 1 .. m : (a + 1) + i - 1 = a + i
    BY <1>1, <1>2, <1>4
  <2> QED BY <1>6, <2>1, SubSeqProperties
<1>8. t = u
  BY <1>4, <1>5, <1>7, SeqEqual
<1> QED BY <1>1, <1>3, <1>4, <1>6, <1>8

\* A piece of a piece.
LEMMA PieceOfPiece ==
    ASSUME NEW S, NEW s \in Seq(S), NEW a \in 1 .. Len(s) + 1, NEW b \in a - 1 .. Len(s),
           NEW i \in 1 .. b - a + 2, NEW j \in i - 1 .. b - a + 1
    PROVE  SubSeq(SubSeq(s, a, b), i, j) = SubSeq(s, a + i - 1, a + j - 1)
<1>1. Len(s) \in Nat /\ a \in Nat /\ b \in Nat /\ i \in Nat /\ j \in Nat
  BY LenProperties
<1>2. PICK t, m, u, v : t = SubSeq(s, a, b) /\ m = b - a + 1
                   /\ u = SubSeq(t, i, j) /\ v = SubSeq(s, a + i - 1, a + j - 1)
  OBVIOUS
<1>3. t \in Seq(S) /\ Len(t) = m /\ \A k \in 1 .. m : t[k] = s[a + k - 1]
  BY <1>2, SubSeqProperties
<1>4. /\ u \in Seq(S) /\ Len(u) = j - i + 1
      /\ \A k \in 1 .. j - i + 1 : u[k] = t[i + k - 1]
  <2>1. i \in 1 .. Len(t) + 1 /\ j \in i - 1 .. Len(t)
    BY <1>1, <1>2, <1>3
  <2> QED BY <1>2, <1>3, <2>1, SubSeqProperties
<1>5. PICK c, d : c = a + i - 1 /\ d = a + j - 1
  OBVIOUS
<1>6. /\ v \in Seq(S) /\ Len(v) = d - c + 1 /\ \A k \in 1 .. d - c + 1 : v[k] = s[c + k - 1]
  <2>1. c \in 1 .. Len(s) + 1 /\ d \in c - 1 .. Len(s) /\ v = SubSeq(s, c, d)
    BY <1>1, <1>2, <1>5
  <2> QED BY <2>1, SubSeqProperties
<1>7. d - c + 1 = j - i + 1
  BY <1>1, <1>5
<1>8. ASSUME NEW k \in 1 .. j - i + 1 PROVE u[k] = v[k]
  <2>1. i + k - 1 \in 1 .. m /\ a + (i + k - 1) - 1 = c + k - 1
    BY <1>1, <1>2, <1>5
  <2>2. t[i + k - 1] = s[c + k - 1]
    BY <1>3, <2>1
  <2> QED BY <1>4, <1>6, <1>7, <2>2
<1>9. u = v
  BY <1>4, <1>6, <1>7, <1>8, SeqEqual
<1> QED BY <1>2, <1>9

\* Where the slashes are.
LEMMA SlashesFacts ==
    ASSUME NEW s \in Seq(Chars)
    PROVE  /\ Slashes(s) \in SUBSET Nat
           /\ \A i : i \in Slashes(s) <=> i \in 0 .. Len(s) - 1 /\ s[i + 1] = Slash
<1>1. Len(s) \in Nat /\ DOMAIN s = 1 .. Len(s)
  BY LenProperties
<1>2. ASSUME NEW i \in Slashes(s) PROVE i \in 0 .. Len(s) - 1 /\ s[i + 1] = Slash
  <2>1. PICK j \in DOMAIN s : s[j] = Slash /\ i = j - 1
    BY DEF Slashes
  <2>2. j \in 1 .. Len(s) /\ i + 1 = j
    BY <1>1, <2>1
  <2> QED BY <1>1, <2>1, <2>2
<1>3. ASSUME NEW i \in 0 .. Len(s) - 1, s[i + 1] = Slash PROVE i \in Slashes(s)
  <2>1. i + 1 \in DOMAIN s /\ (i + 1) - 1 = i
    BY <1>1
  <2> QED BY <1>3, <2>1 DEF Slashes
<1> QED BY <1>1, <1>2, <1>3

\* The next slash behind a position, or the end of the path.
NextCut(path, j) ==
    Min({k \in j + 1 .. Len(path) : path[k] = Slash} \cup {Len(path) + 1})
\* It is the first one behind the position.
LEMMA NextCutFacts ==
    ASSUME NEW path \in Seq(Chars), NEW j \in 1 .. Len(path) + 1
    PROVE  /\ NextCut(path, j) \in 1 .. Len(path) + 1
           /\ j <= Len(path) => NextCut(path, j) > j
           /\ j = Len(path) + 1 => NextCut(path, j) = j
           /\ NextCut(path, j) <= Len(path) => path[NextCut(path, j)] = Slash
           /\ \A k \in j + 1 .. NextCut(path, j) - 1 : path[k] # Slash
<1>1. PICK n : n = Len(path)
  OBVIOUS
<1>2. n \in Nat /\ j \in Nat
  BY <1>1, LenProperties
<1>3. PICK A, m : /\ A = {k \in j + 1 .. n : path[k] = Slash} \cup {n + 1}
                  /\ m = Min(A)
  OBVIOUS
<1>4. m \in A /\ \A i \in A : m <= i
  <2>1. A \in SUBSET Nat /\ A # {}
    BY <1>2, <1>3
  <2> QED BY <1>3, <2>1, LeastNumber
<1>5. m \in Nat /\ m <= n + 1
  BY <1>2, <1>3, <1>4
<1>6. NextCut(path, j) = m
  BY <1>1, <1>3 DEF NextCut
<1>7. (m \in j + 1 .. n /\ path[m] = Slash) \/ m = n + 1
  BY <1>3, <1>4
<1>8. ASSUME NEW k \in j + 1 .. m - 1 PROVE path[k] # Slash
  <2>1. k \in j + 1 .. n /\ k < m /\ k \in Nat
    BY <1>2, <1>5
  <2>2. k \notin A
    BY <1>4, <1>5, <2>1
  <2> QED BY <1>3, <2>1, <2>2
<1>9. m \in 1 .. n + 1 /\ (j <= n => m > j) /\ (j = n + 1 => m = j)
      /\ (m <= n => path[m] = Slash)
  BY <1>1, <1>2, <1>5, <1>7
<1> QED BY <1>1, <1>6, <1>8, <1>9

\* The positions of the slashes of an absolute path, and its end.
IsCut(path, n, cut) ==
    /\ n \in Nat \ {0} /\ cut[0] = 1 /\ cut[n] = Len(path) + 1
    /\ \A i \in 0 .. n : cut[i] \in i + 1 .. Len(path) + 1
    /\ \A i \in 0 .. n - 1 :
          /\ cut[i] <= Len(path) /\ path[cut[i]] = Slash /\ cut[i] < cut[i + 1]
          /\ \A j \in cut[i] + 1 .. cut[i + 1] - 1 : path[j] # Slash
    /\ Components(path) = [i \in 1 .. n |-> SubSeq(path, cut[i - 1] + 1, cut[i] - 1)]

\* Every absolute path has them, and they part its components.
LEMMA ComponentsFacts ==
    ASSUME NEW path \in Seq(Chars), path # <<>>, path[1] = Slash
    PROVE  \E n, cut : IsCut(path, n, cut)
<1>1. PICK L, G : L = Len(path) /\ G = 1 .. L + 1
  OBVIOUS
<1>2. L \in Nat /\ L >= 1 /\ 1 \in G
  BY <1>1, EmptySeq, LenProperties
<1> DEFINE Body(a) == [i \in 0 .. L |-> IF i = 0 THEN 1 ELSE NextCut(path, a[i - 1])]
           f == CHOOSE a : a = Body(a)
           F == [i \in 1 .. L |-> [x \in G |-> NextCut(path, x)]]
<1>3. \A x \in G : NextCut(path, x) \in G
  BY <1>1, NextCutFacts
<1>4. F \in [1 .. L -> [G -> G]]
  BY <1>3
<1>5. PICK g : /\ g \in [0 .. L -> G] /\ g[0] = 1
               /\ \A i \in 1 .. L : g[i] = F[i][g[i - 1]]
  <2> HIDE DEF F
  <2>1. \E g : IsIteration(L, G, 1, F, g)
    BY <1>2, <1>4, IterationExists
  <2> QED BY <2>1 DEF IsIteration
<1>6. g = Body(g)
  <2>1. ASSUME NEW i \in 1 .. L PROVE g[i] = NextCut(path, g[i - 1])
    <3>1. i - 1 \in 0 .. L
      BY <1>2
    <3>2. g[i - 1] \in G
      BY <3>1, <1>5
    <3> QED BY <3>2, <1>5
  <2> QED BY <2>1, <1>2, <1>5
<1>7. PICK h : h = f /\ h = Body(h)
  <2>1. f = Body(f)
    <3> HIDE DEF Body
    <3> QED BY <1>6
  <2> HIDE DEF f
  <2> QED BY <2>1
<1> DEFINE N(a) == Min({i \in 0 .. L : a[i] = L + 1})
<1>8. Components(path) = [i \in 1 .. N(h) |-> SubSeq(path, h[i - 1] + 1, h[i] - 1)]
  <2>1. Components(path) = [i \in 1 .. N(f) |-> SubSeq(path, f[i - 1] + 1, f[i] - 1)]
    BY <1>1 DEF Components, NextCut
  <2> HIDE DEF f, N
  <2> QED BY <2>1, <1>7
<1> HIDE DEF f, F
<1>9. h[0] = 1 /\ \A i \in 1 .. L : h[i] = NextCut(path, h[i - 1])
  <2>1. 0 \in 0 .. L /\ \A i \in 1 .. L : i \in 0 .. L /\ i # 0
    BY <1>2
  <2>2. h[0] = Body(h)[0] /\ \A i \in 1 .. L : h[i] = Body(h)[i]
    <3> HIDE DEF Body
    <3> QED BY <1>7
  <2>3. Body(h)[0] = 1 /\ \A i \in 1 .. L : Body(h)[i] = NextCut(path, h[i - 1])
    BY <2>1
  <2> HIDE DEF Body
  <2> QED BY <2>2, <2>3
<1> DEFINE T == {i \in 0 .. L : h[i] \in i + 1 .. L + 1}
<1>10. 0 \in T
  BY <1>2, <1>9
<1>11. ASSUME NEW i \in 0 .. L - 1, i \in T PROVE i + 1 \in T
  <2>1. i + 1 \in 1 .. L /\ (i + 1) - 1 = i /\ i + 1 \in 0 .. L /\ i \in Nat
    BY <1>2
  <2>2. PICK x, y : x = h[i] /\ y = h[i + 1]
    OBVIOUS
  <2>3. x \in i + 1 .. L + 1 /\ y = NextCut(path, x)
    BY <1>9, <1>11, <2>1, <2>2
  <2>4. x \in 1 .. L + 1
    BY <1>2, <2>1, <2>3
  <2>5. y \in 1 .. L + 1 /\ (x <= L => y > x) /\ (x = L + 1 => y = x)
    BY <1>1, <2>3, <2>4, NextCutFacts
  <2>6. y \in (i + 1) + 1 .. L + 1
    BY <1>2, <2>1, <2>3, <2>5
  <2> QED BY <2>1, <2>2, <2>6
<1>12. \A i \in 0 .. L : h[i] \in i + 1 .. L + 1
  <2>1. \A i \in 0 .. L : i \in T
    <3> HIDE DEF T
    <3> QED BY <1>2, <1>10, <1>11, IntervalInduction
  <2> QED BY <2>1
<1>13. PICK Z, n : Z = {i \in 0 .. L : h[i] = L + 1} /\ n = Min(Z)
  OBVIOUS
<1>14. n \in Z /\ \A i \in Z : n <= i
  <2>1. Z \in SUBSET Nat
    BY <1>2, <1>13
  <2>2. L \in 0 .. L
    BY <1>2
  <2>3. h[L] = L + 1
    BY <1>2, <1>12, <2>2
  <2>4. L \in Z
    BY <1>13, <2>2, <2>3
  <2> QED BY <1>13, <2>1, <2>4, LeastNumber
<1>15. n \in 1 .. L /\ h[n] = L + 1
  <2>1. n \in 0 .. L /\ h[n] = L + 1
    BY <1>13, <1>14
  <2>2. n # 0
    BY <1>2, <1>9, <2>1
  <2> QED BY <1>2, <2>1, <2>2
<1>16. ASSUME NEW i \in 0 .. n - 1
       PROVE  /\ h[i] <= L /\ h[i] < h[i + 1] /\ path[h[i]] = Slash
              /\ \A j \in h[i] + 1 .. h[i + 1] - 1 : path[j] # Slash
  <2>1. i \in 0 .. L /\ i + 1 \in 1 .. L /\ (i + 1) - 1 = i /\ i < n
    BY <1>2, <1>15
  <2>2. h[i] # L + 1
    BY <1>13, <1>14, <1>15, <2>1
  <2>3. h[i] \in 1 .. L
    BY <1>2, <1>12, <2>1, <2>2
  <2>4. h[i] \in 1 .. Len(path) + 1 /\ h[i] <= Len(path)
    BY <1>1, <1>2, <2>3
  <2>5. h[i + 1] = NextCut(path, h[i])
    BY <1>9, <2>1
  <2>6. h[i] < h[i + 1] /\ \A j \in h[i] + 1 .. h[i + 1] - 1 : path[j] # Slash
    <3>1. PICK x, y : x = h[i] /\ y = h[i + 1]
      OBVIOUS
    <3>2. x \in 1 .. Len(path) + 1 /\ x <= Len(path) /\ y = NextCut(path, x)
      BY <2>4, <2>5, <3>1
    <3>3. y > x /\ y \in 1 .. Len(path) + 1 /\ \A j \in x + 1 .. y - 1 : path[j] # Slash
      BY <3>2, NextCutFacts
    <3>4. x < y
      BY <3>2, <3>3
    <3> QED BY <3>1, <3>3, <3>4
  <2>7. path[h[i]] = Slash
    <3>1. CASE i = 0
      BY <1>9, <3>1
    <3>2. CASE i # 0
      <4>1. i \in 1 .. L /\ i - 1 \in 0 .. L
        BY <1>2, <2>1, <3>2
      <4>2. h[i - 1] \in 1 .. Len(path) + 1 /\ h[i] = NextCut(path, h[i - 1])
        BY <1>1, <1>2, <1>9, <1>12, <4>1
      <4>3. PICK x, y : x = h[i - 1] /\ y = h[i]
        OBVIOUS
      <4>4. x \in 1 .. Len(path) + 1 /\ y = NextCut(path, x) /\ y <= Len(path)
        BY <2>4, <4>2, <4>3
      <4>5. path[y] = Slash
        BY <4>4, NextCutFacts
      <4> QED BY <4>3, <4>5
    <3> QED BY <3>1, <3>2
  <2> QED BY <2>3, <2>6, <2>7
<1>17. \A i \in 0 .. n : h[i] \in i + 1 .. L + 1
  <2>1. \A i \in 0 .. n : i \in 0 .. L
    BY <1>2, <1>15
  <2> QED BY <1>12, <2>1
<1>18. Components(path) = [i \in 1 .. n |-> SubSeq(path, h[i - 1] + 1, h[i] - 1)]
  BY <1>8, <1>13
<1>19. n \in Nat \ {0}
  BY <1>2, <1>15
<1>20. IsCut(path, n, h)
  BY <1>1, <1>9, <1>15, <1>16, <1>17, <1>18, <1>19 DEF IsCut
<1> QED BY <1>20

\* They come one after the other.
LEMMA CutsInOrder ==
    ASSUME NEW path \in Seq(Chars), NEW n, NEW cut, IsCut(path, n, cut),
           NEW i \in 0 .. n, NEW j \in i .. n
    PROVE  cut[i] <= cut[j] /\ (i < j => cut[i] < cut[j])
<1>1. PICK d : d = n - i
  OBVIOUS
<1>2. n \in Nat /\ i \in Nat /\ d \in Nat /\ Len(path) \in Nat
  BY <1>1, LenProperties DEF IsCut
<1>3. \A k \in 0 .. n : cut[k] \in Nat
  BY <1>2 DEF IsCut
<1> DEFINE T == {k \in 0 .. d : cut[i] <= cut[i + k] /\ (k > 0 => cut[i] < cut[i + k])}
<1>4. 0 \in T
  BY <1>2, <1>3
<1>5. ASSUME NEW k \in 0 .. d - 1, k \in T PROVE k + 1 \in T
  <2>1. PICK x : x = i + k
    OBVIOUS
  <2>2. x \in 0 .. n - 1 /\ x + 1 = i + (k + 1) /\ x \in 0 .. n /\ x + 1 \in 0 .. n
        /\ k + 1 \in 0 .. d
    BY <1>1, <1>2, <2>1
  <2>3. cut[x] < cut[x + 1]
    BY <2>2 DEF IsCut
  <2>4. cut[i] <= cut[x]
    BY <1>5, <2>1
  <2>5. cut[i] \in Nat /\ cut[x] \in Nat /\ cut[x + 1] \in Nat
    BY <1>3, <2>2
  <2>6. cut[i] < cut[x + 1]
    BY <2>3, <2>4, <2>5
  <2> QED BY <2>2, <2>5, <2>6
<1>6. \A k \in 0 .. d : k \in T
  <2> HIDE DEF T
  <2> QED BY <1>2, <1>4, <1>5, IntervalInduction
<1>7. j - i \in 0 .. d /\ i + (j - i) = j /\ (i < j => j - i > 0)
  BY <1>1, <1>2
<1>8. cut[i] <= cut[i + (j - i)] /\ (j - i > 0 => cut[i] < cut[i + (j - i)])
  BY <1>6, <1>7
<1> QED BY <1>7, <1>8

\* A walk in progress: only a walk that is done has ended in a file's bytes.
WalkState(vol) ==
    [done : BOOLEAN, rest : Seq(Chars),
     list : Seq(ShortEntries(vol)) \cup {Null, Undefined}]
\* The name that a step looks for, and what it leaves.
StepName(rest) ==
    IF Slashes(rest) = {} THEN rest ELSE Substring(rest, 0, Index(rest))
StepRest(rest) ==
    IF Slashes(rest) = {} THEN <<>>
    ELSE SubSeq(rest, Len(StepName(rest)) + 2, Len(rest))
StepOf(vol, w, v) ==
    /\ v \in WalkState(vol)
    /\ w.done => v = w
    /\ ~w.done /\ w.list \in {Null, Undefined} => v.done /\ v.list = w.list
    /\ ~w.done /\ w.list \notin {Null, Undefined} =>
         LET e == FindEntry(StepName(w.rest), w.list)
             end == Slashes(w.rest) = {}
         IN  /\ e \in ShortEntries(vol) \cup {Null}
             /\ e = Null \/ (~end /\ ~e.dir) => v.done /\ v.list = Null
             /\ ~(e = Null \/ (~end /\ ~e.dir)) =>
                  /\ v.done <=> end
                  /\ v.rest = StepRest(w.rest)
                  /\ v.list = ReadDirectoryAt(vol, e.cluster)

\* Both are strings.
LEMMA StepRestType ==
    ASSUME NEW rest \in Seq(Chars)
    PROVE  StepName(rest) \in Seq(Chars) /\ StepRest(rest) \in Seq(Chars)
<1>1. CASE Slashes(rest) = {}
  BY <1>1, EmptySeq DEF StepName, StepRest
<1>2. CASE Slashes(rest) # {}
  <2>1. PICK i : i = Index(rest)
    OBVIOUS
  <2>2. i \in Slashes(rest)
    BY <1>2, <2>1, SlashesFacts, LeastNumber DEF Index
  <2>3. i \in 0 .. Len(rest) - 1 /\ Len(rest) \in Nat
    BY <2>2, SlashesFacts, LenProperties
  <2>4. StepName(rest) = SubSeq(rest, 1, i)
    <3>1. i \in 0 .. Len(rest)
      BY <2>3
    <3> QED BY <1>2, <2>1, <3>1, SubstringHead DEF StepName
  <2>5. StepName(rest) \in Seq(Chars) /\ Len(StepName(rest)) = i
    BY <2>3, <2>4, SubSeqProperties
  <2>6. StepRest(rest) = SubSeq(rest, i + 2, Len(rest))
    BY <1>2, <2>5 DEF StepRest
  <2>7. SubSeq(rest, i + 2, Len(rest)) \in Seq(Chars)
    <3>1. \A j \in i + 2 .. Len(rest) : rest[j] \in Chars
      BY <2>3, ElementOfSeq
    <3> QED BY <2>3, <3>1, SubSeqProperties
  <2> QED BY <2>5, <2>6, <2>7
<1> QED BY <1>1, <1>2

\* A step of read_directory is one of these.
LEMMA StepFacts ==
    ASSUME NEW vol, WellFormed(vol), NEW w \in WalkState(vol)
    PROVE  StepOf(vol, w, Step(vol, w))
<1>1. PICK v : v = Step(vol, w)
  OBVIOUS
<1>2. PICK end, name : /\ end = (Slashes(w.rest) = {}) /\ name = StepName(w.rest)
                       /\ end \in BOOLEAN
  OBVIOUS
<1>3. PICK e : e = FindEntry(name, w.list)
  OBVIOUS
<1>4. /\ w.done \in BOOLEAN /\ w.rest \in Seq(Chars)
      /\ w.list \in Seq(ShortEntries(vol)) \cup {Null, Undefined}
      /\ w = [done |-> w.done, rest |-> w.rest, list |-> w.list]
  BY DEF WalkState
<1>5. v = IF w.done THEN w
          ELSE IF w.list \in {Null, Undefined} THEN [w EXCEPT !.done = TRUE]
          ELSE IF e = Null \/ (~end /\ ~e.dir)
          THEN [w EXCEPT !.done = TRUE, !.list = Null]
          ELSE [done |-> end, list |-> ReadDirectoryAt(vol, e.cluster),
                rest |-> IF end THEN <<>> ELSE SubSeq(w.rest, Len(name) + 2, Len(w.rest))]
  BY <1>1, <1>2, <1>3 DEF Step, StepName
<1>6. CASE w.done
  <2>1. v = w
    BY <1>5, <1>6
  <2> QED BY <1>1, <1>6, <2>1 DEF StepOf
<1>7. CASE ~w.done /\ w.list \in {Null, Undefined}
  <2>1. v = [w EXCEPT !.done = TRUE]
    BY <1>5, <1>7
  <2>2. PICK x, y : x = w.rest /\ y = w.list
    OBVIOUS
  <2>3. v = [done |-> TRUE, rest |-> x, list |-> y]
    BY <1>4, <2>1, <2>2
  <2>4. v \in WalkState(vol) /\ v.done /\ v.list = w.list
    BY <1>4, <2>2, <2>3 DEF WalkState
  <2> QED BY <1>1, <1>7, <2>4 DEF StepOf
<1>8. CASE ~w.done /\ w.list \notin {Null, Undefined}
  <2>1. w.list \in Seq(ShortEntries(vol))
    BY <1>4, <1>8
  <2>2. e \in ShortEntries(vol) \cup {Null}
    BY <1>3, <2>1, FindEntryFacts
  <2>3. CASE e = Null \/ (~end /\ ~e.dir)
    <3>1. v = [w EXCEPT !.done = TRUE, !.list = Null]
      BY <1>5, <1>8, <2>3
    <3>2. PICK b : b = [w EXCEPT !.done = TRUE]
      OBVIOUS
    <3>3. PICK x, y : x = w.rest /\ y = w.list
      OBVIOUS
    <3>4. PICK t : t = TRUE
      OBVIOUS
    <3>5. b = [done |-> t, rest |-> x, list |-> y]
      BY <1>4, <3>2, <3>3, <3>4
    <3>6. [b EXCEPT !.list = Null] = [done |-> t, rest |-> x, list |-> Null]
      BY <3>5
    <3>7. v = [done |-> TRUE, rest |-> w.rest, list |-> Null]
      BY <3>1, <3>2, <3>3, <3>6, <3>4
    <3>8. v \in WalkState(vol) /\ v.done /\ v.list = Null
      BY <1>4, <3>7, AnswersAssumption DEF WalkState
    <3> QED BY <1>1, <1>2, <1>3, <1>8, <2>2, <2>3, <3>8 DEF StepOf
  <2>4. CASE ~(e = Null \/ (~end /\ ~e.dir))
    <3>1. PICK l, r : l = ReadDirectoryAt(vol, e.cluster) /\ r = StepRest(w.rest)
      OBVIOUS
    <3>2. v = [done |-> end, list |-> l, rest |-> r]
      BY <1>2, <1>5, <1>8, <2>4, <3>1 DEF StepRest
    <3>4. l \in Seq(ShortEntries(vol)) \cup {Null, Undefined}
      BY <3>1, ReadDirectoryAtFacts
    <3>6. r \in Seq(Chars)
      BY <1>4, <3>1, StepRestType
    <3>7. v.done = end /\ v.list = l /\ v.rest = r
      BY <3>2
    <3>8. v \in WalkState(vol)
      BY <1>2, <3>2, <3>4, <3>6 DEF WalkState
    <3> QED BY <1>1, <1>2, <1>3, <1>8, <2>2, <2>4, <3>1, <3>7, <3>8 DEF StepOf
  <2> QED BY <2>3, <2>4
<1> QED BY <1>4, <1>6, <1>7, <1>8

\* The walk is one step for each component.
IsWalk(vol, rest, h) ==
    /\ Walk(vol, rest) = h[Len(rest) + 1]
    /\ h[0] = [done |-> rest = <<>>, rest |-> rest, list |-> ReadDirectoryAt(vol, Root)]
    /\ \A i \in 1 .. Len(rest) + 1 : StepOf(vol, h[i - 1], h[i])
    /\ \A i \in 0 .. Len(rest) + 1 : h[i] \in WalkState(vol)
\* There is such a walk for every path.
LEMMA WalkExists ==
    ASSUME NEW vol, WellFormed(vol), NEW rest \in Seq(Chars)
    PROVE  \E h : IsWalk(vol, rest, h)
<1>1. PICK n, G : n = Len(rest) + 1 /\ G = WalkState(vol)
  OBVIOUS
<1>2. n \in Nat
  BY <1>1, LenProperties
<1>3. PICK start : start = [done |-> rest = <<>>, rest |-> rest,
                            list |-> ReadDirectoryAt(vol, Root)]
  OBVIOUS
<1>4. start \in G
  <2>1. PICK l : l = ReadDirectoryAt(vol, Root)
    OBVIOUS
  <2>2. Root \in DOMAIN vol.dirs /\ Root \in DOMAIN vol.fat
    BY DEF WellFormed
  <2>3. l \in Seq(ShortEntries(vol)) \cup {Null, Undefined} /\ l # Undefined
    BY <2>1, <2>2, ReadDirectoryAtFacts
  <2>4. PICK d : d = (rest = <<>>) /\ d \in BOOLEAN
    OBVIOUS
  <2>5. start = [done |-> d, rest |-> rest, list |-> l]
    BY <1>3, <2>1, <2>4
  <2> QED BY <1>1, <2>3, <2>4, <2>5 DEF WalkState
<1> DEFINE Body(a) == [i \in 0 .. n |-> IF i = 0
                         THEN [done |-> rest = <<>>, rest |-> rest,
                               list |-> ReadDirectoryAt(vol, Root)]
                         ELSE Step(vol, a[i - 1])]
           f == CHOOSE a : a = Body(a)
           F == [i \in 1 .. n |-> [x \in G |-> Step(vol, x)]]
<1>5. \A x \in G : Step(vol, x) \in G /\ StepOf(vol, x, Step(vol, x))
  <2>1. \A x \in G : StepOf(vol, x, Step(vol, x))
    BY <1>1, StepFacts
  <2> QED BY <1>1, <2>1 DEF StepOf
<1>6. F \in [1 .. n -> [G -> G]]
  BY <1>5
<1>7. PICK g : /\ g \in [0 .. n -> G] /\ g[0] = start
               /\ \A i \in 1 .. n : g[i] = F[i][g[i - 1]]
  <2> HIDE DEF F
  <2>1. \E g : IsIteration(n, G, start, F, g)
    BY <1>2, <1>4, <1>6, IterationExists
  <2> QED BY <2>1 DEF IsIteration
<1>8. g = Body(g)
  <2>1. ASSUME NEW i \in 1 .. n PROVE g[i] = Step(vol, g[i - 1])
    <3>1. i - 1 \in 0 .. n
      BY <1>2
    <3>2. g[i - 1] \in G
      BY <3>1, <1>7
    <3> QED BY <3>2, <1>7
  <2>2. Body(g) = [i \in 0 .. n |-> IF i = 0 THEN start ELSE Step(vol, g[i - 1])]
    BY <1>3
  <2> HIDE DEF Body
  <2> QED BY <2>1, <2>2, <1>2, <1>7
<1>9. PICK h : h = f /\ h = Body(h)
  <2>1. f = Body(f)
    <3> HIDE DEF Body
    <3> QED BY <1>8
  <2> HIDE DEF f
  <2> QED BY <2>1
<1>10. Walk(vol, rest) = h[n]
  <2>1. Walk(vol, rest) = f[n]
    BY <1>1 DEF Walk
  <2> HIDE DEF f
  <2> QED BY <2>1, <1>9
<1> HIDE DEF f, F
<1>11. h[0] = start /\ \A i \in 1 .. n : h[i] = Step(vol, h[i - 1])
  <2>1. 0 \in 0 .. n /\ \A i \in 1 .. n : i \in 0 .. n /\ i # 0
    BY <1>2
  <2>2. h[0] = Body(h)[0] /\ \A i \in 1 .. n : h[i] = Body(h)[i]
    <3> HIDE DEF Body
    <3> QED BY <1>9
  <2>3. Body(h)[0] = start /\ \A i \in 1 .. n : Body(h)[i] = Step(vol, h[i - 1])
    BY <1>3, <2>1
  <2> HIDE DEF Body
  <2> QED BY <2>2, <2>3
<1>12. \A i \in 0 .. n : h[i] \in G
  <2> DEFINE T == {i \in 0 .. n : h[i] \in G}
  <2>1. 0 \in T
    BY <1>2, <1>4, <1>11
  <2>2. ASSUME NEW i \in 0 .. n - 1, i \in T PROVE i + 1 \in T
    <3>1. i + 1 \in 1 .. n /\ (i + 1) - 1 = i /\ i + 1 \in 0 .. n
      BY <1>2
    <3>2. h[i + 1] = Step(vol, h[i]) /\ h[i] \in G
      BY <1>11, <2>2, <3>1
    <3>3. h[i + 1] \in G
      BY <1>5, <3>2
    <3> QED BY <3>1, <3>3
  <2>3. \A i \in 0 .. n : i \in T
    <3> HIDE DEF T
    <3> QED BY <1>2, <2>1, <2>2, IntervalInduction
  <2> QED BY <2>3
<1>13. \A i \in 1 .. n : StepOf(vol, h[i - 1], h[i])
  <2> SUFFICES ASSUME NEW i \in 1 .. n PROVE StepOf(vol, h[i - 1], h[i])
    OBVIOUS
  <2>1. i - 1 \in 0 .. n
    BY <1>2
  <2> QED BY <1>5, <1>11, <1>12, <2>1
<1> QED BY <1>1, <1>3, <1>10, <1>11, <1>12, <1>13 DEF IsWalk

\* A walk that is done stays where it is.
LEMMA WalkDone ==
    ASSUME NEW vol, NEW rest \in Seq(Chars), NEW h, IsWalk(vol, rest, h),
           NEW k \in 0 .. Len(rest) + 1, h[k].done
    PROVE  Walk(vol, rest) = h[k]
<1>1. PICK n : n = Len(rest) + 1 - k
  OBVIOUS
<1>2. n \in Nat /\ k \in Nat /\ k + n = Len(rest) + 1
  BY <1>1, LenProperties
<1> DEFINE T == {i \in 0 .. n : h[k + i] = h[k]}
<1>3. 0 \in T
  BY <1>2
<1>4. ASSUME NEW i \in 0 .. n - 1, i \in T PROVE i + 1 \in T
  <2>1. PICK j : j = k + (i + 1)
    OBVIOUS
  <2>2. j \in 1 .. Len(rest) + 1 /\ j - 1 = k + i /\ i + 1 \in 0 .. n
    BY <1>2, <2>1
  <2>3. StepOf(vol, h[j - 1], h[j]) /\ h[j - 1] = h[k]
    BY <1>4, <2>2 DEF IsWalk
  <2>4. h[j] = h[j - 1]
    BY <2>3 DEF StepOf
  <2> QED BY <2>1, <2>2, <2>3, <2>4
<1>5. \A i \in 0 .. n : i \in T
  <2> HIDE DEF T
  <2> QED BY <1>2, <1>3, <1>4, IntervalInduction
<1>6. h[k + n] = h[k]
  BY <1>2, <1>5
<1> QED BY <1>2, <1>6 DEF IsWalk

\* A directory's listing is a list of entries, or an answer.
LEMMA ReadDirectoryType ==
    ASSUME NEW vol, WellFormed(vol), NEW path \in Seq(Chars)
    PROVE  ReadDirectory(vol, path) \in Seq(ShortEntries(vol)) \cup {Null, Undefined}
<1>1. PICK rest : rest = IF path # <<>> /\ path[1] = Slash THEN Tail(path) ELSE path
  OBVIOUS
<1>2. rest \in Seq(Chars)
  BY <1>1, HeadTailProperties
<1>3. PICK h : IsWalk(vol, rest, h)
  BY <1>2, WalkExists
<1>4. Len(rest) + 1 \in 0 .. Len(rest) + 1
  BY <1>2, LenProperties
<1>5. Walk(vol, rest) \in WalkState(vol)
  BY <1>3, <1>4 DEF IsWalk
<1> QED BY <1>1, <1>5 DEF ReadDirectory, WalkState

\* The last slash of a path that has one.
LEMMA RindexFacts ==
    ASSUME NEW s \in Seq(Chars), Slashes(s) # {}
    PROVE  /\ Rindex(s) \in Slashes(s) /\ Rindex(s) \in 0 .. Len(s) - 1
           /\ \A i \in Slashes(s) : i <= Rindex(s)
<1>1. PICK n : n = Len(s)
  OBVIOUS
<1>2. n \in Nat /\ Slashes(s) \in SUBSET (0 .. n)
  <2>1. n \in Nat
    BY <1>1, LenProperties
  <2> QED BY <1>1, <2>1, SlashesFacts
<1>3. Rindex(s) \in Slashes(s) /\ \A i \in Slashes(s) : i <= Rindex(s)
  BY <1>2, GreatestNumber DEF Rindex
<1> QED BY <1>3, SlashesFacts

\* The directory of a path is what comes before its last slash.
LEMMA DirnameFacts ==
    ASSUME NEW s \in Seq(Chars), Slashes(s) # {}
    PROVE  Dirname(s) = SubSeq(s, 1, Rindex(s)) /\ Dirname(s) \in Seq(Chars)
<1>1. PICK r : r = Rindex(s)
  OBVIOUS
<1>2. r \in 0 .. Len(s) /\ Len(s) \in Nat
  BY <1>1, RindexFacts, LenProperties
<1>3. Dirname(s) = SubSeq(s, 1, r)
  BY <1>1, <1>2, SubstringHead DEF Dirname
<1>4. SubSeq(s, 1, r) \in Seq(Chars)
  BY <1>2, SubSeqProperties
<1> QED BY <1>1, <1>3, <1>4

\* An answer in place of a list is the answer for every name.
LEMMA FindEntryType ==
    ASSUME NEW vol, NEW name, NEW list \in Seq(ShortEntries(vol)) \cup {Null, Undefined}
    PROVE  /\ FindEntry(name, list) \in ShortEntries(vol) \cup {Null, Undefined}
           /\ list = Undefined => FindEntry(name, list) = Undefined
           /\ list = Null => FindEntry(name, list) = Null
           /\ FindEntry(name, list) = Undefined => list = Undefined
<1>1. CASE list = Undefined
  BY <1>1, AnswersAssumption DEF FindEntry
<1>2. CASE list = Null
  BY <1>2, AnswersAssumption DEF FindEntry
<1>3. CASE list \in Seq(ShortEntries(vol))
  <2>1. FindEntry(name, list) \in ShortEntries(vol) \cup {Null}
    BY <1>3, FindEntryFacts
  <2>2. list # Null /\ list # Undefined
    BY <1>3, ListFacts
  <2>3. \A e \in ShortEntries(vol) : e # Undefined
    BY EntryFacts DEF ShortEntries
  <2> QED BY <2>1, <2>2, <2>3, AnswersAssumption
<1> QED BY <1>1, <1>2, <1>3

\* open_file answers with an entry that is in use, or without one.
LEMMA OpenFileType ==
    ASSUME NEW vol, WellFormed(vol), NEW path \in Seq(Chars)
    PROVE  OpenFile(vol, path) \in ShortEntries(vol) \cup {Null, Undefined}
<1>1. CASE Slashes(path) = {}
  BY <1>1 DEF OpenFile
<1>2. CASE Slashes(path) # {}
  <2>1. Dirname(path) \in Seq(Chars)
    BY <1>2, DirnameFacts
  <2>2. PICK list : list = ReadDirectory(vol, Dirname(path))
    OBVIOUS
  <2>3. list \in Seq(ShortEntries(vol)) \cup {Null, Undefined}
    BY <2>1, <2>2, ReadDirectoryType
  <2>4. OpenFile(vol, path) = FindEntry(Filename(path), list)
    BY <1>2, <2>2 DEF OpenFile
  <2> QED BY <2>3, <2>4, FindEntryType
<1> QED BY <1>1, <1>2

-----------------------------------------------------------------------------
\* open_file takes an absolute path apart at its last slash.
LEMMA LastName ==
    ASSUME NEW vol, NEW local \in Seq(Chars), NEW n, NEW cut, IsCut(local, n, cut)
    PROVE  OpenFile(vol, local)
             = FindEntry(Components(local)[n],
                         Walk(vol, SubSeq(local, 2, cut[n - 1] - 1)).list)
<1>1. PICK L, c : L = Len(local) /\ c = cut[n - 1]
  OBVIOUS
<1>2. /\ n \in Nat /\ n >= 1 /\ n - 1 \in 0 .. n - 1 /\ (n - 1) + 1 = n
      /\ n - 1 \in 0 .. n /\ L \in Nat /\ n \in 1 .. n
  BY <1>1, LenProperties DEF IsCut
<1>3. /\ c \in n .. L /\ local[c] = Slash /\ cut[n] = L + 1
      /\ \A j \in c + 1 .. (L + 1) - 1 : local[j] # Slash
  BY <1>1, <1>2 DEF IsCut
<1>4. Slashes(local) # {} /\ Rindex(local) = c - 1
  <2>1. c - 1 \in 0 .. L - 1 /\ (c - 1) + 1 = c
    BY <1>2, <1>3
  <2>2. c - 1 \in Slashes(local)
    BY <1>1, <1>3, <2>1, SlashesFacts
  <2>3. PICK r : r = Rindex(local)
    OBVIOUS
  <2>4. r \in 0 .. L - 1 /\ c - 1 <= r /\ local[r + 1] = Slash
    BY <1>1, <2>2, <2>3, RindexFacts, SlashesFacts
  <2>5. r = c - 1
    BY <1>2, <1>3, <2>4
  <2> QED BY <2>2, <2>3, <2>5
<1>5. Filename(local) = SubSeq(local, c + 1, L)
  <2>1. (c - 1) + 2 = c + 1
    BY <1>2, <1>3
  <2> QED BY <1>1, <1>4, <2>1 DEF Filename
<1>6. Components(local)[n] = SubSeq(local, c + 1, L)
  <2>1. (L + 1) - 1 = L
    BY <1>2
  <2>2. Components(local)[n] = SubSeq(local, cut[n - 1] + 1, cut[n] - 1)
    BY <1>2 DEF IsCut
  <2> QED BY <1>1, <1>3, <2>1, <2>2
<1>7. PICK d : d = Dirname(local)
  OBVIOUS
<1>8. d = SubSeq(local, 1, c - 1) /\ d \in Seq(Chars) /\ Len(d) = c - 1
      /\ \A i \in 1 .. c - 1 : d[i] = local[i]
  <2>1. d = SubSeq(local, 1, c - 1)
    BY <1>4, <1>7, DirnameFacts
  <2>2. c - 1 \in 0 .. L
    BY <1>2, <1>3
  <2> QED BY <1>1, <2>1, <2>2
<1>9. (IF d # <<>> /\ d[1] = Slash THEN Tail(d) ELSE d) = SubSeq(local, 2, c - 1)
  <2>1. CASE n = 1
    <3>1. c = 1
      BY <1>1, <2>1 DEF IsCut
    <3>2. d = <<>>
      BY <1>8, <3>1, EmptySeq
    <3>3. SubSeq(local, 2, c - 1) = <<>>
      BY <3>1, SubSeqEmpty
    <3> QED BY <3>2, <3>3
  <2>2. CASE n # 1
    <3>1. c - 1 >= 1 /\ c - 1 \in 1 .. L /\ c \in Nat
      BY <1>2, <1>3, <2>2
    <3>2. local[1] = Slash
      BY <1>2 DEF IsCut
    <3>3. d # <<>> /\ d[1] = Slash
      <4>1. 1 \in 1 .. c - 1
        BY <3>1
      <4>2. d[1] = Slash
        BY <1>8, <3>2, <4>1
      <4>3. Len(d) # 0
        BY <1>8, <3>1
      <4> QED BY <1>8, <4>2, <4>3, EmptySeq
    <3>4. Tail(d) = SubSeq(d, 2, c - 1)
      BY <1>8, <3>3, TailIsSubSeq
    <3>5. SubSeq(d, 2, c - 1) = SubSeq(local, 2, c - 1)
      <4>1. PICK b : b = c - 1
        OBVIOUS
      <4>2. b \in 1 - 1 .. Len(local) /\ 1 \in 1 .. Len(local) + 1
            /\ 2 \in 1 .. b - 1 + 2 /\ b \in 2 - 1 .. b - 1 + 1
            /\ 1 + 2 - 1 = 2 /\ 1 + b - 1 = b
        BY <1>1, <1>2, <3>1, <4>1
      <4>3. SubSeq(SubSeq(local, 1, b), 2, b) = SubSeq(local, 1 + 2 - 1, 1 + b - 1)
        BY <4>2, PieceOfPiece
      <4> QED BY <1>8, <4>1, <4>2, <4>3
    <3> QED BY <3>3, <3>4, <3>5
  <2> QED BY <2>1, <2>2
<1>10. ReadDirectory(vol, d) = Walk(vol, SubSeq(local, 2, c - 1)).list
  BY <1>9 DEF ReadDirectory
<1> QED BY <1>1, <1>4, <1>5, <1>6, <1>7, <1>10 DEF OpenFile

\* A step of the walk looks for the next component.
NextName(local, n, cut, k, r) ==
    /\ StepName(r) = Components(local)[k + 1]
    /\ Slashes(r) = {} <=> k + 1 = n - 1
    /\ k + 1 < n - 1 => StepRest(r) = SubSeq(local, cut[k + 1] + 1, cut[n - 1] - 1)
\* It is the one between the next two slashes.
LEMMA RestName ==
    ASSUME NEW local \in Seq(Chars), NEW n, NEW cut, IsCut(local, n, cut),
           NEW k \in 0 .. n - 2, NEW r, r = SubSeq(local, cut[k] + 1, cut[n - 1] - 1)
    PROVE  NextName(local, n, cut, k, r)
<1>0. PICK L, x, y, c : L = Len(local) /\ x = cut[k] /\ y = cut[n - 1] /\ c = cut[k + 1]
  OBVIOUS
<1>1. PICK a, b : a = x + 1 /\ b = y - 1
  OBVIOUS
<1>2. /\ n \in Nat /\ k \in Nat /\ k + 1 <= n - 1 /\ L \in Nat
      /\ k \in 0 .. n - 1 /\ k \in 0 .. n /\ k + 1 \in 0 .. n - 1 /\ n - 1 \in 0 .. n
      /\ k + 1 \in 0 .. n /\ n - 1 \in k + 1 .. n /\ k + 1 \in 1 .. n /\ (k + 1) - 1 = k
      /\ n - 1 \in 0 .. n - 1
  BY <1>0, LenProperties DEF IsCut
<1>3. /\ x \in 1 .. L /\ c \in 1 .. L /\ y \in 1 .. L /\ a <= c /\ a = x + 1
      /\ local[c] = Slash /\ \A j \in a .. c - 1 : local[j] # Slash
  <2>1. x \in k + 1 .. L + 1 /\ x <= L /\ x < c
    BY <1>0, <1>2 DEF IsCut
  <2>2. c \in (k + 1) + 1 .. L + 1 /\ c <= L /\ local[c] = Slash
    BY <1>0, <1>2 DEF IsCut
  <2>3. y \in (n - 1) + 1 .. L + 1 /\ y <= L
    BY <1>0, <1>2 DEF IsCut
  <2>4. \A j \in x + 1 .. c - 1 : local[j] # Slash
    BY <1>0, <1>2 DEF IsCut
  <2>5. x \in 1 .. L /\ c \in 1 .. L /\ y \in 1 .. L /\ x + 1 <= c
    BY <1>2, <2>1, <2>2, <2>3
  <2> QED BY <1>1, <2>2, <2>4, <2>5
<1>4. c <= y /\ (k + 1 < n - 1 => c < y) /\ (k + 1 = n - 1 => c = y)
  BY <1>0, <1>2, CutsInOrder
<1>5. /\ a \in 2 .. L + 1 /\ b \in 0 .. L - 1 /\ c <= b + 1 /\ a <= b + 1
      /\ (k + 1 < n - 1 => c <= b) /\ (k + 1 = n - 1 => c = b + 1)
  BY <1>1, <1>2, <1>3, <1>4
<1>6. PICK m : m = b - a + 1
  OBVIOUS
<1>7. /\ r = SubSeq(local, a, b) /\ r \in Seq(Chars) /\ m \in Nat /\ Len(r) = m
      /\ \A i \in 1 .. m : r[i] = local[a + i - 1]
  <2>1. r = SubSeq(local, a, b)
    BY <1>0, <1>1
  <2>2. m \in Nat /\ a \in Int /\ b \in Int /\ (a <= b => m = b - a + 1) /\ (a > b => m = 0)
    BY <1>2, <1>5, <1>6
  <2>3. \A j \in a .. b : local[j] \in Chars
    <3>1. \A j \in a .. b : j \in 1 .. Len(local)
      BY <1>0, <1>2, <1>5
    <3> QED BY <3>1, ElementOfSeq
  <2>4. PICK t : t = SubSeq(local, a, b)
    OBVIOUS
  <2>5. /\ t \in Seq(Chars) /\ Len(t) = IF a <= b THEN b - a + 1 ELSE 0
        /\ \A i \in 1 .. b - a + 1 : t[i] = local[a + i - 1]
    BY <2>2, <2>3, <2>4, SubSeqProperties
  <2>6. Len(t) = m
    BY <1>2, <1>5, <2>2, <2>5
  <2> QED BY <1>6, <2>1, <2>2, <2>4, <2>5, <2>6
<1>8. Components(local)[k + 1] = SubSeq(local, a, c - 1)
  <2>1. Components(local)[k + 1] = SubSeq(local, cut[k] + 1, cut[k + 1] - 1)
    BY <1>2 DEF IsCut
  <2> QED BY <1>0, <1>1, <2>1
<1>9. \A i : i \in Slashes(r) <=> i \in 0 .. m - 1 /\ local[a + i] = Slash
  <2>1. \A i : i \in Slashes(r) <=> i \in 0 .. m - 1 /\ r[i + 1] = Slash
    BY <1>7, SlashesFacts
  <2>2. \A i \in 0 .. m - 1 : i + 1 \in 1 .. m /\ a + (i + 1) - 1 = a + i
    BY <1>5, <1>7
  <2>3. \A i \in 0 .. m - 1 : r[i + 1] = local[a + i]
    BY <1>7, <2>2
  <2> QED BY <2>1, <2>3
<1>10. CASE k + 1 = n - 1
  <2>1. c - 1 = b
    BY <1>5, <1>10
  <2>2. Slashes(r) = {}
    <3>1. \A i \in 0 .. m - 1 : a + i \in a .. c - 1
      BY <1>5, <1>6, <2>1
    <3> QED BY <1>3, <1>9, <3>1
  <2>3. StepName(r) = r
    BY <2>2 DEF StepName
  <2>4. ~(k + 1 < n - 1)
    BY <1>2, <1>10
  <2>5. StepName(r) = Components(local)[k + 1]
    BY <1>7, <1>8, <2>1, <2>3
  <2> QED BY <1>7, <1>10, <2>2, <2>4, <2>5 DEF NextName
<1>11. CASE k + 1 < n - 1
  <2>1. PICK i : i = c - a
    OBVIOUS
  <2>2. i \in 0 .. m - 1 /\ a + i = c /\ i \in Nat
    BY <1>3, <1>5, <1>6, <1>11, <2>1
  <2>3. i \in Slashes(r)
    BY <1>3, <1>9, <2>2
  <2>4. Index(r) = i
    <3>1. PICK j : j = Index(r)
      OBVIOUS
    <3>2. j \in Slashes(r) /\ j <= i
      BY <1>7, <2>3, <3>1, SlashesFacts, LeastNumber DEF Index
    <3>3. j \in 0 .. m - 1 /\ local[a + j] = Slash
      BY <1>9, <3>2
    <3>4. ~(j < i)
      <4> SUFFICES ASSUME j < i PROVE FALSE
        OBVIOUS
      <4>1. a + j \in a .. c - 1
        BY <1>3, <1>5, <2>2, <3>3
      <4> QED BY <1>3, <3>3, <4>1
    <3> QED BY <2>2, <3>1, <3>2, <3>3, <3>4
  <2>5. StepName(r) = SubSeq(r, 1, i)
    <3>1. i \in 0 .. Len(r)
      BY <1>7, <2>2
    <3> QED BY <1>7, <2>3, <2>4, <3>1, SubstringHead DEF StepName
  <2>6. SubSeq(r, 1, i) = SubSeq(local, a, c - 1)
    <3>1. /\ a \in 1 .. Len(local) + 1 /\ b \in a - 1 .. Len(local)
          /\ 1 \in 1 .. b - a + 2 /\ i \in 1 - 1 .. b - a + 1
          /\ a + 1 - 1 = a /\ a + i - 1 = c - 1
      <4>1. a \in 1 .. L + 1 /\ b \in a - 1 .. L
        BY <1>2, <1>5
      <4>2. 1 \in 1 .. b - a + 2 /\ i \in 1 - 1 .. b - a + 1
        BY <1>5, <1>6, <2>2
      <4>3. a + 1 - 1 = a /\ a + i - 1 = c - 1
        BY <1>5, <2>2
      <4> QED BY <1>0, <4>1, <4>2, <4>3
    <3>2. SubSeq(SubSeq(local, a, b), 1, i) = SubSeq(local, a + 1 - 1, a + i - 1)
      BY <3>1, PieceOfPiece
    <3> QED BY <1>7, <3>1, <3>2
  <2>7. Len(StepName(r)) = i
    BY <1>7, <2>2, <2>5
  <2>8. StepRest(r) = SubSeq(r, i + 2, m)
    BY <1>7, <2>3, <2>7 DEF StepRest
  <2>9. SubSeq(r, i + 2, m) = SubSeq(local, c + 1, b)
    <3>1. PICK z : z = i + 2
      OBVIOUS
    <3>2. /\ a \in 1 .. Len(local) + 1 /\ b \in a - 1 .. Len(local)
          /\ z \in 1 .. b - a + 2 /\ m \in z - 1 .. b - a + 1
          /\ a + z - 1 = c + 1 /\ a + m - 1 = b
      <4>1. a \in 1 .. L + 1 /\ b \in a - 1 .. L
        BY <1>2, <1>5
      <4>2. z \in 1 .. b - a + 2 /\ m \in z - 1 .. b - a + 1
        BY <1>5, <1>6, <2>2, <3>1
      <4>3. a + z - 1 = c + 1 /\ a + m - 1 = b
        BY <1>5, <1>6, <2>2, <3>1
      <4> QED BY <1>0, <4>1, <4>2, <4>3
    <3>3. SubSeq(SubSeq(local, a, b), z, m) = SubSeq(local, a + z - 1, a + m - 1)
      BY <3>2, PieceOfPiece
    <3> QED BY <1>7, <3>1, <3>2, <3>3
  <2>10. Slashes(r) # {} /\ k + 1 # n - 1
    BY <1>2, <1>11, <2>3
  <2> QED BY <1>0, <1>1, <1>7, <1>8, <2>5, <2>6, <2>8, <2>9, <2>10 DEF NextName
<1> QED BY <1>2, <1>10, <1>11

\* What is known of a walk to the last directory of a path: it has failed, and
\* there is a reason, or it is at the directory that k names lead to.
Failed(vol, n, at, w) ==
    /\ w.done
    /\ \/ /\ w.list = Null
          /\ \/ at[n] = Null
             \/ \E i \in 0 .. n - 1 : at[i] # Null /\ ~Small(vol, at[i].cluster)
       \/ /\ w.list = Undefined
          /\ \E i \in 1 .. n - 1 : at[i] # Null /\ at[i].cluster = 0
OnTheWay(vol, local, n, cut, at, w, k) ==
    /\ at[k] # Null
    /\ w.list = ReadDirectoryAt(vol, at[k].cluster)
    /\ w.done <=> k = n - 1
    /\ k < n - 1 => at[k].dir /\ w.rest = SubSeq(local, cut[k] + 1, cut[n - 1] - 1)

\* A step leads to the next directory, or fails for a reason.
LEMMA WalkStep ==
    ASSUME NEW vol, WellFormed(vol), NEW local \in Seq(Chars), NEW n, NEW cut,
           IsCut(local, n, cut), NEW at, IsTargets(vol, Components(local), at),
           Len(Components(local)) = n,
           NEW k \in 0 .. n - 2, NEW w \in WalkState(vol), NEW v, StepOf(vol, w, v),
           OnTheWay(vol, local, n, cut, at, w, k)
    PROVE  Failed(vol, n, at, v) \/ OnTheWay(vol, local, n, cut, at, v, k + 1)
<1>1. PICK here, there, c, name : /\ here = at[k] /\ there = at[k + 1]
                                  /\ c = here.cluster /\ name = Components(local)[k + 1]
  OBVIOUS
<1>2. /\ n \in Nat /\ k \in Nat /\ k < n - 1 /\ k # n - 1 /\ k + 1 \in 1 .. n
      /\ (k + 1) - 1 = k /\ k \in 0 .. n - 1 /\ k \in 0 .. n /\ k + 1 \in 0 .. n
  BY DEF IsCut
<1>3. /\ here # Null /\ here.dir /\ w.list = ReadDirectoryAt(vol, c) /\ ~w.done
      /\ w.rest = SubSeq(local, cut[k] + 1, cut[n - 1] - 1)
  BY <1>1, <1>2 DEF OnTheWay
<1>4. here \in TargetSet(vol) /\ there \in TargetSet(vol)
  BY <1>1, <1>2 DEF IsTargets
<1>5. c = 0 \/ (c \in DOMAIN vol.dirs /\ FirstCluster(here) = c)
  BY <1>1, <1>3, <1>4, TargetFacts
<1>6. there = Lookup(vol, FirstCluster(here), name)
  <2>1. there = IF here = Null THEN Null ELSE IF ~here.dir THEN Null
                ELSE Lookup(vol, FirstCluster(here), name)
    BY <1>1, <1>2 DEF IsTargets
  <2> QED BY <1>3, <2>1
<1>7. PICK list : list = ReadDirectoryAt(vol, c)
  OBVIOUS
<1>8. /\ list = Undefined => c = 0
      /\ list \notin {Null, Undefined} => FindEntry(name, list) = there
      /\ list = Null /\ Small(vol, c) => there = Null
  <2>1. c = 0 => list = Undefined
    <3>1. 0 \notin DOMAIN vol.dirs
      BY <1>3, <1>4, TargetFacts
    <3> QED BY <1>7, <3>1, ReadDirectoryAtFacts
  <2>2. c # 0 => c \in DOMAIN vol.dirs /\ there = Lookup(vol, c, name)
    BY <1>5, <1>6
  <2> QED BY <1>7, <2>1, <2>2, AnswersAssumption, ReadDirectoryAtFacts
<1>9. ASSUME there = Null PROVE at[n] = Null
  <2>1. n = Len(Components(local)) /\ at[k + 1] = Null
    BY <1>1, <1>9
  <2> QED BY <1>2, <2>1, NothingBehind
<1>10. /\ StepName(w.rest) = name
       /\ Slashes(w.rest) = {} <=> k + 1 = n - 1
       /\ k + 1 < n - 1 => StepRest(w.rest) = SubSeq(local, cut[k + 1] + 1, cut[n - 1] - 1)
  <2>1. PICK r : r = w.rest /\ r = SubSeq(local, cut[k] + 1, cut[n - 1] - 1)
    BY <1>3
  <2>2. NextName(local, n, cut, k, r)
    BY <2>1, RestName
  <2> QED BY <1>1, <2>1, <2>2 DEF NextName
<1>11. CASE list = Undefined
  <2>1. v.done /\ v.list = Undefined
    BY <1>3, <1>7, <1>11 DEF StepOf
  <2>2. k # 0
    <3>1. at[0].cluster = Root /\ Root # 0
      BY DEF IsTargets, RootEntry, Root
    <3> QED BY <1>1, <1>8, <1>11, <3>1
  <2>3. k \in 1 .. n - 1
    BY <1>2, <2>2
  <2>4. Failed(vol, n, at, v)
    BY <1>1, <1>3, <1>8, <1>11, <2>1, <2>3 DEF Failed
  <2> QED BY <2>4
<1>12. CASE list = Null
  <2>1. v.done /\ v.list = Null
    BY <1>3, <1>7, <1>12 DEF StepOf
  <2>2. at[n] = Null \/ ~Small(vol, c)
    BY <1>8, <1>9, <1>12
  <2>3. Failed(vol, n, at, v)
    BY <1>1, <1>2, <1>3, <2>1, <2>2 DEF Failed
  <2> QED BY <2>3
<1>13. CASE list \notin {Null, Undefined}
  <2>1. PICK end : end = (Slashes(w.rest) = {})
    OBVIOUS
  <2>2. FindEntry(StepName(w.rest), w.list) = there
    BY <1>3, <1>7, <1>8, <1>10, <1>13
  <2>3. /\ there = Null \/ (~end /\ ~there.dir) => v.done /\ v.list = Null
        /\ ~(there = Null \/ (~end /\ ~there.dir)) =>
             /\ v.done <=> end
             /\ v.rest = StepRest(w.rest)
             /\ v.list = ReadDirectoryAt(vol, there.cluster)
    BY <1>3, <1>7, <1>13, <2>1, <2>2 DEF StepOf
  <2>4. CASE there = Null
    <3>1. Failed(vol, n, at, v)
      BY <1>9, <2>3, <2>4 DEF Failed
    <3> QED BY <3>1
  <2>5. CASE there # Null /\ ~end /\ ~there.dir
    <3>1. PICK i : i = k + 2
      OBVIOUS
    <3>2. i \in 1 .. n /\ i - 1 = k + 1 /\ i \in 0 .. n
      BY <1>2, <3>1
    <3>3. at[i] = Null
      BY <1>1, <2>5, <3>2 DEF IsTargets
    <3>4. at[n] = Null
      BY <3>2, <3>3, NothingBehind
    <3>5. Failed(vol, n, at, v)
      BY <2>3, <2>5, <3>4 DEF Failed
    <3> QED BY <3>5
  <2>6. CASE there # Null /\ (end \/ there.dir)
    <3>1. /\ v.done <=> end
          /\ v.rest = StepRest(w.rest)
          /\ v.list = ReadDirectoryAt(vol, there.cluster)
      BY <2>3, <2>6
    <3>2. end <=> k + 1 = n - 1
      BY <1>10, <2>1
    <3>3. k + 1 < n - 1 =>
            there.dir /\ v.rest = SubSeq(local, cut[k + 1] + 1, cut[n - 1] - 1)
      BY <1>2, <1>10, <2>6, <3>1, <3>2
    <3>4. OnTheWay(vol, local, n, cut, at, v, k + 1)
      BY <1>1, <2>6, <3>1, <3>2, <3>3 DEF OnTheWay
    <3> QED BY <3>4
  <2>7. end \in BOOLEAN
    BY <2>1
  <2> QED BY <2>4, <2>5, <2>6, <2>7
<1> QED BY <1>12, <1>13, <1>11

\* The answer of open_file to an absolute path without empty names, against
\* the entries that its names lead to.
RightEntry(vol, n, at, entry) ==
    /\ entry \notin {Null, Undefined} => entry = at[n]
    /\ entry = Undefined =>
          \E i \in 1 .. n - 1 : at[i] # Null /\ (~at[i].dir \/ at[i].cluster = 0)
    /\ /\ at[n] # Null
       /\ \A i \in 0 .. n - 1 : at[i].cluster # 0 /\ Small(vol, at[i].cluster)
       => entry = at[n]

\* open_file finds what the names lead to.
LEMMA OpenFileFinds ==
    ASSUME NEW vol, WellFormed(vol), NEW local \in Seq(Chars), local # <<>>,
           local[1] = Slash,
           \A i \in 1 .. Len(Components(local)) : Components(local)[i] # <<>>
    PROVE  RightEntry(vol, Len(Components(local)), Targets(vol, Components(local)),
                      OpenFile(vol, local))
<1>1. PICK n, cut : IsCut(local, n, cut)
  BY ComponentsFacts
<1>2. PICK L, names : L = Len(local) /\ names = Components(local)
  OBVIOUS
<1>3. /\ n \in Nat /\ n >= 1 /\ L \in Nat
      /\ names = [i \in 1 .. n |-> SubSeq(local, cut[i - 1] + 1, cut[i] - 1)]
  BY <1>1, <1>2, LenProperties DEF IsCut
<1>4. Len(names) = n
  BY <1>3
<1>5. PICK at : at = Targets(vol, names)
  OBVIOUS
<1>6. IsTargets(vol, names, at)
  BY <1>3, <1>4, <1>5, TargetsFacts
<1>7. PICK c : c = cut[n - 1]
  OBVIOUS
<1>8. c \in n .. L
  <2>1. n - 1 \in 0 .. n - 1 /\ n - 1 \in 0 .. n /\ (n - 1) + 1 = n
    BY <1>3
  <2>2. c \in (n - 1) + 1 .. L + 1 /\ c <= L
    BY <1>1, <1>2, <1>7, <2>1 DEF IsCut
  <2> QED BY <1>3, <2>1, <2>2
<1>9. PICK rest : rest = SubSeq(local, 2, c - 1)
  OBVIOUS
<1>10. /\ rest \in Seq(Chars) /\ Len(rest) \in Nat
       /\ (c > 1 => Len(rest) = c - 2) /\ (c = 1 => rest = <<>>)
  <2>1. \A i \in 2 .. c - 1 : local[i] \in Chars
    <3>1. \A i \in 2 .. c - 1 : i \in 1 .. Len(local)
      BY <1>2, <1>3, <1>8
    <3> QED BY <3>1, ElementOfSeq
  <2>2. c - 1 \in Int /\ (c - 1) - 2 + 1 = c - 2
    BY <1>3, <1>8
  <2>3. rest \in Seq(Chars) /\ Len(rest) = IF 2 <= c - 1 THEN c - 2 ELSE 0
    BY <1>9, <2>1, <2>2, SubSeqProperties
  <2>4. c = 1 => rest = <<>>
    BY <2>3, EmptySeq
  <2>5. c > 1 => Len(rest) = c - 2
    BY <1>3, <1>8, <2>3
  <2> QED BY <2>3, <2>4, <2>5, LenProperties
<1>11. n - 1 <= Len(rest) + 1 /\ (rest = <<>> <=> n - 1 = 0)
  <2>1. CASE n = 1
    <3>1. c = 1
      BY <1>1, <1>7, <2>1 DEF IsCut
    <3> QED BY <1>10, <2>1, <3>1
  <2>2. CASE n # 1
    <3>1. n >= 2 /\ c > 1 /\ Len(rest) = c - 2
      BY <1>3, <1>8, <1>10, <2>2
    <3>2. PICK d : d = cut[1]
      OBVIOUS
    <3>3. names[1] = SubSeq(local, 2, d - 1)
      <4>1. 1 \in 1 .. n /\ 1 - 1 = 0 /\ 1 + 1 = 2
        BY <1>3
      <4>2. cut[0] = 1
        BY <1>1 DEF IsCut
      <4> QED BY <1>3, <3>2, <4>1, <4>2
    <3>4. d \in Nat /\ d <= c
      <4>1. 1 \in 0 .. n /\ n - 1 \in 1 .. n
        BY <1>3, <3>1
      <4>2. cut[1] \in 1 + 1 .. L + 1
        BY <1>1, <1>2, <4>1 DEF IsCut
      <4>3. cut[1] <= cut[n - 1]
        BY <1>1, <4>1, CutsInOrder
      <4>4. d \in Nat
        BY <1>3, <3>2, <4>2
      <4> QED BY <1>7, <3>2, <4>3, <4>4
    <3>5. names[1] # <<>>
      BY <1>2, <1>3, <1>4
    <3>6. ~(d - 1 < 2)
      <4>1. d - 1 < 2 => SubSeq(local, 2, d - 1) = <<>>
        BY <3>4, SubSeqEmpty
      <4> QED BY <3>3, <3>5, <4>1
    <3>7. Len(rest) >= 1 /\ n - 1 <= Len(rest) + 1
      BY <1>3, <1>8, <3>1, <3>4, <3>6
    <3>8. rest # <<>>
      BY <3>7
    <3> QED BY <1>3, <2>2, <3>7, <3>8
  <2> QED BY <2>1, <2>2
<1>12. PICK h : IsWalk(vol, rest, h)
  BY <1>10, WalkExists
<1> DEFINE T == {k \in 0 .. n - 1 : \/ Failed(vol, n, at, h[k])
                                    \/ OnTheWay(vol, local, n, cut, at, h[k], k)}
<1>13. 0 \in T
  <2>1. PICK w : w = h[0]
    OBVIOUS
  <2>2. w.rest = rest /\ w.list = ReadDirectoryAt(vol, Root) /\ (w.done <=> rest = <<>>)
    <3>1. PICK b : b = (rest = <<>>) /\ b \in BOOLEAN
      OBVIOUS
    <3>2. w = [done |-> b, rest |-> rest, list |-> ReadDirectoryAt(vol, Root)]
      BY <1>12, <2>1, <3>1 DEF IsWalk
    <3>3. w.done = b /\ w.rest = rest /\ w.list = ReadDirectoryAt(vol, Root)
      BY <3>2
    <3> QED BY <3>1, <3>3
  <2>3. at[0] = RootEntry
    BY <1>6 DEF IsTargets
  <2>4. RootEntry.cluster = Root /\ RootEntry.dir
    BY DEF RootEntry
  <2>5. RootEntry # Null
    BY RootIsAnEntry, EntryFacts DEF ShortEntries
  <2>6. cut[0] + 1 = 2
    BY <1>1 DEF IsCut
  <2>7. OnTheWay(vol, local, n, cut, at, w, 0)
    BY <1>7, <1>9, <1>11, <2>2, <2>3, <2>4, <2>5, <2>6 DEF OnTheWay
  <2> QED BY <1>3, <2>1, <2>7
<1>14. ASSUME NEW k \in 0 .. (n - 1) - 1, k \in T PROVE k + 1 \in T
  <2>1. /\ k \in 0 .. n - 2 /\ k + 1 \in 0 .. n - 1 /\ k \in Nat
        /\ k + 1 \in 1 .. Len(rest) + 1 /\ (k + 1) - 1 = k /\ k \in 0 .. Len(rest) + 1
    BY <1>3, <1>10, <1>11
  <2>2. PICK w, v : w = h[k] /\ v = h[k + 1]
    OBVIOUS
  <2>3. StepOf(vol, w, v) /\ w \in WalkState(vol)
    BY <1>12, <2>1, <2>2 DEF IsWalk
  <2>4. CASE Failed(vol, n, at, w)
    <3>1. v = w
      BY <2>3, <2>4 DEF StepOf, Failed
    <3> QED BY <2>1, <2>2, <2>4, <3>1
  <2>5. CASE OnTheWay(vol, local, n, cut, at, w, k)
    <3>1. Failed(vol, n, at, v) \/ OnTheWay(vol, local, n, cut, at, v, k + 1)
      BY <1>1, <1>2, <1>4, <1>6, <2>1, <2>3, <2>5, WalkStep
    <3> QED BY <2>1, <2>2, <3>1
  <2> QED BY <1>14, <2>2, <2>4, <2>5
<1>15. \A k \in 0 .. n - 1 : k \in T
  <2>1. n - 1 \in Nat
    BY <1>3
  <2> HIDE DEF T
  <2> QED BY <2>1, <1>13, <1>14, IntervalInduction
<1>16. PICK w : w = h[n - 1]
  OBVIOUS
<1>17. Failed(vol, n, at, w) \/ OnTheWay(vol, local, n, cut, at, w, n - 1)
  <2>1. n - 1 \in 0 .. n - 1
    BY <1>3
  <2> QED BY <1>15, <1>16, <2>1
<1>18. Walk(vol, rest) = w
  <2>1. w.done
    BY <1>17 DEF Failed, OnTheWay
  <2>2. n - 1 \in 0 .. Len(rest) + 1
    BY <1>3, <1>10, <1>11
  <2> QED BY <1>10, <1>12, <1>16, <2>1, <2>2, WalkDone
<1>19. PICK entry : entry = OpenFile(vol, local)
  OBVIOUS
<1>20. entry = FindEntry(names[n], w.list)
  BY <1>1, <1>2, <1>7, <1>9, <1>18, <1>19, LastName
<1>21. CASE Failed(vol, n, at, w)
  <2>1. w.list = Null \/ w.list = Undefined
    BY <1>21 DEF Failed
  <2>2. (w.list = Null => entry = Null) /\ (w.list = Undefined => entry = Undefined)
    BY <1>20, <2>1, FindEntryType
  <2>3. /\ w.list = Null =>
             at[n] = Null \/ \E i \in 0 .. n - 1 : ~Small(vol, at[i].cluster)
        /\ w.list = Undefined =>
             \E i \in 1 .. n - 1 : at[i] # Null /\ at[i].cluster = 0
    BY <1>21, AnswersAssumption DEF Failed
  <2>4. \A i \in 1 .. n - 1 : i \in 0 .. n - 1
    BY <1>3
  <2>5. RightEntry(vol, n, at, entry)
    BY <2>1, <2>2, <2>3, <2>4, AnswersAssumption DEF RightEntry
  <2> QED BY <1>2, <1>4, <1>5, <1>19, <2>5
<1>22. CASE OnTheWay(vol, local, n, cut, at, w, n - 1)
  <2>1. PICK here, x, list : here = at[n - 1] /\ x = here.cluster /\ list = w.list
    OBVIOUS
  <2>2. here # Null /\ list = ReadDirectoryAt(vol, x)
    BY <1>22, <2>1 DEF OnTheWay
  <2>3. here \in TargetSet(vol) /\ n - 1 \in 0 .. n - 1 /\ n \in 1 .. n
    BY <1>3, <1>4, <1>6, <2>1 DEF IsTargets
  <2>4. /\ here.dir \in BOOLEAN /\ 0 \notin DOMAIN vol.dirs
        /\ x # 0 => FirstCluster(here) = x /\ (here.dir <=> x \in DOMAIN vol.dirs)
    BY <2>1, <2>2, <2>3, TargetFacts
  <2>5. /\ list \in Seq(ShortEntries(vol)) \cup {Null, Undefined}
        /\ list = Undefined <=> x \notin DOMAIN vol.dirs
        /\ list \notin {Null, Undefined} => FindEntry(names[n], list) = Lookup(vol, x, names[n])
        /\ list = Null /\ Small(vol, x) => Lookup(vol, x, names[n]) = Null
    BY <2>2, <2>4, ReadDirectoryAtFacts
  <2>6. at[n] = IF ~here.dir THEN Null ELSE Lookup(vol, FirstCluster(here), names[n])
    BY <1>4, <1>6, <2>1, <2>2, <2>3 DEF IsTargets
  <2>7. /\ list = Undefined => entry = Undefined
        /\ list = Null => entry = Null
        /\ entry = Undefined => list = Undefined
    BY <1>20, <2>1, <2>5, FindEntryType
  <2>8. CASE list = Undefined
    <3>1. entry = Undefined /\ (x = 0 \/ (~here.dir /\ at[n] = Null))
      BY <2>4, <2>5, <2>6, <2>7, <2>8
    <3>3. n - 1 # 0
      <4>1. RootEntry.cluster = Root /\ Root \in DOMAIN vol.dirs /\ at[0] = RootEntry
        BY <1>6 DEF RootEntry, WellFormed, IsTargets
      <4> QED BY <2>1, <2>5, <2>8, <4>1
    <3>4. n - 1 \in 1 .. n - 1
      BY <1>3, <3>3
    <3>2. RightEntry(vol, n, at, entry)
      BY <2>1, <2>2, <2>3, <3>1, <3>4 DEF RightEntry
    <3> QED BY <1>2, <1>4, <1>5, <1>19, <3>2
  <2>9. CASE list = Null
    <3>1. entry = Null /\ here.dir /\ FirstCluster(here) = x
      BY <2>4, <2>5, <2>7, <2>9, AnswersAssumption
    <3>2. Small(vol, x) => at[n] = Null
      BY <2>5, <2>6, <2>9, <3>1
    <3>3. RightEntry(vol, n, at, entry)
      BY <2>1, <2>3, <3>1, <3>2, AnswersAssumption DEF RightEntry
    <3> QED BY <1>2, <1>4, <1>5, <1>19, <3>3
  <2>10. CASE list \notin {Null, Undefined}
    <3>1. entry = Lookup(vol, x, names[n]) /\ here.dir /\ FirstCluster(here) = x
      BY <1>20, <2>1, <2>4, <2>5, <2>10
    <3>2. entry = at[n] /\ entry # Undefined
      BY <2>6, <2>7, <2>10, <3>1
    <3>3. RightEntry(vol, n, at, entry)
      BY <3>2 DEF RightEntry
    <3> QED BY <1>2, <1>4, <1>5, <1>19, <3>3
  <2> QED BY <2>8, <2>9, <2>10
<1> QED BY <1>17, <1>21, <1>22

\* A path that a mount point serves begins with its path.
LEMMA MatchFacts ==
    ASSUME NEW path \in Seq(Chars), NEW mp \in Seq(Chars), mp # <<>>,
           Substring(path, 0, Len(mp)) = mp
    PROVE  Len(mp) \in 1 .. Len(path) /\ path # <<>> /\ path[1] = mp[1]
<1>1. PICK n, k : n = Len(path) /\ k = Len(mp)
  OBVIOUS
<1>2. n \in Nat /\ k \in Nat /\ k >= 1
  BY <1>1, EmptySeq, LenProperties
<1>3. k <= n
  <2> SUFFICES ASSUME k > n PROVE FALSE
    BY <1>2
  <2>1. 0 + k > n /\ n - 0 = n
    BY <1>2
  <2>2. Substring(path, 0, k) = [i \in 1 .. n |-> path[0 + i]]
    BY <1>1, <2>1 DEF Substring
  <2>3. DOMAIN mp = 1 .. n
    BY <1>1, <2>2
  <2>4. DOMAIN mp = 1 .. k
    BY <1>1, LenProperties
  <2>5. k \in 1 .. k /\ k \notin 1 .. n
    BY <1>2
  <2> QED BY <2>3, <2>4, <2>5
<1>4. mp = SubSeq(path, 1, k)
  <2>1. k \in 0 .. Len(path)
    BY <1>1, <1>2, <1>3
  <2> QED BY <1>1, <2>1, SubstringHead
<1>5. path[1] = mp[1]
  BY <1>1, <1>2, <1>3, <1>4
<1> QED BY <1>1, <1>2, <1>3, <1>5, EmptySeq

\* The mount point that serves a path, and the path below it.
LEMMA ServedFacts ==
    ASSUME MountInv, NEW path \in Paths, Matches(path) # {}
    PROVE  /\ Min(Matches(path)) \in Matches(path)
           /\ MountOf(path).part \in Parts
           /\ MountOf(path).path \in Seq(Chars)
           /\ path \in Seq(Chars)
           /\ Len(MountOf(path).path) \in 1 .. Len(path)
           /\ path # <<>> /\ path[1] = MountOf(path).path[1]
           /\ RestOf(path, MountOf(path)) \in Seq(Chars)
<1>1. PICK M, k, m : M = Matches(path) /\ k = Min(M) /\ m = mountList[k]
  OBVIOUS
<1>2. DOMAIN mountList = 1 .. Len(mountList) /\ Len(mountList) \in Nat
  BY LenProperties DEF MountInv, MountTypes
<1>3. k \in M
  <2>1. M \in SUBSET Nat
    BY <1>1, <1>2 DEF Matches
  <2> QED BY <1>1, <2>1, LeastNumber
<1>4. k \in 1 .. Len(mountList) /\ Substring(path, 0, Len(m.path)) = m.path
  BY <1>1, <1>2, <1>3 DEF Matches
<1>5. m \in Mountpoint
  BY <1>1, <1>4, ElementOfSeq DEF MountInv, MountTypes
<1>6. m.part \in Parts /\ m.path \in Seq(Chars) /\ m.path # <<>> /\ path \in Seq(Chars)
  BY <1>5, MountPathsAssumption, PathsAssumption DEF Mountpoint
<1>7. Len(m.path) \in 1 .. Len(path) /\ path # <<>> /\ path[1] = m.path[1]
  <2>1. PICK mp : mp = m.path
    OBVIOUS
  <2> QED BY <1>4, <1>6, <2>1, MatchFacts
<1>8. RestOf(path, m) \in Seq(Chars)
  <2>1. CASE m.path = <<Slash>>
    BY <1>6, <2>1 DEF RestOf
  <2>2. CASE m.path # <<Slash>>
    <3>1. PICK a, n : a = Len(m.path) /\ n = Len(path)
      OBVIOUS
    <3>2. RestOf(path, m) = SubSeq(path, a + 1, n)
      BY <1>6, <1>7, <2>2, <3>1, SubstringTail DEF RestOf
    <3>3. n \in Nat /\ a \in 1 .. n
      BY <1>6, <1>7, <3>1, LenProperties
    <3>4. \A j \in a + 1 .. n : path[j] \in Chars
      BY <1>6, <3>1, <3>3, ElementOfSeq
    <3> QED BY <3>2, <3>3, <3>4, SubSeqProperties
  <2> QED BY <2>1, <2>2
<1>9. MountOf(path) = m
  BY <1>1 DEF MountOf
<1> QED BY <1>1, <1>3, <1>6, <1>7, <1>8, <1>9

\* The comparison of strings finds the mount paths that a path begins with.
LEMMA MatchesArePrefixes ==
    ASSUME MountInv, NEW path \in Paths
    PROVE  Matches(path) = {i \in DOMAIN mountList : IsPrefix(mountList[i].path, path)}
<1> SUFFICES ASSUME NEW i \in DOMAIN mountList
             PROVE  Substring(path, 0, Len(mountList[i].path)) = mountList[i].path
                      <=> IsPrefix(mountList[i].path, path)
  BY DEF Matches
<1>1. PICK mp, k : mp = mountList[i].path /\ k = Len(mp)
  OBVIOUS
<1>2. mountList[i] \in Mountpoint
  BY ElementOfSeq, LenProperties DEF MountInv, MountTypes
<1>3. mp \in Seq(Chars) /\ mp # <<>> /\ path \in Seq(Chars)
  BY <1>1, <1>2, MountPathsAssumption, PathsAssumption DEF Mountpoint
<1>4. k \in Nat /\ Len(path) \in Nat
  BY <1>1, <1>3, LenProperties
<1>5. SubSeq(mp, 1, k) = mp
  <2>1. /\ SubSeq(mp, 1, k) \in Seq(Chars) /\ Len(SubSeq(mp, 1, k)) = k
        /\ \A j \in 1 .. k : SubSeq(mp, 1, k)[j] = mp[j]
    BY <1>1, <1>3, <1>4, SubSeqProperties
  <2> QED BY <1>1, <1>3, <2>1, SeqEqual
<1>6. ASSUME Substring(path, 0, k) = mp PROVE IsPrefix(mp, path)
  <2>1. k \in 1 .. Len(path)
    BY <1>1, <1>3, <1>6, MatchFacts
  <2>2. Substring(path, 0, k) = SubSeq(path, 1, k) /\ k <= Len(path)
    BY <1>3, <1>4, <2>1, SubstringHead
  <2> QED BY <1>1, <1>5, <1>6, <2>2 DEF IsPrefix
<1>7. ASSUME IsPrefix(mp, path) PROVE Substring(path, 0, k) = mp
  <2>1. k <= Len(path) /\ mp = SubSeq(path, 1, k)
    BY <1>1, <1>5, <1>7 DEF IsPrefix
  <2>2. k \in 0 .. Len(path)
    BY <1>4, <2>1
  <2> QED BY <1>3, <2>1, <2>2, SubstringHead
<1> QED BY <1>1, <1>6, <1>7

\* A path that does not begin with a slash is looked for from the root, too.
LEMMA OpenFileRelative ==
    ASSUME NEW vol, NEW s \in Seq(Chars), Slashes(s) # {}, s[1] # Slash
    PROVE  OpenFile(vol, s) = OpenFile(vol, <<Slash>> \o s)
<1>1. PICK t, n, r : t = <<Slash>> \o s /\ n = Len(s) /\ r = Rindex(s)
  OBVIOUS
<1>2. n \in Nat /\ DOMAIN s = 1 .. n
  BY <1>1, LenProperties
<1>3. /\ t \in Seq(Chars) /\ Len(t) = n + 1 /\ t[1] = Slash
      /\ \A i \in 1 .. n : t[i + 1] = s[i]
  <2>1. <<Slash>> \in Seq(Chars) /\ Len(<<Slash>>) = 1 /\ <<Slash>>[1] = Slash
    BY CharsAssumption
  <2>2. t \in Seq(Chars) /\ Len(t) = 1 + n
    BY <1>1, <1>2, <2>1, ConcatProperties
  <2>3. \A i \in 1 .. 1 + n : t[i] = IF i <= 1 THEN <<Slash>>[i] ELSE s[i - 1]
    BY <1>1, <1>2, <2>1, ConcatProperties
  <2>4. \A i \in 1 .. n : /\ i + 1 \in 1 .. 1 + n /\ ~(i + 1 <= 1)
                         /\ (i + 1) - 1 = i
    BY <1>2
  <2>5. 1 \in 1 .. 1 + n /\ 1 <= 1
    BY <1>2
  <2> QED BY <1>2, <2>1, <2>2, <2>3, <2>4, <2>5
<1>4. r \in 1 .. n - 1 /\ s[r + 1] = Slash /\ \A i \in Slashes(s) : i <= r
  <2>1. r \in Slashes(s) /\ r \in 0 .. n - 1 /\ \A i \in Slashes(s) : i <= r
    BY <1>1, RindexFacts
  <2>2. s[r + 1] = Slash
    BY <2>1, SlashesFacts
  <2>3. r # 0
    BY <2>2
  <2> QED BY <1>2, <2>1, <2>2, <2>3
<1>5. Slashes(t) # {} /\ Rindex(t) = r + 1
  <2>1. r + 1 \in 0 .. Len(t) - 1 /\ r + 1 \in 1 .. n /\ t[(r + 1) + 1] = s[r + 1]
    BY <1>2, <1>3, <1>4
  <2>2. r + 1 \in Slashes(t)
    BY <1>3, <1>4, <2>1, SlashesFacts
  <2>3. PICK q : q = Rindex(t)
    OBVIOUS
  <2>4. q \in 0 .. Len(t) - 1 /\ r + 1 <= q /\ t[q + 1] = Slash
    BY <1>3, <2>2, <2>3, RindexFacts, SlashesFacts
  <2>5. q \in 1 .. n /\ q - 1 \in 0 .. n - 1 /\ (q - 1) + 1 = q
    BY <1>2, <1>3, <1>4, <2>4
  <2>6. q - 1 \in Slashes(s)
    BY <1>1, <1>3, <2>4, <2>5, SlashesFacts
  <2>7. q - 1 <= r
    BY <1>4, <2>6
  <2>8. q = r + 1
    BY <1>4, <2>4, <2>5, <2>7
  <2> QED BY <2>2, <2>3, <2>8
<1>6. Filename(t) = Filename(s)
  <2>1. PICK u, v : u = SubSeq(s, r + 2, n) /\ v = SubSeq(t, r + 3, n + 1)
    OBVIOUS
  <2>2. PICK m : m = n - (r + 1)
    OBVIOUS
  <2>3. /\ u \in Seq(Chars) /\ Len(u) = m
        /\ \A i \in 1 .. m : u[i] = s[r + 1 + i]
    <3>1. \A i \in 1 .. m : (r + 2) + i - 1 = r + 1 + i
      BY <1>4
    <3>2. PICK a : a = r + 2
      OBVIOUS
    <3>3. \A i \in a .. n : s[i] \in Chars
      <4>1. \A i \in a .. n : i \in 1 .. Len(s)
        BY <1>1, <1>2, <1>4, <3>2
      <4> QED BY <4>1, ElementOfSeq
    <3>4. /\ u \in Seq(Chars) /\ Len(u) = IF a <= n THEN n - a + 1 ELSE 0
          /\ \A i \in 1 .. n - a + 1 : u[i] = s[a + i - 1]
      BY <1>2, <1>4, <2>1, <3>2, <3>3, SubSeqProperties
    <3>5. Len(u) = m /\ n - a + 1 = m
      BY <1>2, <1>4, <2>2, <3>2, <3>4
    <3> QED BY <3>1, <3>2, <3>4, <3>5
  <2>4. /\ v \in Seq(Chars) /\ Len(v) = m
        /\ \A i \in 1 .. m : v[i] = t[r + 2 + i]
    <3>1. r + 3 \in 1 .. Len(t) + 1 /\ n + 1 \in (r + 3) - 1 .. Len(t)
          /\ (n + 1) - (r + 3) + 1 = m /\ \A i \in 1 .. m : (r + 3) + i - 1 = r + 2 + i
      BY <1>2, <1>3, <1>4, <2>2
    <3> QED BY <1>3, <2>1, <3>1, SubSeqProperties
  <2>5. ASSUME NEW i \in 1 .. m PROVE u[i] = v[i]
    <3>1. r + 1 + i \in 1 .. n /\ (r + 1 + i) + 1 = r + 2 + i
      BY <1>2, <1>4, <2>2
    <3> QED BY <1>3, <2>3, <2>4, <3>1
  <2>6. u = v
    BY <2>3, <2>4, <2>5, SeqEqual
  <2>7. Filename(s) = u
    BY <1>1, <2>1 DEF Filename
  <2>8. Filename(t) = v
    <3>1. (r + 1) + 2 = r + 3
      BY <1>4
    <3> QED BY <1>3, <1>5, <2>1, <3>1 DEF Filename
  <2> QED BY <2>6, <2>7, <2>8
<1>7. PICK d, e : d = Dirname(s) /\ e = Dirname(t)
  OBVIOUS
<1>8. /\ d \in Seq(Chars) /\ Len(d) = r /\ \A i \in 1 .. r : d[i] = s[i]
  <2>1. d = SubSeq(s, 1, r)
    BY <1>1, <1>7, DirnameFacts
  <2>2. r \in 0 .. Len(s) /\ r \in Nat
    BY <1>1, <1>2, <1>4
  <2> QED BY <2>1, <2>2
<1>9. /\ e \in Seq(Chars) /\ Len(e) = r + 1 /\ \A i \in 1 .. r + 1 : e[i] = t[i]
  <2>1. e = SubSeq(t, 1, r + 1)
    BY <1>3, <1>5, <1>7, DirnameFacts
  <2>2. r + 1 \in 0 .. Len(t) /\ r + 1 \in Nat
    BY <1>2, <1>3, <1>4
  <2> QED BY <1>3, <2>1, <2>2
<1>10. e # <<>> /\ e[1] = Slash /\ Tail(e) = d
  <2>1. r \in Nat /\ r + 1 # 0 /\ 1 \in 1 .. r + 1 /\ (r + 1) - 1 = r
    BY <1>4
  <2>2. e # <<>>
    BY <1>9, <2>1, EmptySeq
  <2>3. e[1] = Slash
    BY <1>3, <1>9, <2>1
  <2>4. /\ Tail(e) \in Seq(Chars) /\ Len(Tail(e)) = r
        /\ \A i \in 1 .. r : Tail(e)[i] = e[i + 1]
    BY <1>9, <2>1, <2>2, HeadTailProperties
  <2>5. ASSUME NEW i \in 1 .. r PROVE Tail(e)[i] = d[i]
    <3>1. i + 1 \in 1 .. r + 1 /\ i \in 1 .. n
      BY <1>2, <1>4
    <3> QED BY <1>3, <1>8, <1>9, <2>4, <3>1
  <2>6. Tail(e) = d
    BY <1>8, <2>4, <2>5, SeqEqual
  <2> QED BY <2>2, <2>3, <2>6
<1>11. d # <<>> /\ d[1] # Slash
  <2>1. 1 \in 1 .. r /\ r # 0
    BY <1>4
  <2> QED BY <1>8, <2>1, EmptySeq
<1>12. ReadDirectory(vol, e) = ReadDirectory(vol, d)
  BY <1>10, <1>11 DEF ReadDirectory
<1> QED BY <1>1, <1>5, <1>6, <1>7, <1>12 DEF OpenFile

\* What OpensTheFile says of an answer.
OpenedRight(list, path, entry) ==
    LET heads == {i \in DOMAIN list : IsPrefix(list[i].path, path)}
        m == list[Min(heads)]
        vol == Volumes[m.part]
        rest == Rest(m.path, path)
        names == NamesIn(rest)
        n == Len(names)
        at == Targets(vol, names)
    IN  /\ heads = {} => entry = Null
        /\ heads # {} /\ (\A i \in 1 .. n : names[i] # <<>>) =>
           /\ entry \notin {Null, Undefined} => entry = at[n]
           /\ entry = Undefined =>
                 \/ \A i \in DOMAIN rest : rest[i] # Slash
                 \/ \E i \in 1 .. n - 1 :
                       at[i] # Null /\ (~at[i].dir \/ at[i].cluster = 0)
           /\ /\ at[n] # Null
              /\ \E i \in DOMAIN rest : rest[i] = Slash
              /\ \A i \in 0 .. n - 1 :
                    at[i].cluster # 0 /\ Small(vol, at[i].cluster)
              => entry = at[n]
OpenAnswer(path) ==
    IF Matches(path) = {} THEN Null
    ELSE OpenFile(Volumes[MountOf(path).part], RestOf(path, MountOf(path)))

\* It is right with the mount points in order.
LEMMA OpenIsRight ==
    ASSUME MountInv, NEW path \in Paths
    PROVE  OpenedRight(mountList, path, OpenAnswer(path))
<1>1. PICK heads, entry :
         /\ heads = {i \in DOMAIN mountList : IsPrefix(mountList[i].path, path)}
         /\ entry = OpenAnswer(path)
  OBVIOUS
<1>2. PICK m : m = mountList[Min(heads)]
  OBVIOUS
<1>3. PICK vol, rest : vol = Volumes[m.part] /\ rest = Rest(m.path, path)
  OBVIOUS
<1>4. PICK names, n, at : /\ names = NamesIn(rest) /\ n = Len(names)
                          /\ at = Targets(vol, names)
  OBVIOUS
<1>5. heads = Matches(path)
  BY <1>1, MatchesArePrefixes
<1>6. heads = {} => entry = Null
  BY <1>1, <1>5 DEF OpenAnswer
<1> DEFINE HasSlash == \E i \in DOMAIN rest : rest[i] = Slash
<1>7. ASSUME heads # {}, \A i \in 1 .. n : names[i] # <<>>
      PROVE  (HasSlash /\ RightEntry(vol, n, at, entry)) \/ (~HasSlash /\ entry = Undefined)
  <2>1. MountOf(path) = m
    BY <1>2, <1>5 DEF MountOf
  <2>2. /\ m.part \in Parts /\ m.path \in Seq(Chars) /\ path \in Seq(Chars)
        /\ Len(m.path) \in 1 .. Len(path) /\ RestOf(path, m) \in Seq(Chars)
    BY <1>5, <1>7, <2>1, ServedFacts
  <2>3. WellFormed(vol)
    BY <1>3, <2>2, VolumesAssumption
  <2>4. RestOf(path, m) = rest /\ rest \in Seq(Chars)
    <3>1. CASE m.path = <<Slash>>
      BY <1>3, <2>2, <3>1 DEF Rest, RestOf
    <3>2. CASE m.path # <<Slash>>
      BY <1>3, <2>2, <3>2, SubstringTail DEF Rest, RestOf
    <3> QED BY <2>2, <3>1, <3>2
  <2>5. entry = OpenFile(vol, rest)
    BY <1>1, <1>3, <1>5, <1>7, <2>1, <2>4 DEF OpenAnswer
  <2>6. HasSlash <=> Slashes(rest) # {}
    BY DEF Slashes
  <2>7. CASE ~HasSlash
    BY <2>5, <2>6, <2>7 DEF OpenFile
  <2>8. CASE HasSlash
    <3> HIDE DEF HasSlash
    <3>1. PICK local : local = IF rest # <<>> /\ rest[1] = Slash THEN rest ELSE <<Slash>> \o rest
      OBVIOUS
    <3>2. names = Components(local)
      BY <1>4, <3>1 DEF NamesIn
    <3>3. rest # <<>>
      <4>1. DOMAIN rest # {}
        BY <2>8 DEF HasSlash
      <4> QED BY <4>1
    <3>4. local \in Seq(Chars) /\ local # <<>> /\ local[1] = Slash /\ entry = OpenFile(vol, local)
      <4>1. CASE rest[1] = Slash
        BY <2>4, <2>5, <3>1, <3>3, <4>1
      <4>2. CASE rest[1] # Slash
        <5>1. local = <<Slash>> \o rest
          BY <3>1, <4>2
        <5>2. entry = OpenFile(vol, local)
          BY <2>4, <2>5, <2>6, <2>8, <4>2, <5>1, OpenFileRelative
        <5>3. <<Slash>> \in Seq(Chars) /\ Len(<<Slash>>) = 1 /\ <<Slash>>[1] = Slash
          BY CharsAssumption
        <5>4. local \in Seq(Chars) /\ Len(local) = 1 + Len(rest) /\ Len(rest) \in Nat
          BY <2>4, <5>1, <5>3, ConcatProperties, LenProperties
        <5>5. local[1] = Slash
          BY <2>4, <5>1, <5>3, <5>4, ConcatProperties
        <5>6. local # <<>>
          BY <5>4, EmptySeq
        <5> QED BY <5>2, <5>4, <5>5, <5>6
      <4> QED BY <4>1, <4>2
    <3>5. \A i \in 1 .. Len(Components(local)) : Components(local)[i] # <<>>
      BY <1>4, <1>7, <3>2
    <3>6. RightEntry(vol, n, at, entry)
      BY <1>4, <2>3, <3>2, <3>4, <3>5, OpenFileFinds
    <3> QED BY <2>8, <3>6
  <2> QED BY <2>7, <2>8
<1>8. heads # {} /\ (\A i \in 1 .. n : names[i] # <<>>) =>
        /\ entry \notin {Null, Undefined} => entry = at[n]
        /\ entry = Undefined =>
              \/ \A i \in DOMAIN rest : rest[i] # Slash
              \/ \E i \in 1 .. n - 1 :
                    at[i] # Null /\ (~at[i].dir \/ at[i].cluster = 0)
        /\ /\ at[n] # Null
           /\ \E i \in DOMAIN rest : rest[i] = Slash
           /\ \A i \in 0 .. n - 1 :
                 at[i].cluster # 0 /\ Small(vol, at[i].cluster)
           => entry = at[n]
  <2> SUFFICES ASSUME heads # {}, \A i \in 1 .. n : names[i] # <<>>
               PROVE  /\ entry \notin {Null, Undefined} => entry = at[n]
                      /\ entry = Undefined =>
                            \/ ~HasSlash
                            \/ \E i \in 1 .. n - 1 :
                                  at[i] # Null /\ (~at[i].dir \/ at[i].cluster = 0)
                      /\ /\ at[n] # Null
                         /\ HasSlash
                         /\ \A i \in 0 .. n - 1 :
                               at[i].cluster # 0 /\ Small(vol, at[i].cluster)
                         => entry = at[n]
    OBVIOUS
  <2>1. (HasSlash /\ RightEntry(vol, n, at, entry)) \/ (~HasSlash /\ entry = Undefined)
    BY <1>7
  <2> HIDE DEF HasSlash
  <2> QED BY <2>1 DEF RightEntry
<1>9. OpenedRight(mountList, path, entry)
  <2> HIDE DEF HasSlash
  <2> QED BY <1>1, <1>2, <1>3, <1>4, <1>6, <1>8 DEF OpenedRight
<1> QED BY <1>1, <1>9

\* So is the answer that Open leaves in last.
LEMMA OpenStep ==
    ASSUME MountInv, NEW path \in Paths, Open(path)
    PROVE  OpensTheFile'
<1>1. /\ last' = [call |-> "open", path |-> path, entry |-> OpenAnswer(path)]
      /\ mountList' = mountList
  BY DEF Open, OpenAnswer
<1>2. last'.path = path /\ last'.entry = OpenAnswer(path)
  BY <1>1
<1>3. OpenedRight(mountList, path, OpenAnswer(path))
  BY OpenIsRight
<1>4. PICK entry : entry = OpenAnswer(path)
  OBVIOUS
<1>5. OpenedRight(mountList, path, entry) /\ last'.entry = entry
  BY <1>2, <1>3, <1>4
<1>6. OpenedRight(mountList', last'.path, last'.entry)
  BY <1>1, <1>2, <1>5
<1> QED BY <1>6 DEF OpensTheFile, OpenedRight

\* The bytes of a file begin with those of its first cluster.
LEMMA FileBytesFacts ==
    ASSUME NEW vol, WellFormed(vol), NEW c \in DOMAIN vol.fat, NEW all,
           all = FileBytes(vol, c)
    PROVE  all \in Seq(Nat) /\ Begins(vol.data[c], all)
<1>1. PICK D : D = DOMAIN vol.fat
  OBVIOUS
<1>2. Closed(vol, D) /\ c \in D
  BY <1>1 DEF Closed, WellFormed
<1>3. PICK chain : chain = Chain(vol, c)
  OBVIOUS
<1>4. chain \in Seq(D) /\ chain # <<>> /\ chain[1] = c
  BY <1>2, <1>3, ChainFacts
<1>5. PICK n : n = Len(chain)
  OBVIOUS
<1>6. n \in Nat /\ n >= 1 /\ DOMAIN chain = 1 .. n /\ \A i \in 1 .. n : chain[i] \in D
  BY <1>4, <1>5, EmptySeq, LenProperties, ElementOfSeq
<1>7. PICK q : q = [i \in DOMAIN chain |-> vol.data[chain[i]]]
  OBVIOUS
<1>8. q \in Seq(Seq(Nat)) /\ Len(q) = n
  <2>1. \A x \in D : vol.data[x] \in Seq(Nat)
    BY <1>1 DEF WellFormed
  <2>2. q \in [1 .. n -> Seq(Nat)]
    BY <1>6, <1>7, <2>1
  <2> QED BY <1>6, <2>2, FunctionIsSeq
<1>9. q # <<>>
  BY <1>6, <1>8
<1>10. q[1] = vol.data[c]
  <2>1. 1 \in DOMAIN chain
    BY <1>6
  <2> QED BY <1>4, <1>7, <2>1
<1>11. all = FlattenSeq(q)
  BY <1>3, <1>7 DEF FileBytes
<1> QED BY <1>8, <1>9, <1>10, <1>11, FlattenFacts

\* The first sector is where it belongs in the buffer, and it is all of the
\* buffer when a cluster is one sector.
LEMMA ClusterBufferFacts ==
    ASSUME NEW vol, WellFormed(vol), NEW c \in DOMAIN vol.fat,
           NEW j \in 1 .. BytesPerCluster(vol), vol.spc = 1 \/ j <= SectorBytes
    PROVE  /\ ClusterBuffer(vol, c)[j] = vol.data[c][j]
           /\ j \in 1 .. Len(vol.data[c])
<1>1. PICK bytes, step, b, spc : /\ bytes = BytesPerCluster(vol) /\ step = WordBytes * b
                                /\ b = SectorBytes /\ spc = vol.spc
  OBVIOUS
<1>2. /\ bytes \in Nat /\ b \in Nat \ {0} /\ spc \in Nat \ {0} /\ j \in 1 .. bytes
      /\ c # 0 /\ Len(vol.data[c]) = b * spc
  BY <1>1, SectorAssumption DEF WellFormed
<1>3. step \in Nat /\ b <= step
  BY <1>1, <1>2 DEF WordBytes
<1>4. spc = 1 => bytes <= b
  <2> SUFFICES ASSUME spc = 1 PROVE bytes <= b
    OBVIOUS
  <2>1. bytes = (b * 2 ^ (1 - 1)) % Word
    BY <1>1 DEF BytesPerCluster
  <2>2. 2 ^ (1 - 1) = 1
    OBVIOUS
  <2>3. bytes = b % Word
    BY <1>2, <2>1, <2>2
  <2> QED BY <1>2, <2>3, SectorAssumption
<1>5. j <= b
  BY <1>1, <1>2, <1>4
<1>6. (j - 1) \div step = 0 /\ (j - 1) % step = j - 1
  <2>1. j - 1 \in Nat /\ j - 1 < step
    BY <1>2, <1>3, <1>5
  <2> QED BY <1>3, <2>1
<1>7. ClusterBuffer(vol, c)[j]
        = LET k == (j - 1) \div step
              i == (j - 1) % step
          IN  IF c # 0 /\ i < SectorBytes /\ k < vol.spc
              THEN vol.data[c][k * SectorBytes + i + 1]
              ELSE Garbage
  BY <1>1 DEF ClusterBuffer
<1>8. ClusterBuffer(vol, c)[j] = IF j - 1 < b THEN vol.data[c][0 * b + (j - 1) + 1] ELSE Garbage
  BY <1>1, <1>2, <1>6, <1>7
<1>9. j - 1 < b /\ 0 * b + (j - 1) + 1 = j
  BY <1>2, <1>5
<1>10. b <= b * spc
  BY <1>2
<1>11. j \in 1 .. Len(vol.data[c])
  BY <1>2, <1>5, <1>10
<1> QED BY <1>8, <1>9, <1>11

\* What is copied of a cluster.
LEMMA CopiedFacts ==
    ASSUME NEW vol, BytesPerCluster(vol) \in Nat, NEW c,
           NEW offset \in Nat, NEW size \in Nat, NEW t, t = Copied(vol, c, offset, size)
    PROVE  /\ \E V : t \in Seq(V)
           /\ Len(t) \in Nat /\ Len(t) <= size
           /\ t # <<>> => offset + Len(t) <= BytesPerCluster(vol)
           /\ \A i \in 1 .. Len(t) : t[i] = ClusterBuffer(vol, c)[offset + i]
<1>1. PICK bytes, d : bytes = BytesPerCluster(vol) /\ d = ClusterBuffer(vol, c)
  OBVIOUS
<1>2. PICK V : V = {d[i] : i \in 1 .. bytes}
  OBVIOUS
<1>3. PICK A, m : A = {bytes, offset + size} /\ m = Min(A)
  OBVIOUS
<1>4. m \in A /\ \A i \in A : m <= i
  <2>1. A \in SUBSET Nat /\ A # {}
    BY <1>1, <1>3
  <2> QED BY <1>3, <2>1, LeastNumber
<1>5. m \in Nat /\ m <= bytes /\ m <= offset + size
  BY <1>1, <1>3, <1>4
<1>6. t = SubSeq(d, offset + 1, m)
  BY <1>1, <1>3 DEF Copied
<1>7. \A i \in offset + 1 .. m : d[i] \in V
  BY <1>1, <1>2, <1>5
<1>8. PICK a : a = offset + 1
  OBVIOUS
<1>9. /\ t \in Seq(V) /\ Len(t) = IF a <= m THEN m - a + 1 ELSE 0
      /\ \A i \in 1 .. m - a + 1 : t[i] = d[a + i - 1]
  BY <1>5, <1>6, <1>7, <1>8, SubSeqProperties
<1>10. Len(t) \in Nat /\ Len(t) <= size
  BY <1>5, <1>8, <1>9
<1>11. t # <<>> => offset + Len(t) <= bytes
  <2> SUFFICES ASSUME t # <<>> PROVE offset + Len(t) <= bytes
    OBVIOUS
  <2>1. Len(t) # 0
    BY <1>9, EmptySeq
  <2> QED BY <1>1, <1>5, <1>8, <1>9, <2>1
<1>12. ASSUME NEW i \in 1 .. Len(t) PROVE t[i] = d[offset + i]
  <2>1. i \in 1 .. m - a + 1 /\ a + i - 1 = offset + i
    BY <1>5, <1>8, <1>9
  <2> QED BY <1>9, <2>1
<1> QED BY <1>1, <1>9, <1>10, <1>11, <1>12

\* Quotients of natural numbers are natural numbers.
LEMMA QuotientType ==
    ASSUME NEW a \in Nat, NEW b \in Nat \ {0}
    PROVE  a \div b \in Nat
OBVIOUS

\* fat32_file::read copies from the first cluster, or gives up: the next
\* cluster is always an error.
LEMMA ReadFileFacts ==
    ASSUME NEW vol, WellFormed(vol), NEW start \in DOMAIN vol.fat \cup {0},
           NEW size \in Nat, NEW offset \in Nat
    PROVE  \/ ReadFile(vol, start, size, offset) = [ok |-> FALSE, bytes |-> <<>>]
           \/ ReadFile(vol, start, size, offset) = [ok |-> TRUE, bytes |-> <<>>]
           \/ ReadFile(vol, start, size, offset)
                = [ok |-> TRUE, bytes |-> Copied(vol, start, offset, size)]
<1>1. PICK bytes : bytes = BytesPerCluster(vol)
  OBVIOUS
<1>2. bytes \in Nat
  BY <1>1 DEF WellFormed
<1>3. PICK skip : skip = IF offset > bytes THEN (offset - 1) \div bytes ELSE 0
  OBVIOUS
<1>4. start # 1
  BY DEF WellFormed
<1> DEFINE CBody(a) == [i \in 0 .. skip + size |->
                          IF i = 0 THEN start
                          ELSE LET c == a[i - 1]
                               IN  IF c \in {0, 1} THEN c ELSE NextCluster(vol, c)]
           f == CHOOSE a : a = CBody(a)
           From(i) == IF i = skip THEN offset - skip * bytes ELSE 0
           RBody(cl, b) == [i \in 0 .. size + 1 |->
                          IF i = 0 THEN <<>>
                          ELSE LET c == cl[skip + i - 1]
                                   r == b[i - 1]
                               IN  IF i > 1 /\ c \in {0, 1} THEN r
                                   ELSE r \o Copied(vol, c, From(skip + i - 1),
                                                    size - Len(r))]
           rd(cl) == CHOOSE b : b = RBody(cl, b)
           Result(cl) == IF skip > 0 /\ cl[skip] \in {0, 1}
                         THEN [ok |-> FALSE, bytes |-> <<>>]
                         ELSE [ok |-> TRUE, bytes |-> rd(cl)[size + 1]]
<1>5. ReadFile(vol, start, size, offset)
        = IF bytes = 0 THEN [ok |-> offset = 0, bytes |-> <<>>] ELSE Result(f)
  BY <1>1, <1>3 DEF ReadFile
<1>6. CASE bytes = 0
  <2>1. ReadFile(vol, start, size, offset) = [ok |-> offset = 0, bytes |-> <<>>]
    <3> HIDE DEF Result, f
    <3> QED BY <1>5, <1>6
  <2>2. (offset = 0) = TRUE \/ (offset = 0) = FALSE
    OBVIOUS
  <2> QED BY <2>1, <2>2
<1>7. SUFFICES ASSUME bytes # 0
                PROVE  \/ ReadFile(vol, start, size, offset) = [ok |-> FALSE, bytes |-> <<>>]
                       \/ ReadFile(vol, start, size, offset)
                            = [ok |-> TRUE, bytes |-> Copied(vol, start, offset, size)]
  <2> HIDE DEF f
  <2> QED BY <1>6
<1>8. skip \in Nat
  <2>1. offset > bytes => offset - 1 \in Nat
    BY <1>2
  <2>2. offset > bytes => (offset - 1) \div bytes \in Nat
    BY <1>2, <1>7, <2>1, QuotientType
  <2> QED BY <1>3, <2>2
<1>9. PICK e, g : /\ e = IF start = 0 THEN 0 ELSE 1
                  /\ g = [i \in 0 .. skip + size |-> IF i = 0 THEN start ELSE e]
  OBVIOUS
<1>10. g = CBody(g)
  <2>1. \A i \in 0 .. skip + size : i # 0 => i - 1 \in 0 .. skip + size
    BY <1>8
  <2>2. ASSUME NEW i \in 0 .. skip + size
        PROVE  g[i] = IF i = 0 THEN start
                      ELSE LET c == g[i - 1]
                           IN  IF c \in {0, 1} THEN c ELSE NextCluster(vol, c)
    <3>1. CASE i = 0
      BY <1>9, <3>1
    <3>2. CASE i # 0
      <4>1. g[i] = e /\ g[i - 1] = IF i - 1 = 0 THEN start ELSE e
        BY <1>9, <2>1, <3>2
      <4> QED BY <1>4, <1>9, <3>2, <4>1 DEF NextCluster, ReadBlockAnswer
    <3> QED BY <3>1, <3>2
  <2> QED BY <1>9, <2>2
<1>11. PICK h : h = f /\ h = CBody(h)
  <2>1. f = CBody(f)
    <3> HIDE DEF CBody
    <3> QED BY <1>10
  <2> HIDE DEF f
  <2> QED BY <2>1
<1>12. ReadFile(vol, start, size, offset) = Result(h)
  <2> HIDE DEF f, Result
  <2> QED BY <1>5, <1>11, <1>7
<1> HIDE DEF f
<1>13. h[0] = start /\ \A i \in 1 .. skip + size :
          h[i] = IF h[i - 1] \in {0, 1} THEN h[i - 1] ELSE 1
  <2>1. 0 \in 0 .. skip + size /\ \A i \in 1 .. skip + size : i \in 0 .. skip + size /\ i # 0
    BY <1>8
  <2>2. h[0] = CBody(h)[0] /\ \A i \in 1 .. skip + size : h[i] = CBody(h)[i]
    <3> HIDE DEF CBody
    <3> QED BY <1>11
  <2>3. CBody(h)[0] = start
    BY <2>1
  <2>4. ASSUME NEW i \in 1 .. skip + size
        PROVE  CBody(h)[i] = IF h[i - 1] \in {0, 1} THEN h[i - 1] ELSE 1
    BY <2>1 DEF NextCluster, ReadBlockAnswer
  <2> HIDE DEF CBody
  <2> QED BY <2>2, <2>3, <2>4
<1>14. \A i \in 1 .. skip + size : h[i] \in {0, 1}
  <2>1. PICK n : n = skip + size
    OBVIOUS
  <2>2. n \in Nat
    BY <1>8, <2>1
  <2>3. ASSUME NEW i \in 1 .. n PROVE h[i] \in {0, 1}
    BY <1>13, <2>1
  <2> QED BY <2>1, <2>3
<1>15. CASE skip > 0
  <2>1. skip \in 1 .. skip + size
    BY <1>8, <1>15
  <2>2. h[skip] \in {0, 1}
    BY <1>14, <2>1
  <2>3. Result(h) = [ok |-> FALSE, bytes |-> <<>>]
    <3> HIDE DEF rd
    <3> QED BY <1>15, <2>2
  <2> HIDE DEF Result
  <2> QED BY <1>12, <2>3
<1>16. CASE skip = 0
  <2>1. PICK X : X = Copied(vol, start, offset, size)
    OBVIOUS
  <2>2. PICK V : X \in Seq(V)
    BY <1>1, <1>2, <2>1, CopiedFacts
  <2>3. From(0) = offset
    BY <1>2, <1>16
  <2> DEFINE Round(b, i) == LET c == h[skip + i - 1]
                                r == b[i - 1]
                            IN  IF i > 1 /\ c \in {0, 1} THEN r
                                ELSE r \o Copied(vol, c, From(skip + i - 1),
                                                 size - Len(r))
  <2>4. ASSUME NEW b, b[0] = <<>> PROVE Round(b, 1) = X
    <3>1. skip + 1 - 1 = 0 /\ 1 - 1 = 0 /\ ~(1 > 1) /\ size - 0 = size
      BY <1>8, <1>16
    <3>2. Round(b, 1) = b[0] \o Copied(vol, h[0], From(0), size - Len(b[0]))
      <4> HIDE DEF From
      <4> QED BY <3>1
    <3>3. Len(b[0]) = 0
      BY <2>4
    <3>4. Round(b, 1) = <<>> \o X
      <4> HIDE DEF From, Round
      <4> QED BY <1>13, <2>1, <2>3, <2>4, <3>1, <3>2, <3>3
    <3> HIDE DEF Round
    <3> QED BY <2>2, <3>4
  <2>5. ASSUME NEW b, NEW i \in 2 .. size + 1 PROVE Round(b, i) = b[i - 1]
    <3>1. skip + i - 1 \in 1 .. skip + size /\ i > 1
      BY <1>8, <1>16
    <3>2. h[skip + i - 1] \in {0, 1}
      BY <1>14, <3>1
    <3> HIDE DEF From
    <3> QED BY <3>1, <3>2
  <2>6. ASSUME NEW b PROVE RBody(h, b) = [i \in 0 .. size + 1 |-> IF i = 0 THEN <<>> ELSE Round(b, i)]
    OBVIOUS
  <2> HIDE DEF Round, RBody
  <2>7. PICK g2 : g2 = [i \in 0 .. size + 1 |-> IF i = 0 THEN <<>> ELSE X]
    OBVIOUS
  <2>8. g2 = RBody(h, g2)
    <3>1. g2[0] = <<>> /\ \A i \in 1 .. size + 1 : g2[i] = X
      BY <2>7
    <3>2. Round(g2, 1) = X
      BY <2>4, <3>1
    <3>3. \A i \in 2 .. size + 1 : Round(g2, i) = X
      <4>1. \A i \in 2 .. size + 1 : i - 1 \in 1 .. size + 1
        OBVIOUS
      <4> QED BY <2>5, <3>1, <4>1
    <3>4. \A i \in 0 .. size + 1 : i = 0 \/ Round(g2, i) = X
      <4>1. \A i \in 0 .. size + 1 : i = 0 \/ i = 1 \/ i \in 2 .. size + 1
        OBVIOUS
      <4> QED BY <3>2, <3>3, <4>1
    <3> QED BY <2>6, <2>7, <3>4
  <2>9. PICK r : r = rd(h) /\ r = RBody(h, r)
    <3>1. rd(h) = RBody(h, rd(h))
      BY <2>8
    <3> HIDE DEF rd
    <3> QED BY <3>1
  <2>10. r[0] = <<>> /\ \A i \in 1 .. size + 1 : r[i] = Round(r, i)
    <3>1. r = [i \in 0 .. size + 1 |-> IF i = 0 THEN <<>> ELSE Round(r, i)]
      BY <2>6, <2>9
    <3>2. 0 \in 0 .. size + 1 /\ \A i \in 1 .. size + 1 : i \in 0 .. size + 1 /\ i # 0
      OBVIOUS
    <3> QED BY <3>1, <3>2
  <2>11. r[size + 1] = X
    <3> DEFINE T == {i \in 0 .. size : r[i + 1] = X}
    <3>1. 0 \in T
      BY <2>4, <2>10
    <3>2. ASSUME NEW i \in 0 .. size - 1, i \in T PROVE i + 1 \in T
      <4>1. /\ (i + 1) + 1 \in 2 .. size + 1 /\ ((i + 1) + 1) - 1 = i + 1
            /\ (i + 1) + 1 \in 1 .. size + 1 /\ i + 1 \in 0 .. size
        OBVIOUS
      <4>2. r[(i + 1) + 1] = r[i + 1]
        BY <2>5, <2>10, <4>1
      <4> QED BY <3>2, <4>1, <4>2
    <3>3. \A i \in 0 .. size : i \in T
      <4> HIDE DEF T
      <4> QED BY <3>1, <3>2, IntervalInduction
    <3> QED BY <3>3
  <2>12. Result(h) = [ok |-> TRUE, bytes |-> rd(h)[size + 1]]
    <3> HIDE DEF rd
    <3> QED BY <1>16
  <2> HIDE DEF rd, Result
  <2> QED BY <1>12, <2>1, <2>9, <2>11, <2>12
<1> QED BY <1>8, <1>15, <1>16

\* What read answers.
Delivered(vol, c, all, offset, size, answer) ==
    /\ Len(answer.bytes) <= size
    /\ ~answer.ok => answer.bytes = <<>>
    /\ c # 0 => \A i \in DOMAIN answer.bytes :
                   vol.spc = 1 \/ offset + i <= SectorBytes =>
                      answer.bytes[i] = all[offset + i]
\* The bytes of the first sector, and no more than there are, whatever read is
\* asked for.
LEMMA ReadDelivers ==
    ASSUME NEW vol, WellFormed(vol), NEW c \in DOMAIN vol.fat \cup {0}, NEW all,
           all = FileBytes(vol, c),
           NEW size \in Nat, NEW offset \in Nat
    PROVE  Delivered(vol, c, all, offset, size, ReadFile(vol, c, size, offset))
<1>1. PICK bytes, t : bytes = BytesPerCluster(vol) /\ t = Copied(vol, c, offset, size)
  OBVIOUS
<1>2. bytes \in Nat
  BY <1>1 DEF WellFormed
<1>3. /\ \E V : t \in Seq(V)
      /\ Len(t) \in Nat /\ Len(t) <= size
      /\ t # <<>> => offset + Len(t) <= bytes
      /\ \A i \in 1 .. Len(t) : t[i] = ClusterBuffer(vol, c)[offset + i]
  <2>1. BytesPerCluster(vol) \in Nat
    BY <1>1, <1>2
  <2>2. /\ \E V : t \in Seq(V)
        /\ Len(t) \in Nat /\ Len(t) <= size
        /\ t # <<>> => offset + Len(t) <= BytesPerCluster(vol)
        /\ \A i \in 1 .. Len(t) : t[i] = ClusterBuffer(vol, c)[offset + i]
    <3>1. \E V : t \in Seq(V)
      BY <1>1, <2>1, CopiedFacts
    <3>2. Len(t) \in Nat /\ Len(t) <= size
      BY <1>1, <2>1, CopiedFacts
    <3>3. t # <<>> => offset + Len(t) <= BytesPerCluster(vol)
      BY <1>1, <2>1, CopiedFacts
    <3>4. \A i \in 1 .. Len(t) : t[i] = ClusterBuffer(vol, c)[offset + i]
      BY <1>1, <2>1, CopiedFacts
    <3> QED BY <3>1, <3>2, <3>3, <3>4, Zenon
  <2> QED BY <1>1, <2>2, Zenon
<1>4. DOMAIN t = 1 .. Len(t)
  <2>1. PICK V : t \in Seq(V)
    BY <1>3
  <2> QED BY <2>1, LenProperties
<1>5. ASSUME c # 0, NEW i \in DOMAIN t, vol.spc = 1 \/ offset + i <= SectorBytes
      PROVE  t[i] = all[offset + i]
  <2>1. PICK j : j = offset + i
    OBVIOUS
  <2>2. i \in 1 .. Len(t)
    BY <1>4, <1>5
  <2>3. t # <<>>
    <3>1. Len(t) # 0
      BY <1>3, <2>2
    <3> QED BY <3>1, EmptySeq
  <2>4. j \in 1 .. bytes
    BY <1>2, <1>3, <2>1, <2>2, <2>3
  <2>5. c \in DOMAIN vol.fat
    BY <1>5
  <2>6. ClusterBuffer(vol, c)[j] = vol.data[c][j] /\ j \in 1 .. Len(vol.data[c])
    BY <1>1, <1>5, <2>1, <2>4, <2>5, ClusterBufferFacts
  <2>7. Begins(vol.data[c], all)
    BY <2>5, FileBytesFacts
  <2>8. all[j] = vol.data[c][j]
    BY <2>6, <2>7 DEF Begins
  <2> QED BY <1>3, <2>1, <2>2, <2>6, <2>8
<1>6. PICK ans : ans = ReadFile(vol, c, size, offset)
  OBVIOUS
<1>7. \/ ans = [ok |-> FALSE, bytes |-> <<>>]
      \/ ans = [ok |-> TRUE, bytes |-> <<>>]
      \/ ans = [ok |-> TRUE, bytes |-> t]
  BY <1>1, <1>6, ReadFileFacts
<1>8. ans.bytes = <<>> \/ (ans.bytes = t /\ ans.ok)
  BY <1>7
<1>9. CASE ans.bytes = <<>>
  <2>1. Len(ans.bytes) = 0 /\ DOMAIN ans.bytes = {}
    BY <1>9
  <2> QED BY <1>6, <1>9, <2>1 DEF Delivered
<1>10. CASE ans.bytes = t /\ ans.ok
  <2>1. Delivered(vol, c, all, offset, size, ans)
    BY <1>3, <1>5, <1>10 DEF Delivered
  <2> QED BY <1>6, <2>1
<1> QED BY <1>8, <1>9, <1>10

\* A file that is open is on a partition, and has a first cluster there or none.
FileInv ==
    file # Null => /\ file.part \in Parts
                   /\ file.cluster \in DOMAIN Volumes[file.part].fat \cup {0}
FilesInv == MountInv /\ FileInv /\ OpensTheFile /\ DeliversTheFile

\* What open_file answers with can be read.
LEMMA OpenKeepsFileInv ==
    ASSUME MountInv, NEW path \in Paths, Open(path)
    PROVE  FileInv'
<1>1. PICK entry, m : entry = OpenAnswer(path) /\ m = MountOf(path)
  OBVIOUS
<1>2. file' = IF entry \in {Null, Undefined} THEN Null
              ELSE [part |-> m.part, cluster |-> entry.cluster]
  BY <1>1 DEF Open, OpenAnswer
<1>3. CASE entry \in {Null, Undefined}
  BY <1>2, <1>3 DEF FileInv
<1>4. CASE entry \notin {Null, Undefined}
  <2>1. Matches(path) # {} /\ entry = OpenFile(Volumes[m.part], RestOf(path, m))
    BY <1>1, <1>4 DEF OpenAnswer
  <2>2. m.part \in Parts /\ RestOf(path, m) \in Seq(Chars)
    BY <1>1, <2>1, ServedFacts
  <2>3. PICK vol, local : vol = Volumes[m.part] /\ local = RestOf(path, m)
    OBVIOUS
  <2>4. WellFormed(vol)
    BY <2>2, <2>3, VolumesAssumption
  <2>5. entry \in ShortEntries(vol)
    BY <1>4, <2>1, <2>2, <2>3, <2>4, OpenFileType
  <2>6. entry.cluster \in DOMAIN Volumes[m.part].fat \cup {0}
    BY <2>3, <2>5 DEF ShortEntries
  <2>7. file'.part = m.part /\ file'.cluster = entry.cluster
    BY <1>2, <1>4
  <2> QED BY <2>2, <2>6, <2>7 DEF FileInv, Parts
<1> QED BY <1>3, <1>4

\* The answer that Read leaves in last is right.
LEMMA ReadStep ==
    ASSUME FileInv, NEW size \in Sizes, NEW offset \in Offsets, Read(size, offset)
    PROVE  DeliversTheFile'
<1>1. PICK vol, c : vol = Volumes[file.part] /\ c = file.cluster
  OBVIOUS
<1>2. WellFormed(vol) /\ c \in DOMAIN vol.fat \cup {0}
  BY <1>1, VolumesAssumption DEF FileInv, Read
<1>3. PICK all : all = FileBytes(vol, c)
  OBVIOUS
<1>4. size \in Nat /\ offset \in Nat
  BY ReadsAssumption
<1>5. Delivered(vol, c, all, offset, size, ReadFile(vol, c, size, offset))
  BY <1>2, <1>3, <1>4, ReadDelivers
<1>6. /\ last' = [call |-> "read", size |-> size, offset |-> offset,
                  answer |-> ReadFile(vol, c, size, offset)]
      /\ file' = file
  BY <1>1 DEF Read
<1>7. PICK ans : ans = ReadFile(vol, c, size, offset)
  OBVIOUS
<1>8. last'.size = size /\ last'.offset = offset /\ last'.answer = ans
  BY <1>6, <1>7
<1>9. Delivered(vol, c, all, offset, size, ans)
  BY <1>5, <1>7
<1> QED BY <1>1, <1>3, <1>6, <1>8, <1>9 DEF DeliversTheFile, Delivered

\* Every step keeps both.
LEMMA FilesStep ==
    ASSUME FilesInv, MountInv', [Next]_vars
    PROVE  FileInv' /\ OpensTheFile' /\ DeliversTheFile'
<1> USE DEF FilesInv
<1>1. ASSUME UNCHANGED file PROVE FileInv'
  BY <1>1 DEF FileInv, Parts
<1>2. ASSUME last'.call # "open" PROVE OpensTheFile'
  BY <1>2 DEF OpensTheFile
<1>3. ASSUME last'.call # "read" PROVE DeliversTheFile'
  BY <1>3 DEF DeliversTheFile
<1>4. CASE \E path \in MountPaths, part \in Parts : Mount(path, part)
  <2>1. UNCHANGED file /\ last'.call = "mount"
    <3>1. PICK path \in MountPaths, part \in Parts : Mount(path, part)
      BY <1>4
    <3>2. PICK ok : last' = [call |-> "mount", ok |-> ok] /\ UNCHANGED file
      BY <3>1, Zenon DEF Mount
    <3> QED BY <3>2
  <2> QED BY <1>1, <1>2, <1>3, <2>1
<1>5. CASE \E path \in MountPaths : Unmount(path)
  <2>1. UNCHANGED file /\ last'.call = "unmount"
    BY <1>5 DEF Unmount
  <2> QED BY <1>1, <1>2, <1>3, <2>1
<1>6. CASE \E path \in Paths : Open(path)
  <2>1. PICK path \in Paths : Open(path)
    BY <1>6
  <2>2. last'.call = "open"
    BY <2>1 DEF Open
  <2>3. FileInv' /\ OpensTheFile'
    BY <2>1, OpenStep, OpenKeepsFileInv
  <2> QED BY <1>3, <2>2, <2>3
<1>7. CASE \E path \in Paths : List(path) \/ FileExists(path)
  <2>1. UNCHANGED file /\ last'.call \in {"list", "exists"}
    BY <1>7 DEF List, FileExists
  <2> QED BY <1>1, <1>2, <1>3, <2>1
<1>8. CASE \E size \in Sizes, offset \in Offsets : Read(size, offset)
  <2>1. PICK size \in Sizes, offset \in Offsets : Read(size, offset)
    BY <1>8
  <2>2. UNCHANGED file /\ last'.call = "read"
    BY <2>1 DEF Read
  <2>3. DeliversTheFile'
    BY <2>1, ReadStep
  <2> QED BY <1>1, <1>2, <2>2, <2>3
<1>9. CASE Write \/ GetFreeSpace
  <2>1. CASE Write
    BY <1>1, <1>2, <1>3, <2>1 DEF Write
  <2>2. CASE GetFreeSpace
    <3>1. PICK bytes : last' = [call |-> "free space", bytes |-> bytes] /\ UNCHANGED file
      BY <2>2, Zenon DEF GetFreeSpace
    <3>2. last'.call = "free space" /\ UNCHANGED file
      BY <3>1
    <3> QED BY <1>1, <1>2, <1>3, <3>2
  <2> QED BY <1>9, <2>1, <2>2
<1>10. CASE UNCHANGED vars
  <2>1. UNCHANGED <<mountList, file, last>>
    BY <1>10 DEF vars
  <2>2. OpensTheFile'
    <3>1. last.call = "open" => OpenedRight(mountList, last.path, last.entry)
      BY DEF OpensTheFile, OpenedRight
    <3>2. last'.call = "open" => OpenedRight(mountList', last'.path, last'.entry)
      BY <2>1, <3>1
    <3> QED BY <3>2 DEF OpensTheFile, OpenedRight
  <2>3. DeliversTheFile'
    BY <2>1 DEF DeliversTheFile
  <2> QED BY <1>1, <2>1, <2>2, <2>3
<1> QED BY <1>4, <1>5, <1>6, <1>7, <1>8, <1>9, <1>10 DEF Next

\* The inductive invariant of the files: with the mount points in order, an
\* open file is on a partition and has a first cluster there or none, and the
\* last answer of open_file or of read was right.
THEOREM FilesInvariant == Spec => []FilesInv
<1>1. Init => FileInv /\ OpensTheFile /\ DeliversTheFile
  <2> SUFFICES ASSUME Init PROVE FileInv /\ OpensTheFile /\ DeliversTheFile
    OBVIOUS
  <2>1. file = Null /\ last.call = "none"
    BY DEF Init
  <2> QED BY <2>1 DEF FileInv, OpensTheFile, DeliversTheFile
<1>2. FilesInv /\ MountInv' /\ [Next]_vars => FileInv' /\ OpensTheFile' /\ DeliversTheFile'
  BY FilesStep
<1>3. MountInv /\ FileInv /\ OpensTheFile /\ DeliversTheFile <=> FilesInv
  BY DEF FilesInv
<1> QED BY <1>1, <1>2, <1>3, MountInvariant, PTL DEF Spec

\* open_file finds the file that the path names, for every path and on any
\* well-formed volumes mounted in any order: the scan of a sector collects long
\* names as the format wants them, read_directory takes the path apart at its
\* slashes and stops at what is no directory, and the first mount point that
\* fits is the longest that the path begins with (vfs.cpp:76, fat32.cpp:150,
\* fat32.cpp:226).
THEOREM OpenFindsTheFile == Spec => []OpensTheFile
<1>1. FilesInv => OpensTheFile
  BY DEF FilesInv
<1> QED BY <1>1, FilesInvariant, PTL

\* read delivers no more bytes than were asked for, and none when it answers
\* false; those of the first sector, and all when a cluster is one sector, are
\* the bytes of the file from the offset on: for any size and offset, with any
\* number of sectors a cluster, also those whose size in bytes comes out as 0
\* (fat32_file.cpp:13, fat32_file.cpp:20, sd.cpp:493).
THEOREM ReadDeliversTheFile == Spec => []DeliversTheFile
<1>1. FilesInv => DeliversTheFile
  BY DEF FilesInv
<1> QED BY <1>1, FilesInvariant, PTL
=============================================================================
