-------------------------------- MODULE Vfs --------------------------------
(***************************************************************************)
(* The virtual file system (vfs.cpp, filesystem.cpp) over FAT32 volumes:   *)
(* mounting, and what a thread sees of files and directories.  `last' is   *)
(* the last call and its answer.  The volumes do not change: there is no   *)
(* write support.  Calls are atomic: one thread uses the file system.      *)
(***************************************************************************)
EXTENDS Fat32

CONSTANTS
    Volumes,        \* partition -> its volume
    MountPaths,     \* the paths that partitions are mounted at
    Paths,          \* the paths that files and directories are looked for at
    Sizes, Offsets, \* of reads, in bytes
    MaxMounts       \* bound: the length of the mount list

Parts == DOMAIN Volumes

\* What is on a disk that another system has written: chains of clusters,
\* directories with their entries, clusters full of bytes.
WellFormed(vol) ==
    /\ vol.spc \in Nat \ {0} /\ BytesPerCluster(vol) \in Nat
    /\ IsFiniteSet(DOMAIN vol.fat)
    /\ DOMAIN vol.fat \subseteq Nat \ {0, 1}
    /\ \A c \in DOMAIN vol.fat : vol.fat[c] \in DOMAIN vol.fat \cup {0}
    /\ Root \in DOMAIN vol.dirs      \* the driver always starts there
    /\ DOMAIN vol.dirs \subseteq DOMAIN vol.fat
    /\ \A c \in DOMAIN vol.dirs :
          /\ vol.fat[c] \in DOMAIN vol.dirs \cup {0}
          /\ vol.dirs[c] \in Seq(Seq(Entry)) /\ vol.dirs[c] # <<>>
          /\ \A i \in DOMAIN vol.dirs[c] : \A j \in DOMAIN vol.dirs[c][i] :
                vol.dirs[c][i][j].kind = "short" =>
                   \/ vol.dirs[c][i][j].cluster = 0
                   \/ /\ vol.dirs[c][i][j].cluster \in DOMAIN vol.fat
                      /\ vol.dirs[c][i][j].dir
                            <=> vol.dirs[c][i][j].cluster \in DOMAIN vol.dirs
    /\ DOMAIN vol.data = DOMAIN vol.fat
    /\ \A c \in DOMAIN vol.data :
          vol.data[c] \in Seq(Nat) /\ Len(vol.data[c]) = SectorBytes * vol.spc
ASSUME VolumesAssumption == \A p \in Parts : WellFormed(Volumes[p])
\* A mount point is at least "/": mount does not look for an empty path.
ASSUME MountPathsAssumption ==
    \A path \in MountPaths : path \in Seq(Chars) /\ path # <<>>
ASSUME PathsAssumption == \A path \in Paths : path \in Seq(Chars)
ASSUME ReadsAssumption == Sizes \subseteq Nat /\ Offsets \subseteq Nat

VARIABLES
    mountList,      \* vfs::mount_list: path and partition, in list order
    usable,         \* the usable flag of the vfs
    reserved,       \* the reserved flags of the partitions that are set
    file,           \* the file that was opened, or Null
    last

vars == <<mountList, usable, reserved, file, last>>

Init ==
    /\ mountList = <<>> /\ usable = FALSE /\ reserved = {}
    /\ file = Null /\ last = [call |-> "none"]

\* add_mountpoint: before the first shorter path, or before the last one.
\* Mutant: behind the others.
AddMountpointLast(m) == Append(mountList, m)
AddMountpoint(m) ==
    LET n == Len(mountList)
        shorter == {i \in 1 .. n - 1 : Len(mountList[i].path) < Len(m.path)}
    IN  IF n = 0 THEN <<m>>
        ELSE InsertAt(mountList, Min(shorter \cup {n}), m)

\* vfs::mount with filesystem::initialize.  The constructor of a file system
\* reserves its partition, the destructor releases it.
Mount(path, part) ==
    LET works == Volumes[part].header = "fat32"
        accepted == works /\ (mountList # <<>> \/ path = <<Slash>>)
    IN  /\ Len(mountList) < MaxMounts
        /\ reserved' = IF accepted THEN reserved \cup {part}
                       ELSE IF Volumes[part].header = "other type" THEN reserved
                       ELSE reserved \ {part}
        /\ mountList' = IF accepted
                        THEN AddMountpoint([path |-> path, part |-> part])
                        ELSE mountList
        /\ usable' = (usable \/ (accepted /\ path = <<Slash>>))
        /\ last' = [call |-> "mount", ok |-> accepted]
        /\ UNCHANGED file

Unmount(path) ==
    /\ usable' = (usable /\ path # <<Slash>>)
    /\ last' = [call |-> "unmount"]
    /\ UNCHANGED <<mountList, reserved, file>>

\* The first mount point whose path is how the string begins, and the rest.
RestOf(path, m) ==
    IF m.path = <<Slash>> THEN path
    ELSE Substring(path, Len(m.path), Len(path))
Matches(path) ==
    {i \in DOMAIN mountList :
        Substring(path, 0, Len(mountList[i].path)) = mountList[i].path}
MountOf(path) == mountList[Min(Matches(path))]

Open(path) ==
    LET m == MountOf(path)
        entry == IF Matches(path) = {} THEN Null
                 ELSE OpenFile(Volumes[m.part], RestOf(path, m))
    IN  /\ last' = [call |-> "open", path |-> path, entry |-> entry]
        /\ file' = IF entry \in {Null, Undefined} THEN Null
                   ELSE [part |-> m.part, cluster |-> entry.cluster]
        /\ UNCHANGED <<mountList, usable, reserved>>

Directory(path) ==
    IF Matches(path) = {} THEN Null
    ELSE ReadDirectory(Volumes[MountOf(path).part], RestOf(path, MountOf(path)))
List(path) ==
    /\ last' = [call |-> "list", path |-> path, list |-> Directory(path)]
    /\ UNCHANGED <<mountList, usable, reserved, file>>

\* filesystem::file_exists, which the vfs inherits.
FileExists(path) ==
    /\ last' = [call |-> "exists", path |-> path,
                entry |-> IF Slashes(path) = {} THEN Undefined
                          ELSE FindEntry(Filename(path), Directory(Dirname(path)))]
    /\ UNCHANGED <<mountList, usable, reserved, file>>

Read(size, offset) ==
    /\ file # Null
    /\ last' = [call |-> "read", size |-> size, offset |-> offset, answer |->
                ReadFile(Volumes[file.part], file.cluster, size, offset)]
    /\ UNCHANGED <<mountList, usable, reserved, file>>

\* fat32_file::write and vfs::get_free_space.
Write ==
    /\ file # Null
    /\ last' = [call |-> "write", ok |-> FALSE]
    /\ UNCHANGED <<mountList, usable, reserved, file>>
GetFreeSpace ==
    /\ last' = [call |-> "free space", bytes |->
                FoldLeft(LAMBDA sum, m : sum + FreeSpace(Volumes[m.part]),
                         0, mountList)]
    /\ UNCHANGED <<mountList, usable, reserved, file>>

Next ==
    \/ \E path \in MountPaths, part \in Parts : Mount(path, part)
    \/ \E path \in MountPaths : Unmount(path)
    \/ \E path \in Paths : Open(path) \/ List(path) \/ FileExists(path)
    \/ \E size \in Sizes, offset \in Offsets : Read(size, offset)
    \/ Write
    \/ GetFreeSpace

Spec == Init /\ [][Next]_vars

---------------------------------------------------------------------------
\* What a path means, from the volumes alone.

\* The names between the slashes of an absolute path.
Components(path) ==
    LET next(j) == Min({k \in j + 1 .. Len(path) : path[k] = Slash}
                          \cup {Len(path) + 1})
        cut[i \in 0 .. Len(path)] == IF i = 0 THEN 1 ELSE next(cut[i - 1])
        n == Min({i \in 0 .. Len(path) : cut[i] = Len(path) + 1})
    IN  [i \in 1 .. n |-> SubSeq(path, cut[i - 1] + 1, cut[i] - 1)]
\* The clusters of a file or directory.
Chain(vol, cluster) ==
    LET max == Cardinality(DOMAIN vol.fat)
        at[i \in 0 .. max] == IF i = 0 THEN cluster
                              ELSE LET c == at[i - 1]
                                   IN  IF c = 0 THEN 0 ELSE vol.fat[c]
        n == Min({i \in 0 .. max : at[i] = 0} \cup {max})
    IN  [i \in 1 .. n |-> at[i - 1]]
RawEntries(vol, cluster) ==
    LET chain == Chain(vol, cluster)
    IN  FlattenSeq(FlattenSeq([i \in DOMAIN chain |-> vol.dirs[chain[i]]]))
\* The long name, if any, whose pieces end with an entry.
LongNames(raw) ==
    LET long[i \in 0 .. Len(raw)] ==
            IF i = 0 THEN <<>>
            ELSE IF raw[i].kind # "long" THEN <<>> ELSE raw[i].name \o long[i - 1]
    IN  long
NameAt(raw, i) ==
    IF LongNames(raw)[i - 1] = <<>> THEN raw[i].name ELSE LongNames(raw)[i - 1]
\* Where the entries in use among the first k have a certain name.
Named(raw, k, name) ==
    {i \in 1 .. k : /\ raw[i].kind = "short"
                    /\ \A j \in 1 .. i - 1 : raw[j].kind # "end"
                    /\ NameAt(raw, i) = name}
FirstNamed(raw, k, name) ==
    IF Named(raw, k, name) = {} THEN Null
    ELSE [raw[Min(Named(raw, k, name))] EXCEPT !.name = name]
Lookup(vol, cluster, name) ==
    LET raw == RawEntries(vol, cluster) IN FirstNamed(raw, Len(raw), name)
\* The entries that a sequence of names leads to from the root, or Null.
\* Cluster 0 in the entry of a directory stands for the root.
FirstCluster(entry) == IF entry.cluster = 0 THEN Root ELSE entry.cluster
RootEntry == [kind |-> "short", name |-> <<>>, dir |-> TRUE, cluster |-> Root]
Targets(vol, names) ==
    LET at[i \in 0 .. Len(names)] ==
            IF i = 0 THEN RootEntry
            ELSE IF at[i - 1] = Null THEN Null
            ELSE IF ~at[i - 1].dir THEN Null
            ELSE Lookup(vol, FirstCluster(at[i - 1]), names[i])
    IN  at
\* Directories whose listing ends in their first sector.
Small(vol, cluster) ==
    \E i \in DOMAIN vol.dirs[cluster][1] : vol.dirs[cluster][1][i].kind = "end"

\* The longest path comes first in the mount list, with the root at its end,
\* and the partitions that are mounted are those that are reserved
\* (vfs.h:111, vfs.cpp:131, filesystem.h:38).
MountListInOrder ==
    /\ \A i, j \in DOMAIN mountList :
          i < j => Len(mountList[i].path) >= Len(mountList[j].path)
    /\ mountList # <<>> => mountList[Len(mountList)].path = <<Slash>>
    /\ reserved = {mountList[i].part : i \in DOMAIN mountList}

\* What is left of a path behind a mount path, and its names.
Rest(mount, path) ==
    IF mount = <<Slash>> THEN path ELSE SubSeq(path, Len(mount) + 1, Len(path))
NamesIn(rest) ==
    Components(IF rest # <<>> /\ rest[1] = Slash THEN rest ELSE <<Slash>> \o rest)

\* open_file finds the file that the path names: the one that the names behind
\* the longest mount path lead to in the volume mounted there; never another
\* file, and no file only when there is none or when one of the directories on
\* the way goes beyond its first sector.  A mount path is how the string
\* begins: "/dx/f" names the file "x/f" of the volume at "/d".  The answer is
\* left to chance when there is no slash behind the mount path, and when a name
\* before the last leads to a file or to cluster 0 (vfs.cpp:76, fat32.cpp:150,
\* fat32.cpp:226, kstring.cpp:129).
OpensTheFile ==
    last.call = "open" =>
    LET heads == {i \in DOMAIN mountList : IsPrefix(mountList[i].path, last.path)}
        m == mountList[Min(heads)]
        vol == Volumes[m.part]
        rest == Rest(m.path, last.path)
        names == NamesIn(rest)
        n == Len(names)
        at == Targets(vol, names)
    IN  /\ heads = {} => last.entry = Null
        /\ heads # {} /\ (\A i \in 1 .. n : names[i] # <<>>) =>
           /\ last.entry \notin {Null, Undefined} => last.entry = at[n]
           /\ last.entry = Undefined =>
                 \/ \A i \in DOMAIN rest : rest[i] # Slash
                 \/ \E i \in 1 .. n - 1 :
                       at[i] # Null /\ (~at[i].dir \/ at[i].cluster = 0)
           /\ /\ at[n] # Null
              /\ \E i \in DOMAIN rest : rest[i] = Slash
              /\ \A i \in 0 .. n - 1 :
                    at[i].cluster # 0 /\ Small(vol, at[i].cluster)
              => last.entry = at[n]

\* The bytes of the clusters of a file, in their order.
FileBytes(vol, cluster) ==
    LET chain == Chain(vol, cluster)
    IN  FlattenSeq([i \in DOMAIN chain |-> vol.data[chain[i]]])

\* read delivers no more bytes than were asked for, and none when it answers
\* false.  Those from the first sector of a file that is not empty, and all of
\* them when a cluster is one sector, are the bytes of its clusters from the
\* offset on; those of later sectors are not where they should be, because of
\* sd.cpp:493 (fat32_file.cpp:20).
DeliversTheFile ==
    last.call = "read" =>
    LET vol == Volumes[file.part]
        all == FileBytes(vol, file.cluster)
        bytes == last.answer.bytes
    IN  /\ Len(bytes) <= last.size
        /\ ~last.answer.ok => bytes = <<>>
        /\ file.cluster # 0 =>
              \A i \in DOMAIN bytes :
                 vol.spc = 1 \/ last.offset + i <= SectorBytes =>
                    bytes[i] = all[last.offset + i]

\* read answers true if it was successful (file.h:40): the bytes that were
\* asked for, as far as the clusters of the file go, are in the buffer.
ReadIsComplete ==
    last.call = "read" /\ last.answer.ok =>
    LET all == FileBytes(Volumes[file.part], file.cluster)
        end == last.offset + last.size
    IN  end <= Len(all) =>
            last.answer.bytes = SubSeq(all, last.offset + 1, end)
=============================================================================
