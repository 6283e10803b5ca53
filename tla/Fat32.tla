------------------------------- MODULE Fat32 -------------------------------
(***************************************************************************)
(* The FAT32 driver (fat32.cpp, fat32_file.cpp, direntry.cpp) and the      *)
(* string operations it uses (kstring.cpp), as operators on volumes.       *)
(*                                                                         *)
(* A string is a sequence of characters.  A volume is a record:            *)
(*   header   "fat32", or what the constructor finds wrong with it         *)
(*   spc      sectors of a cluster                                         *)
(*   free     the free count of the FSInfo sector                          *)
(*   fat      cluster -> the next one, 0 at the end of the chain           *)
(*   dirs     cluster of a directory -> its sectors, sequences of entries  *)
(*   data     cluster -> its bytes; a directory can be opened, too         *)
(* An entry has a kind: "short" (8.3), "long" (a piece of a long name),    *)
(* "deleted" or "end".  The first cluster is 0 in the entry of an empty    *)
(* file and in one that leads back to the root; the driver reads cluster 0 *)
(* like any other, which is what lies in front of the clusters.            *)
(***************************************************************************)
EXTENDS Integers, Sequences, FiniteSets, FiniteSetsExt, SequencesExt

CONSTANTS
    Chars,          \* the characters
    Slash,          \* the character '/'
    SectorBytes,    \* the block size of the partition
    Word,           \* 2^32
    Garbage,        \* a byte of a buffer that does not come from the file
    Null,           \* nullptr
    Undefined       \* an answer that depends on what lies outside of a string
                    \* or on what other sectors look like as a directory

ASSUME CharsAssumption == Slash \in Chars
ASSUME SectorAssumption == SectorBytes \in Nat \ {0} /\ Word \in Nat \ {0}

Entry == [kind : {"short", "long", "deleted", "end"}, name : Seq(Chars),
          dir : BOOLEAN, cluster : Nat]
\* The answers that are no entries and no lists of entries.
ASSUME AnswersAssumption ==
    /\ Null # Undefined
    /\ {Null, Undefined} \cap Entry = {}
    /\ {Null, Undefined} \cap Seq(Entry) = {}

\* kstring(string, start, end), with the length that the constructor takes.
Substring(s, start, end) ==
    LET length == IF start + end > Len(s) THEN Len(s) - start ELSE end - start
    IN  [i \in 1 .. length |-> s[start + i]]
\* index and rindex count from 0; rindex runs off the front of a string
\* without a slash.
Slashes(s) == {i - 1 : i \in {j \in DOMAIN s : s[j] = Slash}}
Index(s) == Min(Slashes(s))
Rindex(s) == Max(Slashes(s))
Dirname(s) == Substring(s, 0, Rindex(s))
Filename(s) == SubSeq(s, Rindex(s) + 2, Len(s))

\* block_device::read_block reads, and answers false whatever happened.
ReadBlockAnswer == FALSE
\* get_next_cluster: 0 at the end of the chain, 1 for an error.
NextCluster(vol, cluster) == IF ReadBlockAnswer THEN vol.fat[cluster] ELSE 1

\* One entry of a directory sector.  The pieces of a long name come in
\* reverse order and belong to the next short entry.
\* Mutant: the pieces of a deleted file's name are kept.
ScanEntryKeepsName(acc, entry) ==
    IF acc.finished THEN acc
    ELSE CASE entry.kind = "deleted" -> acc
           [] entry.kind = "end" -> [acc EXCEPT !.finished = TRUE]
           [] entry.kind = "long" -> [acc EXCEPT !.long = entry.name \o @]
           [] entry.kind = "short" ->
                [acc EXCEPT !.long = <<>>, !.list = Append(@,
                    [entry EXCEPT !.name = IF acc.long = <<>> THEN @ ELSE acc.long])]
ScanEntry(acc, entry) ==
    IF acc.finished THEN acc
    ELSE CASE entry.kind = "deleted" -> [acc EXCEPT !.long = <<>>]
           [] entry.kind = "end" -> [acc EXCEPT !.finished = TRUE]
           [] entry.kind = "long" -> [acc EXCEPT !.long = entry.name \o @]
           [] entry.kind = "short" ->
                [acc EXCEPT !.long = <<>>, !.list = Append(@,
                    [entry EXCEPT !.name = IF acc.long = <<>> THEN @ ELSE acc.long])]
NothingScanned == [list |-> <<>>, long |-> <<>>, finished |-> FALSE]
ScanSector(sector) ==
    LET scan[i \in 0 .. Len(sector)] ==
            IF i = 0 THEN NothingScanned ELSE ScanEntry(scan[i - 1], sector[i])
    IN  scan[Len(sector)]

\* read_directory(cluster): the first sector of the cluster, then the next
\* cluster, which is always an error.  An empty list is a null pointer.
ReadDirectoryAt(vol, cluster) ==
    LET scan == ScanSector(vol.dirs[cluster][1])
        next == NextCluster(vol, cluster)
    IN  IF cluster \notin DOMAIN vol.dirs THEN Undefined
        ELSE IF scan.list = <<>> \/ (~scan.finished /\ next = 1) THEN Null
        ELSE scan.list

FindEntry(name, list) ==
    LET at == {i \in DOMAIN list : list[i].name = name}
    IN  CASE list = Undefined -> Undefined
          [] list = Null -> Null
          [] OTHER -> IF at = {} THEN Null ELSE list[Min(at)]

\* read_directory(path): component after component.
Root == 2
Step(vol, walk) ==
    LET last == Slashes(walk.rest) = {}
        name == IF last THEN walk.rest
                ELSE Substring(walk.rest, 0, Index(walk.rest))
        entry == FindEntry(name, walk.list)
    IN  IF walk.done THEN walk
        ELSE IF walk.list \in {Null, Undefined} THEN [walk EXCEPT !.done = TRUE]
        ELSE IF entry = Null \/ (~last /\ ~entry.dir)
        THEN [walk EXCEPT !.done = TRUE, !.list = Null]
        ELSE [done |-> last, list |-> ReadDirectoryAt(vol, entry.cluster),
              rest |-> IF last THEN <<>>
                       ELSE SubSeq(walk.rest, Len(name) + 2, Len(walk.rest))]
Walk(vol, rest) ==
    LET walk[i \in 0 .. Len(rest) + 1] ==
            IF i = 0 THEN [done |-> rest = <<>>, rest |-> rest,
                           list |-> ReadDirectoryAt(vol, Root)]
            ELSE Step(vol, walk[i - 1])
    IN  walk[Len(rest) + 1]
ReadDirectory(vol, path) ==
    Walk(vol, IF path # <<>> /\ path[1] = Slash THEN Tail(path) ELSE path).list

OpenFile(vol, path) ==
    IF Slashes(path) = {} THEN Undefined
    ELSE FindEntry(Filename(path), ReadDirectory(vol, Dirname(path)))

\* What fat32_file's constructor takes for the size of a cluster: from 32
\* sectors on the shift leaves nothing.
BytesPerCluster(vol) == (SectorBytes * 2 ^ (vol.spc - 1)) % Word
\* The buffer of this size after read_blocks.  The driver counts the sectors of
\* a cluster in words where it should count bytes (sd.cpp), so that sector k
\* begins at 4 * k sectors, or falls outside.
WordBytes == 4
ClusterBuffer(vol, cluster) ==
    LET step == WordBytes * SectorBytes
    IN  [j \in 1 .. BytesPerCluster(vol) |->
            LET k == (j - 1) \div step
                i == (j - 1) % step
            IN  IF cluster # 0 /\ i < SectorBytes /\ k < vol.spc
                THEN vol.data[cluster][k * SectorBytes + i + 1]
                ELSE Garbage]
\* fat32_file::read of a file with first cluster `start'.
\* Mutant: the first cluster is copied from its beginning.
CopiedFromStart(vol, cluster, offset, size) ==
    SubSeq(ClusterBuffer(vol, cluster), 1, Min({BytesPerCluster(vol), size}))
Copied(vol, cluster, offset, size) ==
    SubSeq(ClusterBuffer(vol, cluster), offset + 1,
           Min({BytesPerCluster(vol), offset + size}))
ReadFile(vol, start, size, offset) ==
    LET bytes == BytesPerCluster(vol)
        skip == IF offset > bytes THEN (offset - 1) \div bytes ELSE 0
        cluster[i \in 0 .. skip + size] ==
            IF i = 0 THEN start
            ELSE LET c == cluster[i - 1]
                 IN  IF c \in {0, 1} THEN c ELSE NextCluster(vol, c)
        From(i) == IF i = skip THEN offset - skip * bytes ELSE 0
        read[i \in 0 .. size + 1] ==      \* the bytes of the first i rounds
            IF i = 0 THEN <<>>
            ELSE LET c == cluster[skip + i - 1]
                     r == read[i - 1]
                 IN  IF i > 1 /\ c \in {0, 1} THEN r
                     ELSE r \o Copied(vol, c, From(skip + i - 1), size - Len(r))
    IN  IF bytes = 0 THEN [ok |-> offset = 0, bytes |-> <<>>]
        ELSE IF skip > 0 /\ cluster[skip] \in {0, 1} THEN [ok |-> FALSE, bytes |-> <<>>]
        ELSE [ok |-> TRUE, bytes |-> read[size + 1]]

\* get_free_space, in an unsigned int; an unknown count is 0 bytes.
FreeSpace(vol) ==
    IF vol.free = Word - 1 THEN 0
    ELSE (vol.spc * vol.free * SectorBytes) % Word
=============================================================================
