------------------------------ MODULE FatFiles ------------------------------
(***************************************************************************)
(* The files of the benchmark: a FAT16 volume in memory (fat16.c), the     *)
(* open files, each a copy of its cluster chain on the heap (fat_file.c),  *)
(* and the bump allocator both the files and the benchmark take memory     *)
(* from (bare_malloc.c).                                                   *)
(*                                                                         *)
(* A memory cell holds a pair: <<c, i>> is byte i of cluster c, and the    *)
(* other values are named below.  The geometry fat16_mount reads from the  *)
(* boot sector is given by the constants.                                  *)
(*                                                                         *)
(* fat16_alloc and fat16_next_cluster look at 16-bit words from FAT1 on    *)
(* and do not know where it ends.  Behind it come, word by word, FAT2, the *)
(* root directory and the clusters; word FatEntries + w is word w of FAT2. *)
(***************************************************************************)
EXTENDS Integers, Sequences

CONSTANTS
    LastEntry,     \* the last word the scan for a free entry reaches, 0xFFF6
    FatEntries,    \* entries of a FAT, spf * bps / 2
    LastCluster,   \* the last cluster of the volume
    EntryWords,    \* words of a directory entry, 16
    HighWord,      \* 2^16: a smaller size has a high word of 0
    ClusterWords,  \* words of a cluster
    ClusterBytes,  \* spc * bps
    Volumes,       \* the volumes a run can start with, [fat, root]
    SubEntries,    \* the entries in each cluster of a sub-directory
    Answers,       \* the 8.3 names that entry_matches accepts for a path component
    ByteClass,     \* what fat_fscanf takes the bytes of a cluster for
    Paths,         \* paths the benchmark opens, of one or two components
    NewNames,      \* names it creates
    BlockSizes,    \* sizes it allocates, reads and writes
    Offsets,       \* offsets it seeks to
    HandleSize,    \* sizeof(FAT_FILE)
    Align,         \* 8
    MemBytes,      \* bytes of memory from HEAP_BASE on
    HeapLimit,     \* bound: the benchmark stops allocating here
    MaxFiles       \* bound: files opened

Entries == 2 .. FatEntries - 1
Scanned == 2 .. LastEntry
Free == 0
Eoc == LastEntry + 1
Addresses == 0 .. MemBytes - 1
Bytes == Int \X Int

Zero == <<0, 0>>       \* a byte that was set to 0
Handle == <<1, 0>>     \* part of a FAT_FILE
Block == <<-1, 0>>     \* written by the benchmark to a block of its own
Junk == <<-1, 1>>      \* what memory holds at the start
Mark == <<-1, 2>>      \* half of a word that fat16_alloc set to 0xFFFF

\* Directory entries and open files; other has the words of an entry that nobody
\* reads and that are not 0, and Overwritten is the name of one whose first word
\* was set to 0xFFFF.
Kinds == {"end", "deleted", "label", "dot", "file", "dir"}
Overwritten == "overwritten"
Names == STRING \cup {Overwritten}
Entry == [kind : Kinds, name : Names, first : Nat, size : Nat, other : SUBSET Nat]
File == [handle : Nat, data : Nat, size : Nat, pos : Nat, loaded : Seq(Bytes)]

ASSUME FilesAssumption ==
    /\ {LastEntry, LastCluster, MemBytes, HeapLimit, MaxFiles} \subseteq Nat
    /\ {EntryWords, HighWord, ClusterWords, ClusterBytes} \subseteq Nat \ {0}
    /\ {Align, HandleSize} \subseteq Nat \ {0}
    /\ FatEntries \in Nat /\ LastCluster < FatEntries /\ FatEntries <= LastEntry + 1
    /\ HeapLimit <= MemBytes
    /\ BlockSizes \subseteq Nat /\ Offsets \subseteq Int
    /\ NewNames \subseteq STRING
    /\ \A v \in Volumes : v.fat \in [Entries -> Nat] /\ v.root \in Seq(Entry)
    /\ SubEntries \in [Entries -> Seq(Entry)]

VARIABLES
    fat1, fat2,  \* the two FATs
    root,        \* the root directory, rdcnt entries
    blank,       \* clusters zeroed by fat16_alloc and not written since
    marked,      \* words behind the root directory that fat16_alloc marked
    reach,       \* the highest cluster it has returned; only properties read it
    heap,        \* heap_ptr
    mem,
    files        \* the FAT_FILEs in the order they were opened; loaded is
                 \* what fat_fopen copied

volumeVars == <<fat1, fat2, root, blank, marked, reach>>
fileVars == <<volumeVars, heap, mem, files>>

FilesTypeOK ==
    /\ fat1 \in [Entries -> Nat] /\ fat2 \in [Entries -> Nat]
    /\ root \in Seq(Entry)
    /\ blank \subseteq Scanned /\ marked \subseteq Nat /\ reach \in Nat
    /\ heap \in 0 .. HeapLimit
    /\ mem \in [Addresses -> Bytes]
    /\ files \in Seq(File)

FilesInit ==
    /\ \E v \in Volumes : fat1 = v.fat /\ fat2 = v.fat /\ root = v.root
    /\ blank = {} /\ marked = {} /\ reach = 0 /\ heap = 0 /\ files = <<>>
    /\ mem = [a \in Addresses |-> Junk]

-----------------------------------------------------------------------------
\* The allocator.

\* Definitions named X_Mutation are what a plausible bug would make of X; no
\* specification uses them.

Rounded_Mutation(n) == (n \div Align) * Align
Rounded(n) == ((n + Align - 1) \div Align) * Align

\* bare_malloc, and bare_calloc and bare_realloc, which take a block the same
\* way; the benchmark writes the block it is given
Malloc(n) ==
    /\ heap + Rounded(n) <= HeapLimit
    /\ heap' = heap + Rounded(n)
    /\ mem' = [a \in Addresses |-> IF a \in heap .. heap + n - 1 THEN Block ELSE mem[a]]
    /\ UNCHANGED <<volumeVars, files>>

-----------------------------------------------------------------------------
\* The volume, word by word.

RootWord == 2 * FatEntries                      \* the first word of the root
DataWord == RootWord + EntryWords * Len(root)   \* and of cluster 2
ClusterWord(c) == DataWord + (c - 2) * ClusterWords

\* The word of a directory entry that stands for its name, its first cluster, and
\* the high half of its size.
NameAt == 0
FirstAt == 1
SizeAt == 2

EntryWord(e, w) ==
    CASE w = NameAt  -> IF e.kind = "end" THEN 0 ELSE Eoc
      [] w = FirstAt -> e.first
      [] w = SizeAt  -> e.size \div HighWord
      [] OTHER       -> IF w \in e.other THEN Eoc ELSE 0

\* The entry after its words at ws were set to 0xFFFF: its name is then
\* none that a path has, and if it was not in use it counts as a file.
Struck(e, ws) ==
    [kind  |-> IF NameAt \in ws /\ e.kind \in {"end", "deleted"} THEN "file" ELSE e.kind,
     name  |-> IF NameAt \in ws THEN Overwritten ELSE e.name,
     first |-> IF FirstAt \in ws THEN Eoc ELSE e.first,
     size  |-> IF SizeAt \in ws THEN Eoc * HighWord + (e.size % HighWord) ELSE e.size,
     other |-> e.other \cup (ws \ {NameAt, FirstAt, SizeAt})]

\* A directory from the word at base on, after the words in hit were set.
StruckDir(entries, base, hit) ==
    [i \in DOMAIN entries |->
        Struck(entries[i], {w \in 0 .. EntryWords - 1 : base + (i - 1) * EntryWords + w \in hit})]

\* What the scan and fat16_next_cluster read.  The first two entries of FAT2 are
\* not 0; of the words behind the root, where no scan comes as long as a word in
\* the root is 0, only the marked ones are known.
Words ==
    [w \in Scanned |->
        CASE w \in Entries -> fat1[w]
          [] w - FatEntries \in Entries -> fat2[w - FatEntries]
          [] RootWord <= w /\ w < DataWord ->
                EntryWord(root[(w - RootWord) \div EntryWords + 1], (w - RootWord) % EntryWords)
          [] OTHER -> Eoc]

Content(c, i) ==
    CASE ClusterWord(c) + (i * ClusterWords) \div ClusterBytes \in marked -> Mark
      [] c \in blank -> Zero
      [] OTHER -> <<c, i>>

\* the n-th cluster of the chain from first, or the value that ends it
ClusterAt(fat, first) ==
    LET at[n \in Nat] == IF n = 0 THEN first
                         ELSE LET c == at[n - 1] IN IF c \in DOMAIN fat THEN fat[c] ELSE c
    IN  at

Chain(fat, first) == {ClusterAt(fat, first)[n] : n \in 0 .. FatEntries} \cap Entries

-----------------------------------------------------------------------------
\* Creating a file.

\* The cluster that fat16_alloc takes, and the slot that fat16_free_entry does.
FirstFree(c) == c \in Scanned /\ Words[c] = Free /\ \A d \in 2 .. c - 1 : Words[d] # Free

Unused(e) == e.kind \in {"end", "deleted"}
FreeEntry(i) == Unused(root[i]) /\ \A j \in 1 .. i - 1 : ~Unused(root[j])

\* the words it sets to 0xFFFF, wherever they are
Hit(c) == {c, c + FatEntries}

\* ... of which its caller sees to those in the root
Alloc(c) ==
    /\ FirstFree(c)
    /\ fat1' = [d \in Entries |-> IF d \in Hit(c) THEN Eoc ELSE fat1[d]]
    /\ fat2' = [d \in Entries |-> IF FatEntries + d \in Hit(c) THEN Eoc ELSE fat2[d]]
    /\ marked' = (marked \cup {w \in Hit(c) : w >= DataWord})
                    \ (ClusterWord(c) .. ClusterWord(c + 1) - 1)
    /\ blank' = blank \cup {c}
    /\ reach' = IF c > reach THEN c ELSE reach

NewFile(name, c) == [kind |-> "file", name |-> name, first |-> c, size |-> 0, other |-> {}]

\* takes the cluster before it looks for a slot
Create_Mutation(name) ==
    /\ \E c \in Scanned :
          /\ Alloc(c)
          /\ root' = [i \in DOMAIN root |->
                         IF FreeEntry(i) THEN NewFile(name, c)
                         ELSE StruckDir(root, RootWord, Hit(c))[i]]
    /\ UNCHANGED <<heap, mem, files>>

\* fat16_create; without a slot or a cluster it changes nothing
Create(name) ==
    /\ \E i \in DOMAIN root, c \in Scanned :
          /\ FreeEntry(i) /\ Alloc(c)
          /\ root' = [StruckDir(root, RootWord, Hit(c)) EXCEPT ![i] = NewFile(name, c)]
    /\ UNCHANGED <<heap, mem, files>>

\* the caller of fat16_create writes the cluster and calls fat16_set_size
SetSize(i, size) ==
    /\ root[i].kind = "file" /\ root[i].first \in blank /\ size <= ClusterBytes
    /\ blank' = blank \ {root[i].first}
    /\ marked' = marked \ (ClusterWord(root[i].first) .. ClusterWord(root[i].first + 1) - 1)
    /\ root' = [root EXCEPT ![i].size = size]
    /\ UNCHANGED <<fat1, fat2, reach, heap, mem, files>>

-----------------------------------------------------------------------------
\* Paths.

Matches(e, comp) == e.kind \in {"file", "dir"} /\ e.name \in Answers[comp]
Passed(e, comp) == e.kind # "end" /\ ~Matches(e, comp)

\* the first entry that matches, before the end of the used ones; or none
Find(entries, comp) ==
    {entries[i] : i \in {j \in DOMAIN entries :
        Matches(entries[j], comp) /\ \A k \in 1 .. j - 1 : Passed(entries[k], comp)}}

\* the same in a sub-directory, cluster after cluster
FindInDir(first, comp) ==
    LET at == ClusterAt(Words, first)
        entries(n) == IF at[n] \in Entries
                      THEN StruckDir(SubEntries[at[n]], ClusterWord(at[n]), marked) ELSE <<>>
        passed(n) == \A i \in DOMAIN entries(n) : Passed(entries(n)[i], comp)
    IN  UNION {Find(entries(n), comp) :
                  n \in {m \in 0 .. FatEntries : \A l \in 0 .. m - 1 : passed(l)}}

Resolve(path) ==
    IF Len(path) = 1 THEN Find(root, path[1])
    ELSE UNION {FindInDir(d.first, path[2]) :
                   d \in {e \in Find(root, path[1]) : e.kind = "dir"}}

-----------------------------------------------------------------------------
\* The files.

\* What memory holds after fat_fopen has filled the FAT_FILE at heap and the
\* buffer at data; bytes past the end of a chain too short stay as they were.
Loaded(e, data) ==
    LET at == ClusterAt(Words, e.first)
    IN  [a \in Addresses |->
            IF a \in heap .. heap + HandleSize - 1 THEN Handle
            ELSE IF a = data + e.size THEN Zero
            ELSE IF a \in data .. data + e.size - 1 /\ at[(a - data) \div ClusterBytes] \in Scanned
            THEN Content(at[(a - data) \div ClusterBytes], (a - data) % ClusterBytes)
            ELSE mem[a]]

Fopen(path) ==
    /\ Len(files) < MaxFiles
    /\ \E e \in Resolve(path) :
          LET data == heap + Rounded(HandleSize)
              end == data + Rounded(e.size + 1)
          IN  /\ end <= HeapLimit
              /\ heap' = end
              /\ mem' = Loaded(e, data)
              /\ files' = Append(files,
                     [handle |-> heap, data |-> data, size |-> e.size, pos |-> 0,
                      loaded |-> [j \in 1 .. e.size |-> Loaded(e, data)[data + j - 1]]])
    /\ UNCHANGED volumeVars

Move(i, pos) ==
    /\ files' = [files EXCEPT ![i].pos = pos]
    /\ UNCHANGED <<volumeVars, heap, mem>>

Fread(i, want) ==
    LET avail == files[i].size - files[i].pos
    IN  Move(i, files[i].pos + (IF want > avail THEN avail ELSE want))

Fseek(i, base, offset) ==
    LET pos == base + offset
    IN  Move(i, IF pos < 0 THEN 0 ELSE IF pos > files[i].size THEN files[i].size ELSE pos)

\* The bytes of file i from p on and before q are in classes, and byte q is not.
Class(i, p) == LET b == mem[files[i].data + p]
               IN  IF b[1] \in Scanned THEN ByteClass[b] ELSE "other"
Skips(i, p, q, classes) ==
    /\ q \in p .. files[i].size
    /\ \A r \in p .. q - 1 : Class(i, r) \in classes
    /\ q < files[i].size => Class(i, q) \notin classes

Signs(format) == IF format = "%d" THEN {"minus"} ELSE {"minus", "plus"}

\* fat_fscanf: blanks, a sign, digits, and for "%f" a fraction if there was a
\* digit; where it fails it has moved too
Fscanf(i, format) ==
    /\ files[i].pos < files[i].size
    /\ \E p, q, r \in 0 .. files[i].size :
          LET At(j, classes) == j < files[i].size /\ Class(i, j) \in classes
              start == IF At(p, Signs(format)) THEN p + 1 ELSE p
          IN  /\ Skips(i, files[i].pos, p, {"space"})
              /\ Skips(i, start, q, {"digit"})
              /\ IF format = "%f" /\ q > start /\ At(q, {"dot"})
                 THEN Skips(i, q + 1, r, {"digit"})
                 ELSE r = q
              /\ Move(i, r)

Fclose(i) ==
    /\ files' = [files EXCEPT ![i].data = 0, ![i].size = 0, ![i].pos = 0,
                              ![i].loaded = <<>>]
    /\ UNCHANGED <<volumeVars, heap, mem>>

FilesNext ==
    \/ \E n \in BlockSizes : Malloc(n)
    \/ \E name \in NewNames : Create(name)
    \/ \E i \in DOMAIN root, size \in BlockSizes : SetSize(i, size)
    \/ \E path \in Paths : Fopen(path)
    \/ \E i \in DOMAIN files :
          \/ \E want \in BlockSizes : Fread(i, want)
          \/ \E base \in {0, files[i].pos, files[i].size}, offset \in Offsets :
                Fseek(i, base, offset)
          \/ \E format \in {"%d", "%f"} : Fscanf(i, format)
          \/ Fclose(i)

-----------------------------------------------------------------------------
\* Properties.

\* The files and directories, each by its slot in the root or in a cluster of
\* a sub-directory, and where their chains begin.
Owners(r) ==
    {<<0, i>> : i \in {j \in DOMAIN r : r[j].kind \in {"file", "dir"}}} \cup
    UNION {{<<c, i>> : i \in {j \in DOMAIN SubEntries[c] : SubEntries[c][j].kind = "file"}}
           : c \in Entries}
First(r, o) == IF o[1] = 0 THEN r[o[2]].first ELSE SubEntries[o[1]][o[2]].first

\* every cluster in use belongs to the chain of exactly one of them
ClustersOwned(fat, r) ==
    LET chain == [o \in Owners(r) |-> Chain(fat, First(r, o))]
    IN  /\ \A c \in Entries : fat[c] # Free => \E o \in Owners(r) : c \in chain[o]
        /\ \A o, p \in Owners(r) : o # p => chain[o] \cap chain[p] = {}

\* every chain ends
ChainsEnd(fat, r) ==
    \A o \in Owners(r) : First(r, o) = Free \/ ClusterAt(fat, First(r, o))[FatEntries] = Eoc

\* and stays inside the volume
ChainsInside(fat, r) ==
    \A o \in Owners(r) : \A c \in Chain(fat, First(r, o)) : c <= LastCluster

\* a search for a name does not stop before the entry
UsedFirst(r) ==
    \A i, j \in DOMAIN r : j < i /\ r[j].kind = "end" => r[i].kind = "end"

Sound(fat, r) == ClustersOwned(fat, r) /\ ChainsEnd(fat, r) /\ UsedFirst(r)

\* a cluster of the volume is free
RoomLeft(fat) == \E c \in Entries : c <= LastCluster /\ fat[c] = Free

\* As long as fat16_alloc finds its clusters in FAT1, both FATs agree, every
\* cluster in use belongs to the chain of exactly one entry, every chain ends and
\* a search for a name does not stop before the entry; as long as it finds them in
\* the volume, every chain stays in the volume; and that it does until no cluster
\* of the volume is free (fat16_create, fat16_alloc, fat16_free_entry).
VolumeConsistent ==
    /\ reach < FatEntries => fat1 = fat2 /\ Sound(fat1, root)
    /\ reach <= LastCluster => ChainsInside(fat1, root)
    /\ RoomLeft(fat1) => reach <= LastCluster

\* The volume that is mounted is consistent.
ASSUME VolumesAssumption ==
    \A v \in Volumes : Sound(v.fat, v.root) /\ ChainsInside(v.fat, v.root)

\* While a file is open, its position stays in it, and its FAT_FILE, its
\* contents and the NUL that ends them stay what fat_fopen made them, whatever
\* is allocated and opened afterwards (bare_malloc, fat_fopen, fat_fread, whose
\* avail would wrap, fat_fseek, fat_fscanf).
FileIntact(f) ==
    /\ f.pos \in 0 .. f.size
    /\ \A j \in 0 .. HandleSize - 1 : mem[f.handle + j] = Handle
    /\ \A j \in 1 .. f.size : mem[f.data + j - 1] = f.loaded[j]
IsOpen(f) == f.data # 0
OpenFilesIntact ==
    \A i \in DOMAIN files : IsOpen(files[i]) =>
        FileIntact(files[i]) /\ mem[files[i].data + files[i].size] = Zero
=============================================================================
