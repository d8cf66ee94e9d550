---------------------------- MODULE SadRun_proofs ----------------------------
(***************************************************************************)
(* Theorems about SadRun: the types, the open files, the first pass and    *)
(* the image the firmware starts from, for any volume, any paths, sizes    *)
(* and offsets, any number of cores and any image, in time or not.         *)
(***************************************************************************)
EXTENDS SadRun, FatFiles_proofs, TLAPS

-----------------------------------------------------------------------------
\* The allocator.

\* A rounded size is no smaller than the size.
LEMMA RoundedUp ==
    ASSUME NEW n \in Nat
    PROVE  Rounded(n) \in Nat /\ n <= Rounded(n)
<1>1. Align \in Nat \ {0}
  BY FilesAssumption
<1>2. DEFINE m == n + Align - 1
             q == m \div Align
             r == m % Align
<1>3. m \in Nat /\ q \in Int /\ r \in 0 .. Align - 1 /\ m = Align * q + r
  BY <1>1
<1>4. q \in Nat
  BY <1>1, <1>3
<1>5. Align * q \in Nat /\ Rounded(n) = Align * q
  BY <1>1, <1>4 DEF Rounded
<1>. QED
  BY <1>1, <1>3, <1>5

-----------------------------------------------------------------------------
\* Types.

\* What words set to 0xFFFF make of an entry, and of a directory.
LEMMA StruckType ==
    ASSUME NEW e \in Entry, NEW ws \in SUBSET (0 .. EntryWords - 1)
    PROVE  Struck(e, ws) \in Entry
<1>1. /\ e.kind \in Kinds /\ e.name \in Names /\ e.first \in Nat /\ e.size \in Nat
      /\ e.other \subseteq Nat
  BY DEF Entry
<1>2. Eoc \in Nat /\ HighWord \in Nat \ {0} /\ ws \subseteq Nat
  BY FilesAssumption DEF Eoc
<1>3. Eoc * HighWord + (e.size % HighWord) \in Nat
  <2>1. \A m, n \in Nat : m * n \in Nat
    OBVIOUS
  <2>2. Eoc * HighWord \in Nat
    BY <1>2, <2>1
  <2>3. \A m \in Nat : \A n \in Nat \ {0} : m % n \in Nat
    OBVIOUS
  <2>4. e.size % HighWord \in Nat
    BY <1>1, <1>2, <2>3
  <2>5. \A m, n \in Nat : m + n \in Nat
    OBVIOUS
  <2>. QED
    BY <2>2, <2>4, <2>5, Zenon
<1>4. "file" \in Kinds
  BY DEF Kinds
<1> DEFINE new == Struck(e, ws)
<1>5. /\ new.kind \in Kinds /\ new.name \in Names /\ new.first \in Nat
      /\ new.size \in Nat /\ new.other \subseteq Nat
  <2>1. new.kind \in Kinds /\ new.name \in Names /\ new.first \in Nat
    BY <1>1, <1>2, <1>4 DEF Struck, Names
  <2>2. new.size \in Nat
    BY <1>1, <1>3 DEF Struck
  <2>3. new.other \subseteq Nat
    BY <1>1, <1>2 DEF Struck
  <2>. QED
    BY <2>1, <2>2, <2>3
<1>6. new = [kind |-> new.kind, name |-> new.name, first |-> new.first,
             size |-> new.size, other |-> new.other]
  BY DEF Struck
<1>. HIDE DEF new
<1>7. new \in Entry
  BY <1>5, <1>6, Zenon DEF Entry
<1>. QED
  BY <1>7 DEF new

LEMMA StruckDirType ==
    ASSUME NEW entries \in Seq(Entry), NEW base, NEW hit
    PROVE  StruckDir(entries, base, hit) \in Seq(Entry)
<1> DEFINE ws(i) == {w \in 0 .. EntryWords - 1 : base + (i - 1) * EntryWords + w \in hit}
<1>1. ASSUME NEW i \in DOMAIN entries
      PROVE  Struck(entries[i], ws(i)) \in Entry
  <2>1. entries[i] \in Entry /\ ws(i) \in SUBSET (0 .. EntryWords - 1)
    OBVIOUS
  <2>. QED
    BY <2>1, StruckType
<1>2. StruckDir(entries, base, hit) = [i \in DOMAIN entries |-> Struck(entries[i], ws(i))]
  BY DEF StruckDir
<1>. HIDE DEF ws
<1>3. DOMAIN entries = 1 .. Len(entries) /\ Len(entries) \in Nat
  OBVIOUS
<1>. QED
  BY <1>1, <1>2, <1>3

\* Every entry that a path leads to is an entry.
LEMMA ResolvedIsEntry ==
    ASSUME FilesTypeOK, NEW path, NEW e \in Resolve(path)
    PROVE  e \in Entry
<1>1. \A comp : \A entries \in Seq(Entry) : Find(entries, comp) \subseteq Entry
  BY DEF Find
<1>2. \A first, comp : FindInDir(first, comp) \subseteq Entry
  <2> SUFFICES ASSUME NEW first, NEW comp, NEW x \in FindInDir(first, comp)
               PROVE  x \in Entry
    OBVIOUS
  <2> DEFINE at == ClusterAt(Words, first)
             listed(n) == IF at[n] \in Entries
                          THEN StruckDir(SubEntries[at[n]], ClusterWord(at[n]), marked) ELSE <<>>
  <2>1. PICK n \in 0 .. FatEntries : x \in Find(listed(n), comp)
    BY DEF FindInDir
  <2>2. listed(n) \in Seq(Entry)
    <3>1. CASE at[n] \in Entries
      BY <3>1, FilesAssumption, StruckDirType
    <3>2. CASE at[n] \notin Entries
      BY <3>2
    <3>. QED
      BY <3>1, <3>2
  <2>. QED
    BY <1>1, <2>1, <2>2
<1>. QED
  BY <1>1, <1>2 DEF Resolve, FilesTypeOK

\* What fat_fopen leaves in memory.
LEMMA LoadedType ==
    ASSUME FilesTypeOK, NEW e, NEW data \in Nat
    PROVE  Loaded(e, data) \in [Addresses -> Bytes]
<1> SUFFICES ASSUME NEW a \in Addresses
             PROVE  Loaded(e, data)[a] \in Bytes
  BY DEF Loaded
<1> DEFINE c == ClusterAt(Words, e.first)[(a - data) \div ClusterBytes]
           i == (a - data) % ClusterBytes
<1>1. /\ Handle \in Bytes /\ Zero \in Bytes /\ mem[a] \in Bytes
      /\ (a \in data .. data + e.size - 1 /\ c \in Scanned => Content(c, i) \in Bytes)
  <2>1. Handle \in Bytes /\ Zero \in Bytes /\ Mark \in Bytes /\ mem[a] \in Bytes
    BY DEF FilesTypeOK, Handle, Zero, Mark, Bytes
  <2>2. ASSUME a \in data .. data + e.size - 1, c \in Scanned
        PROVE  <<c, i>> \in Bytes
    <3>1. c \in Int
      BY <2>2 DEF Scanned
    <3>2. i \in Int
      BY FilesAssumption DEF Addresses
    <3>. QED
      BY <3>1, <3>2 DEF Bytes
  <2>. QED
    BY <2>1, <2>2 DEF Content
<1>. QED
  BY <1>1 DEF Loaded

\* No operation moves the position of a file out of it.
CursorInv == \A i \in DOMAIN files : files[i].pos <= files[i].size

LEMMA CursorInside ==
    ASSUME FilesTypeOK, CursorInv, NEW i \in DOMAIN files
    PROVE  /\ \A want \in BlockSizes : Fread(i, want) => \E pos \in 0 .. files[i].size : Move(i, pos)
           /\ \A base \in {0, files[i].pos, files[i].size}, offset \in Offsets :
                 Fseek(i, base, offset) => \E pos \in 0 .. files[i].size : Move(i, pos)
           /\ \A format \in {"%d", "%f"} :
                 Fscanf(i, format) => \E pos \in 0 .. files[i].size : Move(i, pos)
<1>1. files[i].pos \in Nat /\ files[i].size \in Nat /\ files[i].pos <= files[i].size
  <2>1. files[i] \in File
    BY DEF FilesTypeOK
  <2>. QED
    BY <2>1 DEF CursorInv, File
<1>2. ASSUME NEW want \in BlockSizes, Fread(i, want)
      PROVE  \E pos \in 0 .. files[i].size : Move(i, pos)
  <2> DEFINE avail == files[i].size - files[i].pos
             pos == files[i].pos + (IF want > avail THEN avail ELSE want)
  <2>1. want \in Nat
    BY FilesAssumption
  <2>2. pos \in 0 .. files[i].size
    BY <1>1, <2>1
  <2>. QED
    BY <1>2, <2>2 DEF Fread
<1>3. ASSUME NEW base \in {0, files[i].pos, files[i].size}, NEW offset \in Offsets,
             Fseek(i, base, offset)
      PROVE  \E pos \in 0 .. files[i].size : Move(i, pos)
  <2> DEFINE to == base + offset
             pos == IF to < 0 THEN 0 ELSE IF to > files[i].size THEN files[i].size ELSE to
  <2>1. base \in Nat /\ offset \in Int
    BY <1>1, FilesAssumption
  <2>2. pos \in 0 .. files[i].size
    BY <1>1, <2>1
  <2>. QED
    BY <1>3, <2>2 DEF Fseek
<1>4. ASSUME NEW format \in {"%d", "%f"}, Fscanf(i, format)
      PROVE  \E pos \in 0 .. files[i].size : Move(i, pos)
  BY <1>4 DEF Fscanf
<1>. QED
  BY <1>2, <1>3, <1>4

\* A step of the benchmark keeps the types of its files.
LEMMA FilesTyped ==
    ASSUME FilesTypeOK, CursorInv, FilesNext
    PROVE  FilesTypeOK'
<1>1. ASSUME NEW n \in BlockSizes, Malloc(n)
      PROVE  FilesTypeOK'
  <2>1. n \in Nat /\ Rounded(n) \in Nat
    BY FilesAssumption, RoundedUp
  <2>2. heap' \in 0 .. HeapLimit
    BY <1>1, <2>1, FilesAssumption DEF Malloc, FilesTypeOK
  <2>3. mem' \in [Addresses -> Bytes]
    <3>1. Block \in Bytes
      BY DEF Block, Bytes
    <3>. QED
      BY <1>1, <3>1 DEF Malloc, FilesTypeOK
  <2>. QED
    BY <1>1, <2>2, <2>3 DEF Malloc, FilesTypeOK, volumeVars
<1>2. ASSUME NEW name \in NewNames, Create(name)
      PROVE  FilesTypeOK'
  <2>1. PICK i \in DOMAIN root, c \in Scanned :
           /\ Alloc(c)
           /\ root' = [StruckDir(root, RootWord, Hit(c)) EXCEPT ![i] = NewFile(name, c)]
    BY <1>2, Zenon DEF Create
  <2>2. Eoc \in Nat /\ c \in Nat /\ FatEntries \in Nat /\ name \in STRING
    BY FilesAssumption DEF Eoc, Scanned
  <2>3. NewFile(name, c) \in Entry
    BY <2>2 DEF NewFile, Entry, Kinds, Names
  <2>4. root' \in Seq(Entry)
    <3> DEFINE struck == StruckDir(root, RootWord, Hit(c))
    <3>0. root \in Seq(Entry)
      BY DEF FilesTypeOK
    <3>1. struck \in Seq(Entry) /\ DOMAIN struck = DOMAIN root
      BY <3>0, StruckDirType DEF StruckDir
    <3>2. root' = [struck EXCEPT ![i] = NewFile(name, c)]
      BY <2>1
    <3>. HIDE DEF struck
    <3>. QED
      BY <2>3, <3>1, <3>2
  <2>5. fat1' \in [Entries -> Nat] /\ fat2' \in [Entries -> Nat]
    BY <2>1, <2>2 DEF Alloc, FilesTypeOK
  <2>6. blank' \subseteq Scanned /\ reach' \in Nat
    BY <2>1, <2>2 DEF Alloc, FilesTypeOK
  <2>7. marked' \subseteq Nat
    <3>1. Hit(c) \subseteq Nat
      BY <2>2 DEF Hit
    <3>2. marked' \subseteq marked \cup Hit(c)
      BY <2>1 DEF Alloc
    <3>. QED
      BY <3>1, <3>2 DEF FilesTypeOK
  <2>. QED
    BY <1>2, <2>4, <2>5, <2>6, <2>7 DEF Create, FilesTypeOK
<1>3. ASSUME NEW i \in DOMAIN root, NEW size \in BlockSizes, SetSize(i, size)
      PROVE  FilesTypeOK'
  <2>1. size \in Nat
    BY FilesAssumption
  <2>2. root[i] \in Entry /\ root \in Seq(Entry)
    BY DEF FilesTypeOK
  <2>3. [root[i] EXCEPT !.size = size] \in Entry
    BY <2>1, <2>2 DEF Entry
  <2>4. root' = [root EXCEPT ![i] = [root[i] EXCEPT !.size = size]]
    BY <1>3 DEF SetSize
  <2>5. root' \in Seq(Entry)
    BY <2>2, <2>3, <2>4
  <2>. QED
    BY <1>3, <2>5 DEF SetSize, FilesTypeOK
<1>4. ASSUME NEW path \in Paths, Fopen(path)
      PROVE  FilesTypeOK'
  <2> DEFINE data == heap + Rounded(HandleSize)
  <2>1. PICK e \in Resolve(path) :
           /\ data + Rounded(e.size + 1) <= HeapLimit
           /\ heap' = data + Rounded(e.size + 1)
           /\ mem' = Loaded(e, data)
           /\ files' = Append(files,
                  [handle |-> heap, data |-> data, size |-> e.size, pos |-> 0,
                   loaded |-> [j \in 1 .. e.size |-> Loaded(e, data)[data + j - 1]]])
    BY <1>4 DEF Fopen
  <2>2. e.size \in Nat
    BY <2>1, ResolvedIsEntry DEF Entry
  <2>3. heap \in Nat /\ data \in Nat /\ Rounded(e.size + 1) \in Nat /\ e.size < Rounded(e.size + 1)
    <3>1. Rounded(HandleSize) \in Nat
      BY RoundedUp, FilesAssumption
    <3>2. Rounded(e.size + 1) \in Nat /\ e.size + 1 <= Rounded(e.size + 1)
      BY <2>2, RoundedUp
    <3>3. heap \in Nat
      BY FilesAssumption DEF FilesTypeOK
    <3>. QED
      BY <2>2, <3>1, <3>2, <3>3
  <2>4. mem' \in [Addresses -> Bytes]
    BY <2>1, <2>3, LoadedType
  <2>5. ASSUME NEW j \in 1 .. e.size
        PROVE  Loaded(e, data)[data + j - 1] \in Bytes
    <3>1. data + j - 1 \in Addresses
      <4>1. data + Rounded(e.size + 1) <= MemBytes /\ {MemBytes, HeapLimit} \subseteq Nat
        BY <2>1, <2>3, FilesAssumption
      <4>. HIDE DEF data
      <4>. QED
        BY <2>2, <2>3, <4>1 DEF Addresses
    <3>. QED
      BY <2>1, <2>4, <3>1
  <2>6. [j \in 1 .. e.size |-> Loaded(e, data)[data + j - 1]] \in Seq(Bytes)
    BY <2>2, <2>5
  <2>7. files' \in Seq(File)
    BY <2>1, <2>2, <2>3, <2>6 DEF FilesTypeOK, File
  <2>8. heap' \in 0 .. HeapLimit
    BY <2>1, <2>3, FilesAssumption
  <2>. QED
    BY <1>4, <2>4, <2>7, <2>8 DEF Fopen, FilesTypeOK, volumeVars
<1>5. ASSUME NEW i \in DOMAIN files, NEW pos \in 0 .. files[i].size, Move(i, pos)
      PROVE  FilesTypeOK'
  <2>0. files \in Seq(File) /\ files[i] \in File
    BY DEF FilesTypeOK
  <2>1. files[i].size \in Nat /\ pos \in Nat
    BY <2>0 DEF File
  <2>2. [files[i] EXCEPT !.pos = pos] \in File
    BY <2>0, <2>1 DEF File
  <2>3. files' = [files EXCEPT ![i] = [files[i] EXCEPT !.pos = pos]]
    BY <1>5 DEF Move
  <2>4. files' \in Seq(File)
    BY <2>0, <2>2, <2>3
  <2>. QED
    BY <1>5, <2>4 DEF Move, FilesTypeOK, volumeVars
<1>6. ASSUME NEW i \in DOMAIN files, Fclose(i)
      PROVE  FilesTypeOK'
  <2>1. files \in Seq(File) /\ files[i] \in File
    BY DEF FilesTypeOK
  <2>2. [files[i] EXCEPT !.data = 0, !.size = 0, !.pos = 0, !.loaded = <<>>] \in File
    <3>1. <<>> \in Seq(Bytes) /\ 0 \in Nat
      OBVIOUS
    <3>. QED
      BY <2>1, <3>1 DEF File
  <2>3. files' = [files EXCEPT ![i] =
                     [files[i] EXCEPT !.data = 0, !.size = 0, !.pos = 0, !.loaded = <<>>]]
    BY <1>6 DEF Fclose
  <2>4. files' \in Seq(File)
    BY <2>1, <2>2, <2>3
  <2>. QED
    BY <1>6, <2>4 DEF Fclose, FilesTypeOK, volumeVars
<1>7. ASSUME NEW i \in DOMAIN files
      PROVE  /\ \A want \in BlockSizes : Fread(i, want) => \E pos \in 0 .. files[i].size : Move(i, pos)
             /\ \A base \in {0, files[i].pos, files[i].size}, offset \in Offsets :
                   Fseek(i, base, offset) => \E pos \in 0 .. files[i].size : Move(i, pos)
             /\ \A format \in {"%d", "%f"} :
                   Fscanf(i, format) => \E pos \in 0 .. files[i].size : Move(i, pos)
  BY CursorInside
<1>. QED
  BY <1>1, <1>2, <1>3, <1>4, <1>5, <1>6, <1>7 DEF FilesNext

-----------------------------------------------------------------------------
\* Open files.

\* File f lies below h, its FAT_FILE before its buffer, and is as it was loaded.
Intact(f, m, h) ==
    /\ f.handle + HandleSize <= f.data /\ f.data + f.size < h
    /\ \A j \in 0 .. HandleSize - 1 : m[f.handle + j] = Handle
    /\ \A j \in 1 .. f.size : m[f.data + j - 1] = f.loaded[j]
    /\ m[f.data + f.size] = Zero

FilesInv == CursorInv /\ \A i \in DOMAIN files : IsOpen(files[i]) => Intact(files[i], mem, heap)

\* What leaves memory below the heap pointer alone leaves every open file alone.
LEMMA IntactKept ==
    ASSUME NEW f \in File, NEW h \in Nat, NEW g \in Nat, h <= g, NEW m, NEW n,
           \A a \in 0 .. h - 1 : n[a] = m[a], Intact(f, m, h)
    PROVE  Intact(f, n, g)
<1>1. /\ {f.handle, f.data, f.size} \subseteq Nat /\ HandleSize \in Nat
      /\ f.handle + HandleSize <= f.data /\ f.data + f.size < h
  BY FilesAssumption DEF Intact, File
<1>2. \A j \in 0 .. HandleSize - 1 : f.handle + j \in 0 .. h - 1
  BY <1>1
<1>3. \A j \in 1 .. f.size : f.data + j - 1 \in 0 .. h - 1
  BY <1>1
<1>4. f.data + f.size \in 0 .. h - 1
  BY <1>1
<1>. QED
  BY <1>1, <1>2, <1>3, <1>4 DEF Intact

\* The benchmark's allocations and fat_fopen write above the heap pointer only.
LEMMA FilesStep ==
    ASSUME FilesTypeOK, FilesInv, FilesNext
    PROVE  FilesInv'
<1> USE DEF FilesInv
<1>0. /\ FilesTypeOK' /\ heap \in Nat
      /\ files \in Seq(File)
      /\ \A a \in 0 .. heap - 1 : a \in Addresses
  <2>1. FilesTypeOK'
    BY FilesTyped
  <2>2. heap \in 0 .. HeapLimit /\ files \in Seq(File)
    BY DEF FilesTypeOK
  <2>3. {HeapLimit, MemBytes} \subseteq Nat /\ HeapLimit <= MemBytes
    BY FilesAssumption
  <2>. QED
    BY <2>1, <2>2, <2>3 DEF Addresses
<1>1. ASSUME heap' \in Nat, heap <= heap', files' = files,
             \A a \in 0 .. heap - 1 : mem'[a] = mem[a]
      PROVE  FilesInv'
  <2>1. ASSUME NEW i \in DOMAIN files, IsOpen(files[i])
        PROVE  Intact(files[i], mem', heap')
    <3>1. files[i] \in File /\ Intact(files[i], mem, heap)
      BY <1>0, <2>1
    <3>. QED
      BY <1>0, <1>1, <3>1, IntactKept
  <2>. QED
    BY <1>1, <2>1 DEF CursorInv, IsOpen
<1>2. ASSUME NEW n \in BlockSizes, Malloc(n)
      PROVE  FilesInv'
  <2>1. n \in Nat /\ Rounded(n) \in Nat
    BY FilesAssumption, RoundedUp
  <2>2. \A a \in 0 .. heap - 1 : mem'[a] = mem[a]
    BY <1>0, <1>2, <2>1 DEF Malloc
  <2>. QED
    BY <1>0, <1>1, <1>2, <2>1, <2>2 DEF Malloc
<1>3. ASSUME NEW name \in NewNames, Create(name)
      PROVE  FilesInv'
  BY <1>3 DEF Create, CursorInv
<1>4. ASSUME NEW i \in DOMAIN root, NEW size \in BlockSizes, SetSize(i, size)
      PROVE  FilesInv'
  BY <1>4 DEF SetSize, CursorInv
<1>5. ASSUME NEW path \in Paths, Fopen(path)
      PROVE  FilesInv'
  <2> DEFINE data == heap + Rounded(HandleSize)
             r(e) == [handle |-> heap, data |-> data, size |-> e.size, pos |-> 0,
                      loaded |-> [j \in 1 .. e.size |-> Loaded(e, data)[data + j - 1]]]
  <2>1. PICK e \in Resolve(path) :
           /\ data + Rounded(e.size + 1) <= HeapLimit
           /\ heap' = data + Rounded(e.size + 1)
           /\ mem' = Loaded(e, data)
           /\ files' = Append(files, r(e))
    BY <1>5 DEF Fopen
  <2>2. e.size \in Nat
    BY <2>1, ResolvedIsEntry DEF Entry
  <2>3. /\ data \in Nat /\ HandleSize \in Nat \ {0} /\ heap + HandleSize <= data
        /\ heap' \in Nat /\ data + e.size < heap' /\ heap' <= MemBytes /\ MemBytes \in Nat
    <3>1. HandleSize \in Nat \ {0} /\ Rounded(HandleSize) \in Nat /\ HandleSize <= Rounded(HandleSize)
      BY RoundedUp, FilesAssumption
    <3>2. Rounded(e.size + 1) \in Nat /\ e.size + 1 <= Rounded(e.size + 1)
      BY <2>2, RoundedUp
    <3>3. {MemBytes, HeapLimit} \subseteq Nat /\ HeapLimit <= MemBytes
      BY FilesAssumption
    <3>. QED
      BY <1>0, <2>1, <2>2, <3>1, <3>2, <3>3, SMTT(20)
  <2>. HIDE DEF data
  <2>4. \A a \in 0 .. heap - 1 : mem'[a] = mem[a]
    BY <1>0, <2>1, <2>2, <2>3 DEF Loaded
  <2>5. Intact(r(e), mem', heap')
    <3>1. \A j \in 0 .. HandleSize - 1 : mem'[heap + j] = Handle
      BY <1>0, <2>1, <2>2, <2>3 DEF Loaded, Addresses
    <3>2. mem'[data + e.size] = Zero
      BY <1>0, <2>1, <2>2, <2>3 DEF Loaded, Addresses
    <3>. QED
      BY <2>1, <2>2, <2>3, <3>1, <3>2 DEF Intact
  <2>6. ASSUME NEW j \in DOMAIN files'
        PROVE  /\ files'[j].pos <= files'[j].size
               /\ IsOpen(files'[j]) => Intact(files'[j], mem', heap')
    <3>1. CASE j \in DOMAIN files
      <4>1. files'[j] = files[j] /\ files[j] \in File
        BY <1>0, <2>1, <3>1
      <4>2. IsOpen(files[j]) => Intact(files[j], mem, heap)
        BY <3>1
      <4>3. heap <= heap'
        BY <1>0, <2>2, <2>3
      <4>. QED
        BY <1>0, <2>3, <2>4, <3>1, <4>1, <4>2, <4>3, IntactKept DEF CursorInv
    <3>2. CASE j \notin DOMAIN files
      <4>1. files'[j] = r(e)
        BY <1>0, <2>1, <3>2
      <4>. QED
        BY <2>2, <2>5, <4>1
    <3>. QED
      BY <3>1, <3>2
  <2>. QED
    BY <2>6 DEF CursorInv
<1>6. ASSUME NEW i \in DOMAIN files, NEW pos \in 0 .. files[i].size, Move(i, pos)
      PROVE  FilesInv'
  <2>1. ASSUME NEW j \in DOMAIN files'
        PROVE  /\ files'[j].pos <= files'[j].size
               /\ IsOpen(files'[j]) => Intact(files'[j], mem, heap)
    <3>1. j \in DOMAIN files /\ files[j] \in File /\ files[i] \in File
      BY <1>0, <1>6 DEF Move
    <3>2. CASE j = i
      <4>1. files'[j] = [files[i] EXCEPT !.pos = pos]
        BY <1>0, <1>6, <3>2 DEF Move
      <4>2. /\ files'[j].size = files[i].size /\ files'[j].pos = pos
            /\ files'[j].data = files[i].data /\ files'[j].handle = files[i].handle
            /\ files'[j].loaded = files[i].loaded
        BY <3>1, <4>1 DEF File
      <4>3. pos <= files[i].size
        BY <3>1 DEF File
      <4>. QED
        BY <4>2, <4>3 DEF IsOpen, Intact
    <3>3. CASE j # i
      BY <1>0, <1>6, <3>1, <3>3 DEF Move, CursorInv
    <3>. QED
      BY <3>2, <3>3
  <2>2. mem' = mem /\ heap' = heap
    BY <1>6 DEF Move
  <2>. QED
    BY <2>1, <2>2 DEF CursorInv
<1>7. ASSUME NEW i \in DOMAIN files, Fclose(i)
      PROVE  FilesInv'
  <2>1. ASSUME NEW j \in DOMAIN files'
        PROVE  /\ files'[j].pos <= files'[j].size
               /\ IsOpen(files'[j]) => Intact(files'[j], mem, heap)
    <3>1. j \in DOMAIN files /\ files[j] \in File /\ files[i] \in File
      BY <1>0, <1>7 DEF Fclose
    <3>2. CASE j = i
      <4>1. files'[j].data = 0 /\ files'[j].size = 0 /\ files'[j].pos = 0
        BY <1>0, <1>7, <3>1, <3>2 DEF Fclose, File
      <4>. QED
        BY <4>1 DEF IsOpen
    <3>3. CASE j # i
      BY <1>0, <1>7, <3>1, <3>3 DEF Fclose, CursorInv
    <3>. QED
      BY <3>2, <3>3
  <2>2. mem' = mem /\ heap' = heap
    BY <1>7 DEF Fclose
  <2>. QED
    BY <2>1, <2>2 DEF CursorInv
<1>. QED
  BY <1>2, <1>3, <1>4, <1>5, <1>6, <1>7, CursorInside DEF FilesNext

-----------------------------------------------------------------------------
\* The run.

\* What the positions of core 0 say of the run.
BeforeSignal == {"reinit", "halt", "clear", "text", "data", "boot", "started", "signal"}
Loading == {"clear", "text", "data", "boot"}

\* Until core 0 gives its signal no core has passed its waits, and in the first
\* pass the go flag is 0; the only cores that write have seen it set.
SoloInv ==
    /\ pass \in {1, 2}
    /\ pc \in BeforeSignal /\ pass = 1 =>
          \A w \in Workers : /\ wpc[w] \in {"await_clear", "await_signal"}
                             /\ coresReady => wpc[w] = "await_clear"
    /\ pc \in {"text", "data", "boot", "started", "signal"} /\ pass = 1 => ~coresReady
    /\ pc = "reinit" => pass = 1
    /\ pass = 1 => pc = "reinit" \/ go = 0
    /\ pc \in {"go", "stop", "exit", "end"} => pass = 2
    /\ \A w \in Workers : wpc[w] = "write" => pass = 2 /\ go # 0

\* From the halt to the boot the PMU stays halted, and what is cleared and
\* copied stays so.
LoadInv ==
    /\ pc \in Loading => ~running
    /\ pc \in {"text", "data", "boot"} => status = "none" /\ ~cmd /\ ~coresReady
    /\ pc \in {"data", "boot"} => textOld \cap WordsCopied(TextBytes) = {}
    /\ pc = "boot" => dataOld \cap WordsCopied(DataBytes) = {}

\* The word of every byte of an image is copied.
LEMMA EveryByteCopied ==
    ASSUME NEW n \in Nat, NEW b \in 0 .. n - 1
    PROVE  b \div 4 \in WordsCopied(n)
<1>1. b \div 4 \in Nat /\ 4 * (b \div 4) <= b
  OBVIOUS
<1>2. (n + 3) \div 4 \in Int /\ n + 3 < 4 * ((n + 3) \div 4) + 4
  OBVIOUS
<1>. QED
  BY <1>1, <1>2 DEF WordsCopied

\* Core 0, the cores and the firmware leave the files alone, but for what the
\* cores write to their own buffers.
LEMMA RunStep ==
    ASSUME TypeOK, Next, ~Bench
    PROVE  /\ UNCHANGED <<volumeVars, heap, files>>
           /\ mem' = mem \/ \E w \in Workers : Write(w)
  BY DEF Next, Core0, Reinit, Halt, Clear, CopyText, CopyData, Boot, WaitStarted,
         Signal, WaitFlags, Trigger, WaitReady, BenchEnd, PassEnd, SetGo, Exit,
         Worker, WGo, Await, Flag, Loop, Write, Cleanup, Firmware, fileVars

\* The interference stays off the heap.
LEMMA InterferenceStep ==
    ASSUME FilesTypeOK, NEW w \in Workers, Write(w)
    PROVE  /\ mem' \in [Addresses -> Bytes]
           /\ \A a \in 0 .. heap - 1 : mem'[a] = mem[a]
<1>1. /\ heap \in 0 .. HeapLimit /\ {HeapLimit, BufferBase, BufferGap, MemBytes} \subseteq Nat
      /\ HeapLimit <= BufferBase /\ HeapLimit <= MemBytes
  BY FilesAssumption, RunAssumption DEF FilesTypeOK
<1>2. w - 1 \in Nat
  BY RunAssumption DEF Workers
<1>3. (w - 1) * BufferGap \in Nat
  BY <1>1, <1>2
<1>4. Buffer(w) \in Nat /\ BufferBase <= Buffer(w)
  BY <1>1, <1>3 DEF Buffer
<1>5. Junk \in Bytes
  BY DEF Junk, Bytes
<1>. QED
  BY <1>1, <1>4, <1>5 DEF Write, FilesTypeOK, Addresses

\* The benchmark, an interfering core, or a step that leaves the files alone.
LEMMA FilesKept ==
    ASSUME TypeOK, FilesInv, [Next]_allVars
    PROVE  FilesTypeOK' /\ FilesInv'
<1>0. FilesTypeOK /\ heap \in Nat
  BY FilesAssumption DEF TypeOK, FilesTypeOK
<1>1. CASE Bench
  BY <1>0, <1>1, FilesTyped, FilesStep DEF Bench, FilesInv
<1>2. CASE Next /\ ~Bench
  <2>1. UNCHANGED <<volumeVars, heap, files>>
    BY <1>2, RunStep
  <2>2. mem' \in [Addresses -> Bytes] /\ \A a \in 0 .. heap - 1 : mem'[a] = mem[a]
    BY <1>0, <1>2, RunStep, InterferenceStep DEF FilesTypeOK
  <2>3. FilesTypeOK'
    BY <1>0, <2>1, <2>2 DEF FilesTypeOK, volumeVars
  <2>4. ASSUME NEW i \in DOMAIN files, IsOpen(files[i])
        PROVE  Intact(files[i], mem', heap)
    <3>1. files[i] \in File /\ Intact(files[i], mem, heap)
      BY <1>0, <2>4 DEF FilesInv, FilesTypeOK
    <3>. QED
      BY <1>0, <2>2, <3>1, IntactKept
  <2>5. FilesInv'
    BY <2>1, <2>4 DEF FilesInv, CursorInv, IsOpen
  <2>. QED
    BY <2>3, <2>5
<1>3. CASE UNCHANGED allVars
  BY <1>0, <1>3 DEF allVars, vars, fileVars, volumeVars, FilesTypeOK, FilesInv, CursorInv, IsOpen, Intact
<1>. QED
  BY <1>1, <1>2, <1>3

LEMMA RunTyped ==
    ASSUME TypeOK, FilesInv, SoloInv, [Next]_allVars
    PROVE  TypeOK'
<1>0. FilesTypeOK'
  BY FilesKept
<1>. USE <1>0 DEF TypeOK, CoreSteps, WorkerSteps, Statuses
<1>1. CASE Core0
  <2>1. CASE Reinit
    BY <2>1, RunAssumption DEF Go, Reinit, pmuVars, commVars, Workers, SoloInv
  <2>2. CASE Halt("halt", "clear")
    BY <2>2, RunAssumption DEF Go, Halt, pmuVars, commVars, Workers, SoloInv
  <2>3. CASE Clear
    BY <2>3, RunAssumption DEF Go, Clear, pmuVars, commVars, Workers, SoloInv
  <2>4. CASE CopyText
    BY <2>4, RunAssumption DEF Go, CopyText, pmuVars, commVars, Workers, SoloInv
  <2>5. CASE CopyData
    BY <2>5, RunAssumption DEF Go, CopyData, pmuVars, commVars, Workers, SoloInv
  <2>6. CASE Boot
    BY <2>6, RunAssumption DEF Go, Boot, pmuVars, commVars, Workers, SoloInv
  <2>7. CASE WaitStarted
    BY <2>7, RunAssumption DEF Go, WaitStarted, pmuVars, commVars, Workers, SoloInv
  <2>8. CASE Signal
    BY <2>8, RunAssumption DEF Go, Signal, pmuVars, commVars, Workers, SoloInv
  <2>9. CASE WaitFlags
    BY <2>9, RunAssumption DEF Go, WaitFlags, pmuVars, commVars, Workers, SoloInv
  <2>10. CASE Trigger
    BY <2>10, RunAssumption DEF Go, Trigger, pmuVars, commVars, Workers, SoloInv
  <2>11. CASE WaitReady
    BY <2>11, RunAssumption DEF Go, WaitReady, pmuVars, commVars, Workers, SoloInv
  <2>12. CASE BenchEnd
    BY <2>12, RunAssumption DEF Go, BenchEnd, pmuVars, commVars, Workers, SoloInv
  <2>13. CASE PassEnd
    <3>1. pass' = 2 /\ running' = FALSE
      BY <2>13 DEF PassEnd
    <3>2. pc' = "halt" \/ pc' = "stop"
      BY <2>13 DEF Go, PassEnd
    <3>3. /\ k' = k /\ go' = go /\ done' = done /\ coresReady' = coresReady /\ flag' = flag
          /\ status' = status /\ cmd' = cmd /\ textOld' = textOld /\ dataOld' = dataOld
          /\ wpc' = wpc
      BY <2>13 DEF PassEnd, commVars
    <3>4. pc' \in CoreSteps /\ pass' \in 1 .. 2
      BY <3>1, <3>2
    <3>5. {coresReady', cmd', running'} \subseteq BOOLEAN
      BY <3>1, <3>3
    <3>. QED
      BY <3>3, <3>4, <3>5
  <2>14. CASE SetGo("go", "trigger", 1)
    BY <2>14, RunAssumption DEF Go, SetGo, pmuVars, commVars, Workers, SoloInv
  <2>15. CASE SetGo("stop", "exit", 2)
    BY <2>15, RunAssumption DEF Go, SetGo, pmuVars, commVars, Workers, SoloInv
  <2>16. CASE Exit
    BY <2>16, RunAssumption DEF Go, Exit, pmuVars, commVars, Workers, SoloInv
  <2>. QED
    BY <1>1, <2>1, <2>2, <2>3, <2>4, <2>5, <2>6, <2>7, <2>8,
       <2>9, <2>10, <2>11, <2>12, <2>13, <2>14, <2>15, <2>16 DEF Core0
<1>2. CASE Bench
  BY <1>2 DEF Bench, coreVars, pmuVars, commVars
<1>3. ASSUME NEW w \in Workers, Worker(w)
      PROVE  TypeOK'
  <2>1. CASE Await(w)
    BY <2>1 DEF WGo, Await, coreVars
  <2>2. CASE Flag(w)
    BY <2>2 DEF WGo, Flag, coreVars
  <2>3. CASE Loop(w)
    BY <2>3 DEF WGo, Loop, coreVars
  <2>4. CASE Write(w)
    BY <2>4 DEF WGo, Write, coreVars
  <2>5. CASE Cleanup(w)
    BY <2>5, RunAssumption DEF WGo, Cleanup, coreVars
  <2>. QED
    BY <1>3, <2>1, <2>2, <2>3, <2>4, <2>5 DEF Worker
<1>4. CASE Firmware
  BY <1>4 DEF Firmware, coreVars
<1>5. CASE UNCHANGED allVars
  BY <1>5 DEF allVars, vars, coreVars, pmuVars, commVars
<1>. QED
  BY <1>1, <1>2, <1>3, <1>4, <1>5 DEF Next

LEMMA SoloStep ==
    ASSUME TypeOK, SoloInv, [Next]_allVars
    PROVE  SoloInv'
<1>. USE DEF SoloInv, BeforeSignal
<1>1. CASE Core0
  <2>1. CASE Reinit
    BY <2>1 DEF Go, Reinit, pmuVars, commVars
  <2>2. CASE Halt("halt", "clear")
    BY <2>2 DEF Go, Halt, pmuVars, commVars
  <2>3. CASE Clear
    BY <2>3 DEF Go, Clear, pmuVars, commVars
  <2>4. CASE CopyText
    BY <2>4 DEF Go, CopyText, pmuVars, commVars
  <2>5. CASE CopyData
    BY <2>5 DEF Go, CopyData, pmuVars, commVars
  <2>6. CASE Boot
    BY <2>6 DEF Go, Boot, pmuVars, commVars
  <2>7. CASE WaitStarted
    BY <2>7 DEF Go, WaitStarted, pmuVars, commVars
  <2>8. CASE Signal
    BY <2>8 DEF Go, Signal, pmuVars, commVars
  <2>9. CASE WaitFlags
    BY <2>9 DEF Go, WaitFlags, pmuVars, commVars
  <2>10. CASE Trigger
    BY <2>10 DEF Go, Trigger, pmuVars, commVars
  <2>11. CASE WaitReady
    BY <2>11 DEF Go, WaitReady, pmuVars, commVars
  <2>12. CASE BenchEnd
    BY <2>12 DEF Go, BenchEnd, pmuVars, commVars
  <2>13. CASE PassEnd
    BY <2>13 DEF Go, PassEnd, pmuVars, commVars
  <2>14. CASE SetGo("go", "trigger", 1)
    BY <2>14 DEF Go, SetGo, pmuVars, commVars
  <2>15. CASE SetGo("stop", "exit", 2)
    BY <2>15 DEF Go, SetGo, pmuVars, commVars
  <2>16. CASE Exit
    BY <2>16 DEF Go, Exit, pmuVars, commVars
  <2>. QED
    BY <1>1, <2>1, <2>2, <2>3, <2>4, <2>5, <2>6, <2>7, <2>8,
       <2>9, <2>10, <2>11, <2>12, <2>13, <2>14, <2>15, <2>16 DEF Core0
<1>2. CASE Bench
  BY <1>2 DEF Bench, coreVars, pmuVars, commVars
<1>3. ASSUME NEW w \in Workers, Worker(w)
      PROVE  SoloInv'
  BY <1>3 DEF TypeOK, Worker, WGo, Await, Flag, Loop, Write, Cleanup, coreVars
<1>4. CASE Firmware
  BY <1>4 DEF Firmware, coreVars
<1>5. CASE UNCHANGED allVars
  BY <1>5 DEF allVars, vars, coreVars, pmuVars, commVars
<1>. QED
  BY <1>1, <1>2, <1>3, <1>4, <1>5 DEF Next

LEMMA LoadStep ==
    ASSUME TypeOK, LoadInv, [Next]_allVars
    PROVE  LoadInv'
<1>. USE DEF LoadInv, Loading
<1>1. CASE Core0
  <2>1. CASE Reinit
    BY <2>1 DEF Go, Reinit, pmuVars, commVars
  <2>2. CASE Halt("halt", "clear")
    BY <2>2 DEF Go, Halt, pmuVars, commVars
  <2>3. CASE Clear
    BY <2>3 DEF Go, Clear, pmuVars, commVars
  <2>4. CASE CopyText
    BY <2>4 DEF Go, CopyText, pmuVars, commVars
  <2>5. CASE CopyData
    BY <2>5 DEF Go, CopyData, pmuVars, commVars
  <2>6. CASE Boot
    BY <2>6 DEF Go, Boot, pmuVars, commVars
  <2>7. CASE WaitStarted
    BY <2>7 DEF Go, WaitStarted, pmuVars, commVars
  <2>8. CASE Signal
    BY <2>8 DEF Go, Signal, pmuVars, commVars
  <2>9. CASE WaitFlags
    BY <2>9 DEF Go, WaitFlags, pmuVars, commVars
  <2>10. CASE Trigger
    BY <2>10 DEF Go, Trigger, pmuVars, commVars
  <2>11. CASE WaitReady
    BY <2>11 DEF Go, WaitReady, pmuVars, commVars
  <2>12. CASE BenchEnd
    BY <2>12 DEF Go, BenchEnd, pmuVars, commVars
  <2>13. CASE PassEnd
    BY <2>13 DEF Go, PassEnd, pmuVars, commVars
  <2>14. CASE SetGo("go", "trigger", 1)
    BY <2>14 DEF Go, SetGo, pmuVars, commVars
  <2>15. CASE SetGo("stop", "exit", 2)
    BY <2>15 DEF Go, SetGo, pmuVars, commVars
  <2>16. CASE Exit
    BY <2>16 DEF Go, Exit, pmuVars, commVars
  <2>. QED
    BY <1>1, <2>1, <2>2, <2>3, <2>4, <2>5, <2>6, <2>7, <2>8,
       <2>9, <2>10, <2>11, <2>12, <2>13, <2>14, <2>15, <2>16 DEF Core0
<1>2. CASE Bench
  BY <1>2 DEF Bench, coreVars, pmuVars, commVars
<1>3. CASE \E w \in Workers : Worker(w)
  BY <1>3 DEF Worker, WGo, Await, Flag, Loop, Write, Cleanup, coreVars
<1>4. CASE Firmware
  BY <1>4 DEF Firmware, coreVars
<1>5. CASE UNCHANGED allVars
  BY <1>5 DEF allVars, vars, coreVars, pmuVars, commVars
<1>. QED
  BY <1>1, <1>2, <1>3, <1>4, <1>5 DEF Next

Inv == TypeOK /\ FilesInv /\ SoloInv /\ LoadInv

LEMMA InitInv == Init => Inv
<1> SUFFICES ASSUME Init PROVE Inv
  OBVIOUS
<1>1. FilesTypeOK /\ files = <<>>
  <2>1. Junk \in Bytes /\ 0 \in 0 .. HeapLimit /\ <<>> \in Seq(File)
    BY FilesAssumption DEF Junk, Bytes
  <2>2. \E v \in Volumes : fat1 = v.fat /\ fat2 = v.fat /\ root = v.root
    BY DEF Init, FilesInit
  <2>3. fat1 \in [Entries -> Nat] /\ fat2 \in [Entries -> Nat] /\ root \in Seq(Entry)
    BY <2>2, FilesAssumption
  <2>. QED
    BY <2>1, <2>3 DEF Init, FilesInit, FilesTypeOK
<1>2. TypeOK
  <2>1. pc \in CoreSteps /\ pass \in 1 .. 2 /\ k \in 1 .. NumCores
    BY RunAssumption DEF Init, CoreSteps
  <2>2. go \in 0 .. 2 /\ done \in [0 .. NumCores - 1 -> BOOLEAN]
    BY DEF Init
  <2>3. flag \in [Workers -> BOOLEAN] /\ status \in Statuses
    BY DEF Init, Statuses
  <2>4. {coresReady, cmd, running} \subseteq BOOLEAN
    BY DEF Init
  <2>5. /\ textOld \subseteq ImageWords(TextBytes) /\ dataOld \subseteq ImageWords(DataBytes)
        /\ wpc \in [Workers -> WorkerSteps]
    BY DEF Init, WorkerSteps
  <2>. QED
    BY <1>1, <2>1, <2>2, <2>3, <2>4, <2>5 DEF TypeOK
<1>3. FilesInv
  BY <1>1 DEF FilesInv, CursorInv
<1>4. SoloInv /\ LoadInv
  BY DEF Init, SoloInv, LoadInv, Loading, BeforeSignal
<1>. QED
  BY <1>2, <1>3, <1>4 DEF Inv

LEMMA StepInv == Inv /\ [Next]_allVars => Inv'
BY FilesKept, RunTyped, SoloStep, LoadStep DEF Inv

THEOREM RunInv == Spec => []Inv
BY InitInv, StepInv, PTL DEF Spec

-----------------------------------------------------------------------------
\* Every variable keeps its type.
THEOREM Typing == Spec => []TypeOK
BY RunInv, PTL DEF Inv

\* No open file is ever disturbed, by a later allocation or file, in either
\* pass, or by the interference, if both passes' allocations end below the
\* first buffer; and no operation leaves a position outside its file.
THEOREM FilesSafe == Spec => []OpenFilesIntact
<1>1. Inv => OpenFilesIntact
  <2> SUFFICES ASSUME Inv, NEW i \in DOMAIN files, IsOpen(files[i])
               PROVE  FileIntact(files[i]) /\ mem[files[i].data + files[i].size] = Zero
    BY DEF OpenFilesIntact
  <2>1. files[i] \in File /\ Intact(files[i], mem, heap) /\ files[i].pos <= files[i].size
    BY DEF Inv, TypeOK, FilesTypeOK, FilesInv, CursorInv
  <2>2. files[i].pos \in 0 .. files[i].size
    BY <2>1 DEF File
  <2>. QED
    BY <2>1, <2>2 DEF FileIntact, Intact
<1>. QED
  BY <1>1, RunInv, PTL

\* No core interferes with the first pass, whatever an earlier run left behind
\* and whether or not the cores are in time.
THEOREM Solo == Spec => []PassOneSolo
<1>1. Inv => PassOneSolo
  BY DEF Inv, SoloInv, PassOneSolo
<1>. QED
  BY <1>1, RunInv, PTL

\* The firmware is started from a complete image and a cleared communication
\* area in both passes, whatever the sizes of its text and data.
THEOREM ImageSafe == Spec => ImageStarted
<1>1. Inv /\ [Next]_allVars => [Go("boot", "started") => ImageLoaded]_allVars
  <2> SUFFICES ASSUME Inv, pc = "boot" PROVE ImageLoaded
    BY DEF Go
  <2>1. ~running /\ status = "none" /\ ~cmd /\ ~coresReady
    BY DEF Inv, LoadInv, Loading
  <2>2. ASSUME NEW b \in 0 .. TextBytes - 1 PROVE b \div 4 \notin textOld
    BY RunAssumption, EveryByteCopied DEF Inv, LoadInv
  <2>3. ASSUME NEW b \in 0 .. DataBytes - 1 PROVE b \div 4 \notin dataOld
    BY RunAssumption, EveryByteCopied DEF Inv, LoadInv
  <2>. QED
    BY <2>1, <2>2, <2>3 DEF ImageLoaded
<1>. QED
  BY <1>1, RunInv, PTL DEF Spec, ImageStarted

-----------------------------------------------------------------------------
\* The volume, on which only the benchmark works.

LEMMA VolumeOfRun ==
    ASSUME Inv, VolumeConsistent, [Next]_allVars
    PROVE  VolumeConsistent'
<1>1. FilesTypeOK
  BY DEF Inv, TypeOK
<1>2. CASE Bench
  BY <1>1, <1>2, VolumeStep DEF Bench
<1>3. CASE Next /\ ~Bench
  BY <1>3, RunStep, VolumeKept DEF Inv, volumeVars
<1>4. CASE UNCHANGED allVars
  BY <1>4, VolumeKept DEF allVars, vars, fileVars, volumeVars
<1>. QED
  BY <1>2, <1>3, <1>4

\* Whatever files the benchmark creates, in a volume of any size and however
\* full: as long as fat16_alloc finds its clusters in FAT1, both FATs agree, every
\* cluster in use belongs to the chain of exactly one entry and every chain ends;
\* as long as it finds them in the volume, every chain stays in the volume; and it
\* finds them there until no cluster of the volume is free.
THEOREM VolumeSound == Spec => []VolumeConsistent
<1>1. Init => VolumeConsistent
  BY VolumeInit DEF Init
<1>2. Inv /\ VolumeConsistent /\ [Next]_allVars => VolumeConsistent'
  BY VolumeOfRun
<1>. QED
  BY <1>1, <1>2, RunInv, PTL DEF Spec
=============================================================================
