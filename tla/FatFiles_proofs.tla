--------------------------- MODULE FatFiles_proofs ---------------------------
(***************************************************************************)
(* The volume of FatFiles: every operation keeps it consistent, for any    *)
(* volume it starts from.  A cluster chain is a recursive function of the  *)
(* FAT; what it is under a changed FAT is shown by induction, which is     *)
(* used here in the form of a set that contains every natural number.      *)
(***************************************************************************)
EXTENDS FatFiles, WellFoundedInduction, TLAPS

\* Induction over the natural numbers: a set with 0 and with the successor of
\* each number in it has them all.
LEMMA SetInduction ==
    ASSUME NEW S, 0 \in S, \A n \in Nat : n \in S => n + 1 \in S
    PROVE  Nat \subseteq S
<1> DEFINE T == Nat \ S
           R == OpToRel(<, Nat)
<1> SUFFICES ASSUME T # {} PROVE FALSE
    OBVIOUS
<1>1. IsWellFoundedOn(R, Nat)
    BY NatLessThanWellFounded
<1>2. T \subseteq Nat
    OBVIOUS
<1> HIDE DEF R
<1>3. PICK x \in T : \A y \in T : ~(<<y, x>> \in R)
    <2> HIDE DEF T
    <2> QED BY <1>1, <1>2, WFMin
<1>4. x # 0 /\ x \in Nat /\ x - 1 \in Nat /\ x - 1 \notin S
    OBVIOUS
<1>5. <<x - 1, x>> \in R
    BY <1>4 DEF R, OpToRel
<1> QED BY <1>3, <1>4, <1>5

-----------------------------------------------------------------------------
\* Chains.

\* The cluster after c.
After(fat, c) == IF c \in Entries THEN fat[c] ELSE c

\* The first k + 1 members of the chain from first.
Part(fat, first, g, k) ==
    /\ g \in [0 .. k -> Nat]
    /\ g[0] = first
    /\ \A n \in 0 .. k - 1 : g[n + 1] = After(fat, g[n])

LEMMA AfterType ==
    ASSUME NEW fat \in [Entries -> Nat], NEW c \in Nat
    PROVE  After(fat, c) \in Nat
BY DEF After

LEMMA PartExists ==
    ASSUME NEW fat \in [Entries -> Nat], NEW first \in Nat
    PROVE  \A k \in Nat : \E g : Part(fat, first, g, k)
<1> DEFINE S == {k \in Nat : \E g : Part(fat, first, g, k)}
<1>1. 0 \in S
    <2> DEFINE g == [n \in 0 .. 0 |-> first]
    <2>1. Part(fat, first, g, 0)
        BY DEF Part
    <2> HIDE DEF g
    <2> QED BY <2>1
<1>2. ASSUME NEW k \in Nat, k \in S PROVE k + 1 \in S
    <2>1. PICK g : Part(fat, first, g, k)
        BY <1>2
    <2> DEFINE h == [n \in 0 .. k + 1 |-> IF n <= k THEN g[n] ELSE After(fat, g[k])]
    <2>2. g \in [0 .. k -> Nat] /\ g[k] \in Nat
        BY <2>1 DEF Part
    <2>3. h \in [0 .. k + 1 -> Nat]
        BY <2>2, AfterType
    <2>4. h[0] = first
        BY <2>1 DEF Part
    <2>5. ASSUME NEW n \in 0 .. (k + 1) - 1 PROVE h[n + 1] = After(fat, h[n])
        <3>1. CASE n = k
            BY <3>1
        <3>2. CASE n # k
            <4>1. n \in 0 .. k - 1 /\ h[n + 1] = g[n + 1] /\ h[n] = g[n]
                BY <3>2
            <4> HIDE DEF h
            <4> QED BY <4>1, <2>1 DEF Part
        <3> QED BY <3>1, <3>2
    <2> HIDE DEF h
    <2>6. Part(fat, first, h, k + 1)
        BY <2>3, <2>4, <2>5 DEF Part
    <2> QED BY <2>6
<1> HIDE DEF S
<1>3. Nat \subseteq S
    BY <1>1, <1>2, SetInduction
<1> QED BY <1>3 DEF S

LEMMA PartUnique ==
    ASSUME NEW fat \in [Entries -> Nat], NEW first \in Nat,
           NEW k \in Nat, NEW l \in Nat, NEW g, NEW h,
           Part(fat, first, g, k), Part(fat, first, h, l)
    PROVE  \A n \in Nat : n <= k /\ n <= l => g[n] = h[n]
<1> DEFINE S == {n \in Nat : n <= k /\ n <= l => g[n] = h[n]}
<1>1. 0 \in S
    BY DEF Part
<1>2. ASSUME NEW n \in Nat, n \in S PROVE n + 1 \in S
    <2> SUFFICES ASSUME n + 1 <= k, n + 1 <= l PROVE g[n + 1] = h[n + 1]
        OBVIOUS
    <2>1. g[n] = h[n]
        BY <1>2
    <2>2. n \in 0 .. k - 1 /\ n \in 0 .. l - 1
        OBVIOUS
    <2> QED BY <2>1, <2>2 DEF Part
<1> HIDE DEF S
<1>3. Nat \subseteq S
    BY <1>1, <1>2, SetInduction
<1> QED BY <1>3 DEF S

\* ClusterAt is what its recursive definition says.
LEMMA ClusterAtDef ==
    ASSUME NEW fat \in [Entries -> Nat], NEW first \in Nat
    PROVE  /\ ClusterAt(fat, first) \in [Nat -> Nat]
           /\ ClusterAt(fat, first)[0] = first
           /\ \A n \in Nat :
                ClusterAt(fat, first)[n + 1] = After(fat, ClusterAt(fat, first)[n])
<1> DEFINE G(k) == CHOOSE g : Part(fat, first, g, k)
           f == [n \in Nat |-> G(n)[n]]
           D(g) == [n \in Nat |-> IF n = 0 THEN first
                                  ELSE LET c == g[n - 1]
                                       IN  IF c \in DOMAIN fat THEN fat[c] ELSE c]
           at == ClusterAt(fat, first)
<1>1. \A k \in Nat : Part(fat, first, G(k), k)
    BY PartExists
<1> HIDE DEF G
<1>2. f \in [Nat -> Nat] /\ f[0] = first
    BY <1>1 DEF Part
<1>3. ASSUME NEW n \in Nat PROVE f[n + 1] = After(fat, f[n])
    <2>1. Part(fat, first, G(n), n) /\ Part(fat, first, G(n + 1), n + 1)
        BY <1>1
    <2>2. G(n + 1)[n] = G(n)[n]
        BY <2>1, PartUnique
    <2>3. G(n + 1)[n + 1] = After(fat, G(n + 1)[n])
        BY <2>1 DEF Part
    <2> QED BY <2>2, <2>3
<1> HIDE DEF f
<1>4. f = D(f)
    <2>1. ASSUME NEW n \in Nat PROVE f[n] = D(f)[n]
        <3>1. CASE n = 0
            BY <3>1, <1>2
        <3>2. CASE n # 0
            <4>1. n - 1 \in Nat /\ (n - 1) + 1 = n
                BY <3>2
            <4>2. f[n] = After(fat, f[n - 1])
                BY <4>1, <1>3
            <4> QED BY <4>2, <3>2 DEF After
        <3> QED BY <3>1, <3>2
    <2>2. f = [n \in Nat |-> f[n]] /\ D(f) = [n \in Nat |-> D(f)[n]]
        BY <1>2
    <2> HIDE DEF D
    <2> QED BY <2>1, <2>2, Zenon
<1>5. at = D(at)
    <2>1. at = CHOOSE g : g = D(g)
        BY DEF ClusterAt
    <2> HIDE DEF at, D
    <2> QED BY <2>1, <1>4, Zenon
<1> HIDE DEF at
<1>6. at[0] = first
    BY <1>5
<1>7. ASSUME NEW n \in Nat PROVE at[n + 1] = After(fat, at[n])
    <2>1. D(at)[n + 1] = After(fat, at[n])
        BY DEF After
    <2> HIDE DEF D
    <2> QED BY <2>1, <1>5
<1>8. at \in [Nat -> Nat]
    <2> DEFINE S == {n \in Nat : at[n] \in Nat}
    <2>1. 0 \in S
        BY <1>6
    <2>2. ASSUME NEW n \in Nat, n \in S PROVE n + 1 \in S
        BY <2>2, <1>7, AfterType
    <2> HIDE DEF S
    <2>3. Nat \subseteq S
        BY <2>1, <2>2, SetInduction
    <2>4. at = [n \in Nat |-> at[n]]
        BY <1>5
    <2> QED BY <2>3, <2>4 DEF S
<1> QED BY <1>6, <1>7, <1>8 DEF at

LEMMA EntriesFacts ==
    /\ Entries \subseteq Nat /\ FatEntries \in Nat /\ Eoc \in Nat
    /\ Eoc \notin Entries /\ Free \notin Entries /\ Free # Eoc
BY FilesAssumption DEF Entries, Eoc, Free

\* A chain that has left the entries stays where it is.
LEMMA ChainSticks ==
    ASSUME NEW fat \in [Entries -> Nat], NEW first \in Nat,
           NEW m \in Nat, ClusterAt(fat, first)[m] \notin Entries
    PROVE  \A n \in Nat : m <= n => ClusterAt(fat, first)[n] = ClusterAt(fat, first)[m]
<1> DEFINE at == ClusterAt(fat, first)
           S == {n \in Nat : m <= n => at[n] = at[m]}
<1>1. \A n \in Nat : at[n + 1] = After(fat, at[n])
    BY ClusterAtDef
<1> HIDE DEF at
<1>2. 0 \in S
    BY DEF S
<1>3. ASSUME NEW n \in Nat, n \in S PROVE n + 1 \in S
    <2>1. CASE m <= n
        <3>1. at[n] = at[m] /\ at[n] \notin Entries
            BY <1>3, <2>1 DEF at
        <3> QED BY <3>1, <1>1 DEF After
    <2>2. CASE ~(m <= n)
        BY <2>2
    <2> QED BY <2>1, <2>2
<1> HIDE DEF S
<1>4. Nat \subseteq S
    BY <1>2, <1>3, SetInduction
<1> QED BY <1>4 DEF S, at

\* A file without clusters has no chain.
LEMMA NoChain ==
    ASSUME NEW fat \in [Entries -> Nat]
    PROVE  \A n \in Nat : ClusterAt(fat, Free)[n] = Free
<1>1. Free \in Nat /\ Free \notin Entries
    BY EntriesFacts DEF Free
<1>2. ClusterAt(fat, Free)[0] = Free
    BY <1>1, ClusterAtDef
<1> QED BY <1>1, <1>2, ChainSticks

\* A chain that ends does not pass through a free cluster.
LEMMA FreeNotInChain ==
    ASSUME NEW fat \in [Entries -> Nat], NEW first \in Nat,
           ClusterAt(fat, first)[FatEntries] = Eoc,
           NEW c \in Entries, fat[c] = Free
    PROVE  \A n \in 0 .. FatEntries : ClusterAt(fat, first)[n] # c
<1> DEFINE at == ClusterAt(fat, first)
<1> USE EntriesFacts
<1> SUFFICES ASSUME NEW n \in 0 .. FatEntries, at[n] = c PROVE FALSE
    OBVIOUS
<1>1. at[n + 1] = Free
    <2>1. \A l \in Nat : at[l + 1] = After(fat, at[l])
        BY ClusterAtDef
    <2> HIDE DEF at
    <2> QED BY <2>1 DEF After
<1>2. n # FatEntries /\ n + 1 \in Nat /\ n + 1 <= FatEntries
    OBVIOUS
<1>3. at[FatEntries] = Free
    <2>1. at[n + 1] \notin Entries
        BY <1>1
    <2>2. \A l \in Nat : n + 1 <= l => at[l] = at[n + 1]
        BY <1>2, <2>1, ChainSticks
    <2> QED BY <1>1, <1>2, <2>2
<1> QED BY <1>3

\* Changing the FAT where a chain does not pass leaves the chain as it is.
LEMMA ChainKept ==
    ASSUME NEW fat \in [Entries -> Nat], NEW new \in [Entries -> Nat],
           NEW c \in Entries, \A d \in Entries : d # c => new[d] = fat[d],
           NEW first \in Nat, \A n \in 0 .. FatEntries : ClusterAt(fat, first)[n] # c
    PROVE  /\ \A n \in 0 .. FatEntries : ClusterAt(new, first)[n] = ClusterAt(fat, first)[n]
           /\ Chain(new, first) = Chain(fat, first)
<1> USE EntriesFacts
<1> DEFINE at == ClusterAt(fat, first)
           bt == ClusterAt(new, first)
           S == {n \in Nat : n <= FatEntries => bt[n] = at[n]}
<1>2. at[0] = first /\ \A n \in Nat : at[n + 1] = After(fat, at[n])
    BY ClusterAtDef
<1>3. bt[0] = first /\ \A n \in Nat : bt[n + 1] = After(new, bt[n])
    BY ClusterAtDef
<1>4. \A n \in 0 .. FatEntries : at[n] # c
    OBVIOUS
<1> HIDE DEF at, bt
<1>5. 0 \in S
    BY <1>2, <1>3
<1>6. ASSUME NEW n \in Nat, n \in S PROVE n + 1 \in S
    <2> SUFFICES ASSUME n + 1 <= FatEntries PROVE bt[n + 1] = at[n + 1]
        OBVIOUS
    <2>1. bt[n] = at[n] /\ at[n] # c
        BY <1>6, <1>4
    <2>2. After(new, bt[n]) = After(fat, at[n])
        BY <2>1 DEF After
    <2> QED BY <2>2, <1>2, <1>3
<1> HIDE DEF S
<1>7. Nat \subseteq S
    BY <1>5, <1>6, SetInduction
<1>8. \A n \in 0 .. FatEntries : bt[n] = at[n]
    BY <1>7 DEF S
<1>9. Chain(new, first) = Chain(fat, first)
    <2>1. {bt[n] : n \in 0 .. FatEntries} = {at[n] : n \in 0 .. FatEntries}
        BY <1>8
    <2> QED BY <2>1 DEF Chain, at, bt
<1> QED BY <1>8, <1>9 DEF at, bt

\* The chain of a cluster just allocated is the cluster.
LEMMA ChainOfNew ==
    ASSUME NEW fat \in [Entries -> Nat], NEW c \in Entries, fat[c] = Eoc
    PROVE  Chain(fat, c) = {c} /\ ClusterAt(fat, c)[FatEntries] = Eoc
<1> USE EntriesFacts
<1> DEFINE at == ClusterAt(fat, c)
<1>1. c \in Nat
    OBVIOUS
<1>0. 2 <= FatEntries
    BY DEF Entries
<1>2. at[0] = c /\ \A n \in Nat : at[n + 1] = After(fat, at[n])
    BY <1>1, ClusterAtDef
<1>3. at[1] = Eoc /\ at[1] \notin Entries
    <2> HIDE DEF at
    <2>1. at[0 + 1] = After(fat, at[0])
        BY <1>2
    <2> QED BY <2>1, <1>1, <1>2 DEF After
<1>4. \A n \in Nat : 1 <= n => at[n] = at[1]
    BY <1>1, <1>3, ChainSticks
<1>7. Chain(fat, c) = {at[n] : n \in 0 .. FatEntries} \cap Entries
    BY DEF Chain
<1> HIDE DEF at
<1>5. \A n \in Nat : n # 0 => at[n] = Eoc
    BY <1>3, <1>4
<1>6. {at[n] : n \in 0 .. FatEntries} \cap Entries = {c}
    BY <1>2, <1>5
<1>8. at[FatEntries] = Eoc
    BY <1>0, <1>5
<1> QED BY <1>6, <1>7, <1>8 DEF at

-----------------------------------------------------------------------------
\* The volume.

LEMMA FirstType ==
    ASSUME NEW r \in Seq(Entry), NEW o \in Owners(r)
    PROVE  First(r, o) \in Nat
<1>1. CASE \E j \in DOMAIN r : o = <<0, j>>
    <2>1. PICK j \in DOMAIN r : o = <<0, j>>
        BY <1>1
    <2>2. r[j] \in Entry
        OBVIOUS
    <2> QED BY <2>1, <2>2 DEF First, Entry
<1>2. CASE \E d \in Entries : \E j \in DOMAIN SubEntries[d] : o = <<d, j>>
    <2>1. PICK d \in Entries : \E j \in DOMAIN SubEntries[d] : o = <<d, j>>
        BY <1>2
    <2>2. PICK j \in DOMAIN SubEntries[d] : o = <<d, j>>
        BY <2>1
    <2>3. SubEntries[d] \in Seq(Entry) /\ d # 0
        BY FilesAssumption DEF Entries
    <2>4. SubEntries[d][j] \in Entry
        BY <2>3
    <2> QED BY <2>2, <2>3, <2>4 DEF First, Entry
<1> QED BY <1>1, <1>2 DEF Owners

\* An entry written to an unused slot is one more owner; the others keep
\* their first clusters.
LEMMA OneMoreOwner ==
    ASSUME NEW r \in Seq(Entry), NEW i \in DOMAIN r, Unused(r[i]),
           NEW new, DOMAIN new = DOMAIN r, new[i].kind = "file",
           \A j \in DOMAIN r : j # i => new[j] = r[j]
    PROVE  /\ Owners(new) = Owners(r) \cup {<<0, i>>} /\ <<0, i>> \notin Owners(r)
           /\ First(new, <<0, i>>) = new[i].first
           /\ \A o \in Owners(r) : First(new, o) = First(r, o)
<1> DEFINE InRoot(s) == {<<0, j>> : j \in {l \in DOMAIN s : s[l].kind \in {"file", "dir"}}}
           InSub == UNION {{<<c, j>> : j \in {l \in DOMAIN SubEntries[c] :
                                                  SubEntries[c][l].kind = "file"}}
                           : c \in Entries}
<1>2. r[i].kind \notin {"file", "dir"}
    BY DEF Unused
<1>3. InRoot(new) = InRoot(r) \cup {<<0, i>>} /\ <<0, i>> \notin InRoot(r)
    BY <1>2
<1>4. \A o \in InSub : o[1] \in Entries /\ o[1] # 0
    BY DEF Entries
<1>5. \A o \in InRoot(r) : \E j \in DOMAIN r : j # i /\ o = <<0, j>>
    BY <1>2
<1>6. Owners(new) = InRoot(new) \cup InSub /\ Owners(r) = InRoot(r) \cup InSub
    BY DEF Owners
<1> HIDE DEF InRoot, InSub
<1>7. <<0, i>> \notin InSub
    BY <1>4
<1>8. ASSUME NEW o \in Owners(r) PROVE First(new, o) = First(r, o)
    <2>1. CASE o \in InRoot(r)
        <3>1. PICK j \in DOMAIN r : j # i /\ o = <<0, j>>
            BY <2>1, <1>5
        <3> QED BY <3>1 DEF First
    <2>2. CASE o \in InSub
        BY <2>2, <1>4 DEF First
    <2> QED BY <2>1, <2>2, <1>6
<1>9. First(new, <<0, i>>) = new[i].first
    BY DEF First
<1> QED BY <1>3, <1>6, <1>7, <1>8, <1>9

\* Every chain is that of the new cluster c or the same as before.
OthersKept(fat, r, fatN, rN, c) ==
    \A o \in Owners(rN) :
        \/ Chain(fatN, First(rN, o)) = {c}
        \/ o \in Owners(r) /\ Chain(fatN, First(rN, o)) = Chain(fat, First(r, o))

\* A file created in a consistent volume, in the first unused slot and with a
\* free cluster, leaves it consistent: the file owns this cluster alone, and
\* every other chain is what it was.
LEMMA CreatedSound ==
    ASSUME NEW fat \in [Entries -> Nat], NEW r \in Seq(Entry), Sound(fat, r),
           NEW c \in Entries, fat[c] = Free,
           NEW i \in DOMAIN r, Unused(r[i]), \A j \in 1 .. i - 1 : ~Unused(r[j]),
           NEW fatN \in [Entries -> Nat], fatN[c] = Eoc,
           \A d \in Entries : d # c => fatN[d] = fat[d],
           NEW rN, DOMAIN rN = DOMAIN r, rN[i].kind = "file", rN[i].first = c,
           \A j \in DOMAIN r : j # i => rN[j] = r[j]
    PROVE  Sound(fatN, rN) /\ OthersKept(fat, r, fatN, rN, c)
<1>1. /\ Owners(rN) = Owners(r) \cup {<<0, i>>} /\ <<0, i>> \notin Owners(r)
      /\ First(rN, <<0, i>>) = c
      /\ \A o \in Owners(r) : First(rN, o) = First(r, o)
    BY OneMoreOwner
<1>2. Chain(fatN, c) = {c} /\ ClusterAt(fatN, c)[FatEntries] = Eoc
    BY ChainOfNew
<1>3. ASSUME NEW o \in Owners(r)
      PROVE  /\ Chain(fatN, First(r, o)) = Chain(fat, First(r, o))
             /\ c \notin Chain(fat, First(r, o))
             /\ \/ First(r, o) = Free
                \/ ClusterAt(fatN, First(r, o))[FatEntries] = Eoc
    <2> DEFINE f == First(r, o)
               at == ClusterAt(fat, f)
    <2>1. f \in Nat
        BY FirstType
    <2>2. f = Free \/ at[FatEntries] = Eoc
        BY DEF Sound, ChainsEnd
    <2> HIDE DEF f
    <2>3. \A n \in 0 .. FatEntries : at[n] # c
        <3>1. CASE f = Free
            BY <3>1, NoChain, EntriesFacts
        <3>2. CASE at[FatEntries] = Eoc
            BY <3>2, <2>1, FreeNotInChain
        <3> QED BY <3>1, <3>2, <2>2
    <2>4. Eoc \in Nat /\ FatEntries \in 0 .. FatEntries
        BY EntriesFacts
    <2>5. /\ \A n \in 0 .. FatEntries : ClusterAt(fatN, f)[n] = at[n]
          /\ Chain(fatN, f) = Chain(fat, f)
        BY <2>1, <2>3, <2>4, ChainKept
    <2>6. c \notin Chain(fat, f)
        BY <2>3 DEF Chain
    <2> QED BY <2>2, <2>4, <2>5, <2>6 DEF f
<1>5. UsedFirst(rN)
    <2> SUFFICES ASSUME NEW j \in DOMAIN rN, NEW l \in DOMAIN rN, l < j, rN[l].kind = "end"
                 PROVE  rN[j].kind = "end"
        BY DEF UsedFirst
    <2>1. l # i /\ rN[l] = r[l]
        OBVIOUS
    <2>2. j # i
        BY <2>1 DEF Unused
    <2>3. r[j].kind = "end"
        BY <2>1 DEF Sound, UsedFirst
    <2> QED BY <2>2, <2>3
<1>6. ChainsEnd(fatN, rN)
    BY <1>1, <1>2, <1>3 DEF ChainsEnd
<1>7. ASSUME NEW o \in Owners(rN)
      PROVE  \/ o = <<0, i>> /\ Chain(fatN, First(rN, o)) = {c}
             \/ /\ o \in Owners(r) /\ o # <<0, i>>
                /\ Chain(fatN, First(rN, o)) = Chain(fat, First(r, o))
                /\ c \notin Chain(fat, First(r, o))
    BY <1>1, <1>2, <1>3
<1>8. ClustersOwned(fatN, rN)
    <2>1. ASSUME NEW d \in Entries, fatN[d] # Free
          PROVE  \E o \in Owners(rN) : d \in Chain(fatN, First(rN, o))
        <3>1. CASE d = c
            BY <3>1, <1>1, <1>2
        <3>2. CASE d # c
            <4>1. PICK o \in Owners(r) : d \in Chain(fat, First(r, o))
                BY <2>1, <3>2 DEF Sound, ClustersOwned
            <4> QED BY <4>1, <1>1, <1>3
        <3> QED BY <3>1, <3>2
    <2>2. ASSUME NEW o \in Owners(rN), NEW p \in Owners(rN), o # p
          PROVE  Chain(fatN, First(rN, o)) \cap Chain(fatN, First(rN, p)) = {}
        <3>1. CASE o # <<0, i>> /\ p # <<0, i>>
            <4>1. o \in Owners(r) /\ p \in Owners(r)
                BY <3>1, <1>1
            <4>2. Chain(fat, First(r, o)) \cap Chain(fat, First(r, p)) = {}
                BY <4>1, <2>2 DEF Sound, ClustersOwned
            <4> QED BY <4>1, <4>2, <1>1, <1>3
        <3>2. CASE o = <<0, i>> \/ p = <<0, i>>
            <4>1. \A q \in Owners(rN) : q # <<0, i>> =>
                     c \notin Chain(fatN, First(rN, q))
                BY <1>7
            <4>2. Chain(fatN, First(rN, <<0, i>>)) = {c}
                BY <1>1, <1>2
            <4> QED BY <4>1, <4>2, <3>2, <2>2
        <3> QED BY <3>1, <3>2
    <2> QED BY <2>1, <2>2 DEF ClustersOwned
<1>9. Sound(fatN, rN)
    BY <1>5, <1>6, <1>8 DEF Sound
<1> QED BY <1>7, <1>9 DEF OthersKept

\* A new size leaves owners and chains alone.
LEMMA ResizedSound ==
    ASSUME NEW fat, NEW r \in Seq(Entry), NEW i \in DOMAIN r, NEW size \in Nat
    PROVE  LET new == [r EXCEPT ![i].size = size]
           IN  /\ Sound(fat, r) => Sound(fat, new)
               /\ ChainsInside(fat, r) => ChainsInside(fat, new)
<1> DEFINE new == [r EXCEPT ![i].size = size]
<1>1. DOMAIN new = DOMAIN r
      /\ \A j \in DOMAIN r : new[j].kind = r[j].kind /\ new[j].first = r[j].first
    <2>1. \A j \in DOMAIN r : r[j] \in Entry
        OBVIOUS
    <2> QED BY <2>1 DEF Entry
<1> HIDE DEF new
<1>2. Owners(new) = Owners(r)
    <2>1. {j \in DOMAIN new : new[j].kind \in {"file", "dir"}}
             = {j \in DOMAIN r : r[j].kind \in {"file", "dir"}}
        BY <1>1
    <2> QED BY <2>1 DEF Owners
<1>3. ASSUME NEW o \in Owners(r) PROVE First(new, o) = First(r, o)
    <2>1. CASE o[1] = 0
        <3>1. o[2] \in DOMAIN r
            BY <2>1 DEF Owners, Entries
        <3> QED BY <3>1, <1>1 DEF First
    <2>2. CASE o[1] # 0
        BY <2>2 DEF First
    <2> QED BY <2>1, <2>2
<1>4. UsedFirst(r) => UsedFirst(new)
    BY <1>1 DEF UsedFirst
<1>5. ChainsEnd(fat, r) => ChainsEnd(fat, new)
    BY <1>2, <1>3 DEF ChainsEnd
<1>6. ChainsInside(fat, r) => ChainsInside(fat, new)
    BY <1>2, <1>3 DEF ChainsInside
<1>7. ClustersOwned(fat, r) => ClustersOwned(fat, new)
    <2>1. [o \in Owners(new) |-> Chain(fat, First(new, o))]
             = [o \in Owners(r) |-> Chain(fat, First(r, o))]
        BY <1>2, <1>3
    <2> QED BY <2>1, <1>2 DEF ClustersOwned
<1> QED BY <1>4, <1>5, <1>6, <1>7 DEF Sound, new

LEMMA VolumeInit ==
    ASSUME FilesInit
    PROVE  VolumeConsistent
<1>1. PICK v \in Volumes : fat1 = v.fat /\ fat2 = v.fat /\ root = v.root
    BY DEF FilesInit
<1>2. Sound(fat1, root) /\ ChainsInside(fat1, root)
    BY <1>1, VolumesAssumption
<1>3. reach <= LastCluster
    BY FilesAssumption DEF FilesInit
<1> QED BY <1>1, <1>2, <1>3 DEF VolumeConsistent

\* What the scan reads first are the entries of FAT1.
LEMMA WordsOfFat ==
    \A d \in Entries : d \in Scanned /\ Words[d] = fat1[d]
<1> SUFFICES ASSUME NEW d \in Entries PROVE d \in Scanned /\ Words[d] = fat1[d]
    OBVIOUS
<1>1. d \in Scanned
    BY FilesAssumption DEF Entries, Scanned
<1>2. /\ FatEntries \in Nat /\ Entries = 2 .. FatEntries - 1 /\ RootWord = 2 * FatEntries
    BY FilesAssumption DEF Entries, RootWord
<1>3. d - FatEntries \notin Entries /\ ~(RootWord <= d)
    BY <1>2
<1>4. Words[d] = fat1[d]
    BY <1>1, <1>3, Zenon DEF Words
<1> QED BY <1>1, <1>4

LEMMA StruckNowhere ==
    ASSUME NEW e \in Entry
    PROVE  Struck(e, {}) = e
BY DEF Struck, Entry

\* A cluster found in FAT1 is marked in FAT1 and FAT2, and nothing in the root is.
LEMMA RootUntouched ==
    ASSUME NEW c \in Entries, NEW r \in Seq(Entry), NEW j \in DOMAIN r
    PROVE  StruckDir(r, RootWord, Hit(c))[j] = r[j]
<1> DEFINE ws == {w \in 0 .. EntryWords - 1 : RootWord + (j - 1) * EntryWords + w \in Hit(c)}
<1>1. (j - 1) * EntryWords \in Nat
    <2>1. j - 1 \in Nat /\ EntryWords \in Nat
        BY FilesAssumption
    <2>2. \A m, n \in Nat : m * n \in Nat
        OBVIOUS
    <2> QED BY <2>1, <2>2
<1>2. ws = {}
    <2> DEFINE skip == (j - 1) * EntryWords
    <2>1. skip \in Nat /\ ws = {w \in 0 .. EntryWords - 1 : RootWord + skip + w \in Hit(c)}
        BY <1>1
    <2> HIDE DEF skip, ws
    <2>2. c < FatEntries /\ c \in Nat /\ FatEntries \in Nat /\ EntryWords \in Nat
        BY FilesAssumption DEF Entries
    <2> QED BY <2>1, <2>2 DEF Hit, RootWord
<1>3. StruckDir(r, RootWord, Hit(c))[j] = Struck(r[j], ws)
    BY DEF StruckDir
<1>4. r[j] \in Entry
    OBVIOUS
<1> QED BY <1>2, <1>3, <1>4, StruckNowhere

LEMMA CreateKeeps ==
    ASSUME FilesTypeOK, VolumeConsistent, NEW name \in NewNames, Create(name)
    PROVE  VolumeConsistent'
<1>1. PICK i \in DOMAIN root, c \in Scanned :
          /\ FreeEntry(i) /\ Alloc(c)
          /\ root' = [StruckDir(root, RootWord, Hit(c)) EXCEPT ![i] = NewFile(name, c)]
    BY Zenon DEF Create
<1>2. /\ fat1 \in [Entries -> Nat] /\ fat2 \in [Entries -> Nat] /\ root \in Seq(Entry)
      /\ reach \in Nat /\ c \in Nat /\ reach' = IF c > reach THEN c ELSE reach
    BY <1>1 DEF FilesTypeOK, Alloc, Scanned
<1>3. /\ Words[c] = Free /\ \A d \in 2 .. c - 1 : Words[d] # Free
      /\ Unused(root[i]) /\ \A j \in 1 .. i - 1 : ~Unused(root[j])
      /\ fat1' = [d \in Entries |-> IF d \in Hit(c) THEN Eoc ELSE fat1[d]]
      /\ fat2' = [d \in Entries |-> IF FatEntries + d \in Hit(c) THEN Eoc ELSE fat2[d]]
    BY <1>1 DEF Alloc, FirstFree, FreeEntry
<1>4. /\ FatEntries \in Nat /\ LastCluster \in Nat /\ LastCluster < FatEntries
      /\ Entries = 2 .. FatEntries - 1
    BY FilesAssumption DEF Entries
<1>5. ASSUME c \in Entries, fat1 = fat2, Sound(fat1, root)
      PROVE  /\ fat1' = fat2' /\ Sound(fat1', root')
             /\ OthersKept(fat1, root, fat1', root', c)
    <2>1. /\ c \in Entries /\ fat1[c] = Free /\ fat1 \in [Entries -> Nat]
          /\ root \in Seq(Entry) /\ Sound(fat1, root)
          /\ Unused(root[i]) /\ \A j \in 1 .. i - 1 : ~Unused(root[j])
        BY <1>2, <1>3, <1>5, WordsOfFat
    <2>2. /\ fat1' \in [Entries -> Nat] /\ fat1'[c] = Eoc /\ fat1' = fat2'
          /\ \A d \in Entries : d # c => fat1'[d] = fat1[d]
        BY <1>2, <1>3, <1>4, <1>5, EntriesFacts DEF Hit
    <2>3. \A j \in DOMAIN root : StruckDir(root, RootWord, Hit(c))[j] = root[j]
        BY <1>2, <1>5, RootUntouched
    <2>4. DOMAIN StruckDir(root, RootWord, Hit(c)) = DOMAIN root
        BY DEF StruckDir
    <2>5. /\ DOMAIN root' = DOMAIN root /\ root'[i] = NewFile(name, c)
          /\ \A j \in DOMAIN root : j # i => root'[j] = root[j]
        <3> DEFINE struck == StruckDir(root, RootWord, Hit(c))
        <3>1. /\ DOMAIN struck = DOMAIN root
              /\ \A j \in DOMAIN root : struck[j] = root[j]
            BY <2>3, <2>4
        <3>2. root' = [struck EXCEPT ![i] = NewFile(name, c)]
            BY <1>1
        <3>3. struck = [j \in DOMAIN struck |-> struck[j]]
            BY DEF StruckDir
        <3> HIDE DEF struck
        <3> QED BY <3>1, <3>2, <3>3
    <2>6. root'[i].kind = "file" /\ root'[i].first = c
        BY <2>5 DEF NewFile
    <2>7. ASSUME NEW fatN, fatN = fat1', NEW rN, rN = root'
          PROVE  Sound(fatN, rN) /\ OthersKept(fat1, root, fatN, rN, c)
        <3>1. /\ fatN \in [Entries -> Nat] /\ fatN[c] = Eoc
              /\ \A d \in Entries : d # c => fatN[d] = fat1[d]
            BY <2>2, <2>7
        <3>2. /\ DOMAIN rN = DOMAIN root /\ rN[i].kind = "file" /\ rN[i].first = c
              /\ \A j \in DOMAIN root : j # i => rN[j] = root[j]
            BY <2>5, <2>6, <2>7
        <3>3. Sound(fatN, rN)
            BY ONLY <2>1, <3>1, <3>2, CreatedSound
        <3>4. OthersKept(fat1, root, fatN, rN, c)
            BY ONLY <2>1, <3>1, <3>2, CreatedSound
        <3> QED BY <3>3, <3>4
    <2> QED BY <2>2, <2>7
<1>6. reach' < FatEntries => fat1' = fat2' /\ Sound(fat1', root')
    <2> SUFFICES ASSUME reach' < FatEntries PROVE fat1' = fat2' /\ Sound(fat1', root')
        OBVIOUS
    <2>1. reach < FatEntries /\ c \in Entries
        BY <1>2, <1>4, <1>1 DEF Scanned
    <2> QED BY <2>1, <1>5 DEF VolumeConsistent
<1>7. reach' <= LastCluster => ChainsInside(fat1', root')
    <2> SUFFICES ASSUME reach' <= LastCluster PROVE ChainsInside(fat1', root')
        OBVIOUS
    <2>1. /\ reach <= LastCluster /\ reach < FatEntries
          /\ c <= LastCluster /\ c \in Entries
        BY <1>2, <1>4, <1>1 DEF Scanned
    <2>2. OthersKept(fat1, root, fat1', root', c) /\ ChainsInside(fat1, root)
        BY <2>1, <1>5 DEF VolumeConsistent
    <2> QED BY <2>1, <2>2 DEF ChainsInside, OthersKept
<1>8. RoomLeft(fat1') => RoomLeft(fat1) /\ c <= LastCluster
    <2> SUFFICES ASSUME NEW d \in Entries, d <= LastCluster, fat1'[d] = Free
                 PROVE  RoomLeft(fat1) /\ c <= LastCluster
        BY DEF RoomLeft
    <2>1. fat1[d] = Free /\ d # c
        BY <1>3, EntriesFacts DEF Hit
    <2>2. ~(d \in 2 .. c - 1)
        BY <1>3, <2>1, WordsOfFat
    <2>3. c <= d
        BY <1>2, <1>4, <2>2
    <2> QED BY <1>2, <1>4, <2>1, <2>3 DEF RoomLeft
<1>9. RoomLeft(fat1') => reach' <= LastCluster
    BY <1>2, <1>4, <1>8 DEF VolumeConsistent
<1> QED BY <1>6, <1>7, <1>9 DEF VolumeConsistent

LEMMA VolumeKept ==
    ASSUME VolumeConsistent, UNCHANGED <<fat1, fat2, root, reach>>
    PROVE  VolumeConsistent'
BY DEF VolumeConsistent

\* Every operation of the benchmark keeps the volume as it should be.
LEMMA VolumeStep ==
    ASSUME FilesTypeOK, VolumeConsistent, FilesNext
    PROVE  VolumeConsistent'
<1>1. CASE \E n \in BlockSizes : Malloc(n)
    BY <1>1, VolumeKept DEF Malloc, volumeVars
<1>2. CASE \E name \in NewNames : Create(name)
    BY <1>2, CreateKeeps
<1>3. CASE \E i \in DOMAIN root, size \in BlockSizes : SetSize(i, size)
    <2>1. PICK i \in DOMAIN root, size \in BlockSizes : SetSize(i, size)
        BY <1>3
    <2>2. /\ root' = [root EXCEPT ![i].size = size] /\ UNCHANGED <<fat1, fat2, reach>>
          /\ root \in Seq(Entry) /\ size \in Nat
        BY <2>1, FilesAssumption DEF SetSize, FilesTypeOK
    <2>3. /\ Sound(fat1, root) => Sound(fat1, root')
          /\ ChainsInside(fat1, root) => ChainsInside(fat1, root')
        BY <2>2, ResizedSound
    <2> QED BY <2>2, <2>3 DEF VolumeConsistent
<1>4. CASE \E path \in Paths : Fopen(path)
    BY <1>4, VolumeKept DEF Fopen, volumeVars
<1>5. CASE \E i \in DOMAIN files :
              \/ \E want \in BlockSizes : Fread(i, want)
              \/ \E base \in {0, files[i].pos, files[i].size}, offset \in Offsets :
                    Fseek(i, base, offset)
              \/ \E format \in {"%d", "%f"} : Fscanf(i, format)
              \/ Fclose(i)
    BY <1>5, VolumeKept DEF Fread, Fseek, Fscanf, Fclose, Move, volumeVars
<1> QED BY <1>1, <1>2, <1>3, <1>4, <1>5 DEF FilesNext
=============================================================================
