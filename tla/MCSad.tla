-------------------------------- MODULE MCSad --------------------------------
(***************************************************************************)
(* TLC instances of SadRun: constants that a .cfg cannot write.            *)
(***************************************************************************)
EXTENDS SadRun

E(kind, name, first, size) ==
    [kind |-> kind, name |-> name, first |-> first, size |-> size, other |-> {}]
End == E("end", "none", 0, 0)

\* A chain of clusters in a FAT of 2..11; the others are free.
Links(chains) == [c \in 2 .. 11 |->
    IF \E s \in chains : \E i \in DOMAIN s : s[i] = c
    THEN LET s == CHOOSE s \in chains : \E i \in DOMAIN s : s[i] = c
             i == CHOOSE i \in DOMAIN s : s[i] = c
         IN  IF i = Len(s) THEN Eoc ELSE s[i + 1]
    ELSE Free]

\* Clusters 2..10, and a FAT entry behind them. The directory d begins in cluster
\* 2, its file is in 4.
MCVolumes ==
    { \* a free cluster and the entry behind; slots for both, one of them deleted
      [fat |-> Links({<<2, 6, 7, 8, 9>>, <<4>>, <<3, 5>>}),
       root |-> <<E("label", "vol", 0, 0), E("deleted", "b", 0, 0),
                  E("dir", "d", 2, 0), E("file", "a", 3, 3), End>>],
      \* a free cluster and no slot
      [fat |-> Links({<<2, 6, 7, 8, 9>>, <<4>>, <<3, 5>>}),
       root |-> <<E("dir", "d", 2, 0), E("file", "a", 3, 3)>>],
      \* no free cluster; a root directory as long as a FAT
      [fat |-> Links({<<2, 3, 5, 6, 7, 8, 9, 10>>, <<4>>}),
       root |-> <<E("dir", "d", 2, 0), E("deleted", "b", 0, 0), End>>] }

MCSubEntries == [c \in 2 .. 11 |->
    IF c = 2 THEN <<E("dot", "d", 2, 0), E("file", "long~1", 4, 2), End>> ELSE <<>>]

\* the component "longer" has the short name "long~1"
MCAnswers == [c \in {"a", "b", "d", "longer"} |->
    IF c = "longer" THEN {"longer", "long~1"} ELSE {c}]

MCByteClass == [b \in (2 .. LastEntry) \X (0 .. 1) |->
    CASE b = <<3, 0>> -> "space" [] b = <<3, 1>> -> "minus"
      [] b \in {<<5, 0>>, <<4, 0>>} -> "digit" [] b = <<4, 1>> -> "dot"
      [] OTHER -> "other"]

MCPaths == {<<"a">>, <<"b">>, <<"d", "longer">>}
MCOffsets == {-1, 1}

\* Runs whose cores are not in time start with the volume that has no slot left.
MCInit == Init /\ (timely \/ \A i \in DOMAIN root : ~Unused(root[i]))
MCSpec == MCInit /\ [][Next]_allVars /\ Fairness
=============================================================================
