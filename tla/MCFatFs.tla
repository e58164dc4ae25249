------------------------------ MODULE MCFatFs ------------------------------
(***************************************************************************)
(* Instances of FatFs: a card with four clusters for files, one directory  *)
(* entry in a sector and three FAT entries in another.                     *)
(***************************************************************************)
EXTENDS FatFs, TLC

Reading == [create |-> "no", write |-> FALSE]
Writing == [create |-> "open", write |-> TRUE]
Replacing == [create |-> "always", write |-> TRUE]
MCModes == {Reading, Writing, Replacing}

File(n, start, size) == [name |-> n, start |-> start, size |-> size]

(* File "a" of one piece, the rest free.                                   *)
OneFile ==
  [EmptyCard EXCEPT
     ![FatSector(3)][3] = LastLink,
     ![InfoSector] = [free |-> LastCluster - 3, last |-> 3],
     ![clust2sect(dirbase)].table[1] = File("a", 3, 1),
     ![clust2sect(3)].data[1] = "x"]

(* "a" in two clusters with the one of "b" between them, the directory     *)
(* stretched for the entry of "b", and no cluster left.                    *)
FullCard ==
  [EmptyCard EXCEPT
     ![FatSector(dirbase)][dirbase] = 6,
     ![FatSector(3)][3] = 5,
     ![FatSector(4)] = [c \in DOMAIN @ |-> LastLink],
     ![InfoSector] = [free |-> 0, last |-> 5],
     ![clust2sect(dirbase)].table[1] = File("a", 3, 3),
     ![clust2sect(3)].data = <<"x", "y">>,
     ![clust2sect(4)].data[1] = "w",
     ![clust2sect(5)].data[1] = "z",
     ![clust2sect(6)] = [table |-> <<File("b", 4, 1)>>]]

MCCards == {EmptyCard, OneFile, FullCard}
=============================================================================
