----------------------------- MODULE FatVolume -----------------------------
(***************************************************************************)
(* The lower half of fat/ff.c: the sector window, the FAT, cluster chains  *)
(* and the directory table, as operators that take a volume and return it  *)
(* as the function of the same name leaves it, its result in res or val.   *)
(*                                                                         *)
(* A volume is FAT32 with clusters of one sector and the root directory    *)
(* alone, and a name takes one entry.  A sector of the FAT is a function   *)
(* on the entries it holds, a sector of data a tuple of pieces or a tuple  *)
(* of directory entries.  The second copy of the FAT is left out: it is    *)
(* never read, and whether it could be written is not looked at.           *)
(*                                                                         *)
(* One transfer of a call may fail: the one that finds left at 0.  When    *)
(* the card is gone, all after it fail too.                                *)
(***************************************************************************)
EXTENDS Integers, Sequences, FiniteSets

CONSTANTS
  LastCluster,    \* clusters are numbered from 2
  FatEntries,     \* FAT entries in a sector
  TableEntries,   \* directory entries in a sector
  SectorPieces    \* pieces of data in a sector

ASSUME VolumeAssumption ==
  /\ LastCluster \in Nat /\ LastCluster >= 3
  /\ {FatEntries, TableEntries, SectorPieces} \subseteq Nat \ {0}

n_fatent == LastCluster + 1
Clusters == 2..LastCluster
dirbase == 2
LastLink == n_fatent + 1     \* 0x0FFFFFFF
NoValue == n_fatent + 99     \* 0xFFFFFFFF, a disk error or a count not known

FatSector(c) == 1 + c \div FatEntries
InfoSector == FatSector(LastCluster) + 1
clust2sect(c) == IF c \in Clusters THEN InfoSector + c - 1 ELSE 0

(* A place in the table: a cluster of it and an entry.                     *)
DirTop == [clust |-> dirbase, at |-> 1]

Blank == [name |-> "blank", start |-> 0, size |-> 0]      \* first byte 0
Deleted == [name |-> "deleted", start |-> 0, size |-> 0]  \* first byte 0xE5
IsBlank(e) == e.name \in {"blank", "deleted"}
EmptyTable == [i \in 1..TableEntries |-> Blank]
Junk == [i \in 1..SectorPieces |-> "junk"]

EmptyCard ==
  [s \in 1..clust2sect(LastCluster) |->
     CASE s < InfoSector -> [c \in {d \in Clusters : FatSector(d) = s} |->
                               IF c = dirbase THEN LastLink ELSE 0]
       [] s = InfoSector -> [free |-> LastCluster - 2, last |-> dirbase]
       [] s = clust2sect(dirbase) -> [table |-> EmptyTable]
       [] OTHER -> [data |-> Junk]]

(* A volume that is not mounted: the card, its write protect switch, and   *)
(* nothing in RAM; dj is the directory object of the call, left to res     *)
(* what becomes of the call.                                               *)
Unmounted(card, protect) ==
  [card |-> card, protect |-> protect,
   mounted |-> FALSE, winsect |-> 0, win |-> [none |-> 0],
   wflag |-> FALSE, free_clust |-> NoValue, last_clust |-> 0, fsi_flag |-> FALSE,
   left |-> -1, gone |-> FALSE, hit |-> FALSE, stretched |-> FALSE, lost |-> FALSE,
   res |-> "OK", val |-> 0, dj |-> DirTop]

-----------------------------------------------------------------------------
(* diskio, as far as FatFs sees it: a transfer is made or it is not.  (A   *)
(* read that fails leaves the buffer alone, see disk_read.)                *)
Made(v) == [v EXCEPT !.left = @ - 1, !.res = "OK"]
Failed(v) ==
  [v EXCEPT !.left = IF v.gone THEN 0 ELSE -1, !.hit = TRUE, !.res = "DISK_ERR"]
disk_read(v) == IF v.left = 0 THEN Failed(v) ELSE Made(v)
disk_write(v, s, x) ==
  IF v.left = 0 THEN Failed(v) ELSE [Made(v) EXCEPT !.card[s] = x]

Ok(v) == [v EXCEPT !.res = "OK"]
Err(v, r) == [v EXCEPT !.res = r]
Val(v, x) == [v EXCEPT !.val = x]

(* Go on with F unless something failed.                                   *)
OnOk(v, F(_)) == IF v.res = "OK" THEN F(v) ELSE v

(* s steps until it says it is done, at most n times.                      *)
Repeat(Step(_), s, n) ==
  LET at[i \in 0..n] ==
        IF i = 0 THEN s
        ELSE LET p == at[i - 1] IN IF p.done THEN p ELSE Step(p)
  IN at[n]

Stop(p, v) == [p EXCEPT !.v = v, !.done = TRUE]

-----------------------------------------------------------------------------
(* Moving to sector 0 only writes the window back.                         *)
move_window(v, s) ==
  LET Flush == IF v.wflag
               THEN OnOk(disk_write(v, v.winsect, v.win), LAMBDA w : [w EXCEPT !.wflag = FALSE])
               ELSE Ok(v)
      Load(w) == OnOk(disk_read(w), LAMBDA r : [r EXCEPT !.winsect = s, !.win = r.card[s]])
  IN IF v.winsect = s THEN Ok(v)
     ELSE OnOk(Flush, LAMBDA w : IF s = 0 THEN w ELSE Load(w))

get_fat(v, c) ==
  LET Entry(m) == Val(m, IF m.res = "OK" THEN m.win[c] ELSE NoValue)
  IN IF c \in Clusters THEN Entry(move_window(v, FatSector(c))) ELSE Val(v, 1)

(* The window is marked dirty whether it could be moved or not.            *)
put_fat(v, c, x) ==
  LET Put(m) == [m EXCEPT !.win = IF m.res = "OK" THEN [@ EXCEPT ![c] = x] ELSE @,
                          !.wflag = TRUE]
  IN IF c \in Clusters THEN Put(move_window(v, FatSector(c))) ELSE Err(v, "INT_ERR")

\* Mutant of Count: a number that is not known is counted on from.
Count_FromUnknown(v, d) ==
  [v EXCEPT !.free_clust = IF @ + d < 0 THEN NoValue ELSE @ + d, !.fsi_flag = TRUE]

(* One more cluster is free, or one less, if the number is known; less     *)
(* than none is 0xFFFFFFFF.                                                *)
Count(v, d) ==
  IF v.free_clust = NoValue THEN v
  ELSE [v EXCEPT !.free_clust = IF @ + d < 0 THEN NoValue ELSE @ + d,
                 !.fsi_flag = TRUE]

(* The error behind a cluster number that is none.                         *)
ErrorOf(x) == IF x = NoValue THEN "DISK_ERR" ELSE "INT_ERR"

remove_chain(v, start) ==
  LET Freed(p, f, nxt) ==
        IF f.res # "OK" THEN Stop(p, f)
        ELSE [v |-> Count(f, 1), c |-> nxt, done |-> nxt >= n_fatent]
      Free(p, g) ==
        CASE g.val = 0 -> Stop(p, Ok(g))
          [] g.val \in {1, NoValue} -> Stop(p, Err(g, ErrorOf(g.val)))
          [] OTHER -> Freed(p, put_fat(g, p.c, 0), g.val)
      Step(p) == Free(p, get_fat(p.v, p.c))
  IN IF start \notin Clusters THEN Err(v, "INT_ERR")
     ELSE Repeat(Step, [v |-> v, c |-> start, done |-> FALSE], LastCluster).v

(* The card as it would be with the window written back, and its FAT.      *)
Flushed(v) == IF v.wflag THEN [v.card EXCEPT ![v.winsect] = v.win] ELSE v.card
FatOf(card) == [c \in Clusters |-> card[FatSector(c)][c]]

(* The first free cluster after scl, 0 if there is none.                   *)
FindFree(v, scl) ==
  LET Wrapped(p) == p.c + 1 >= n_fatent
      Look(g, ncl) ==
        CASE g.val = 0 -> [v |-> Val(g, ncl), c |-> ncl, done |-> TRUE]
          [] g.val \in {1, NoValue} -> [v |-> g, c |-> ncl, done |-> TRUE]
          [] OTHER -> [v |-> Val(g, 0), c |-> ncl, done |-> ncl = scl]
      At(p, ncl) == Look(get_fat(p.v, ncl), ncl)
      Step(p) == IF Wrapped(p) /\ 2 > scl THEN Stop(p, Val(p.v, 0))
                 ELSE At(p, IF Wrapped(p) THEN 2 ELSE p.c + 1)
  IN Repeat(Step, [v |-> v, c |-> scl, done |-> FALSE], LastCluster).v

(* A disk error while it looks for the end of the chain passes for the     *)
(* end, as in the code; lost says that a link was given up so.             *)
create_chain(v, clst) ==
  LET Taken(l, ncl) ==
        IF l.res = "OK" THEN Val(Count([l EXCEPT !.last_clust = ncl], -1), ncl)
        ELSE Val(l, IF l.res = "DISK_ERR" THEN NoValue ELSE 1)
      Link(m, ncl) == IF clst = 0 THEN m ELSE put_fat(m, clst, ncl)
      Take(f) ==
        IF f.val \notin Clusters THEN f
        ELSE Taken(OnOk(put_fat(f, f.val, LastLink), LAMBDA m : Link(m, f.val)), f.val)
      PassedOver(g) == [g EXCEPT !.lost = @ \/ FatOf(Flushed(g))[clst] \in Clusters]
      Follow(g) ==
        CASE g.val < 2 -> Val(g, 1)
          [] g.val \in Clusters -> g
          [] OTHER -> Take(FindFree(PassedOver(g), clst))
      hint == IF v.last_clust \in 1..(n_fatent - 1) THEN v.last_clust ELSE 1
  IN IF clst = 0 THEN Take(FindFree(v, hint)) ELSE Follow(get_fat(v, clst))

-----------------------------------------------------------------------------
(* The entry dj stands at, in the window.                                  *)
EntryAt(v, dj) == v.win.table[dj.at]

\* Mutant of Store: the window is not marked dirty.
Store_Clean(v, dj, e) == [v EXCEPT !.win.table[dj.at] = e]

Store(v, dj, e) == [v EXCEPT !.win.table[dj.at] = e, !.wflag = TRUE]

TopOf(v, clust) == [Ok(v) EXCEPT !.dj = [clust |-> clust, at |-> 1]]

(* dir_next without stretching the table: at its end there is no entry.    *)
dir_next(v) ==
  LET Follow(g) ==
        CASE g.val <= 1 \/ g.val = NoValue -> Err(g, ErrorOf(g.val))
          [] g.val \in Clusters -> TopOf(g, g.val)
          [] OTHER -> Err(g, "NO_FILE")
  IN IF v.dj.at < TableEntries THEN [Ok(v) EXCEPT !.dj.at = @ + 1]
     ELSE Follow(get_fat(v, v.dj.clust))

(* dir_next where it stretches the table: the new cluster is linked first  *)
(* and cleared after.                                                      *)
StretchTable(v) ==
  LET Clear(m, clust) ==
        move_window([m EXCEPT !.winsect = clust2sect(clust), !.wflag = TRUE,
                              !.win = [table |-> EmptyTable]], 0)
      Stretched(n) ==
        CASE n.val = 0 -> Err(n, "DENIED")
          [] n.val \in {1, NoValue} -> Err(n, ErrorOf(n.val))
          [] OTHER -> OnOk(OnOk(move_window(n, 0), LAMBDA m : Clear(m, n.val)),
                           LAMBDA z : TopOf(z, n.val))
  IN Stretched(create_chain([v EXCEPT !.stretched = TRUE], v.dj.clust))

(* The next entry that is wanted: one with a certain name, a blank one or  *)
(* any that is not.  A look for a blank entry goes on after the last entry. *)
Wanted(e, want) ==
  CASE want = "blank" -> IsBlank(e)
    [] want = "any"   -> ~IsBlank(e)
    [] OTHER          -> e.name = want
IsEnd(e, want) == e = Blank /\ want # "blank"

Scan(v, want) ==
  LET Moved(p, n) == [p EXCEPT !.v = n, !.done = n.res # "OK"]
      Look(p, m) ==
        CASE m.res # "OK" \/ Wanted(EntryAt(m, m.dj), want) -> Stop(p, m)
          [] m.res = "OK" /\ IsEnd(EntryAt(m, m.dj), want) -> Stop(p, Err(m, "NO_FILE"))
          [] OTHER -> Moved(p, dir_next(m))
      Step(p) == Look(p, move_window(p.v, clust2sect(p.v.dj.clust)))
  IN Repeat(Step, [v |-> v, done |-> FALSE], LastCluster * TableEntries).v

Rewound(v) == [v EXCEPT !.dj = DirTop]

dir_find(v, name) == Scan(Rewound(v), name)

dir_read(v) == Scan(v, "any")

(* The first blank entry, in a new cluster if there is none.  It has a     *)
(* name and nothing else yet.                                              *)
dir_register(v, name) ==
  LET Place(p) == IF p.res = "NO_FILE" THEN StretchTable(p) ELSE p
  IN OnOk(OnOk(Place(Scan(Rewound(v), "blank")),
               LAMBDA p : move_window(p, clust2sect(p.dj.clust))),
          LAMBDA m : Store(m, m.dj, [Blank EXCEPT !.name = name]))

(* The table is followed from its top to the cluster of dj: as many links  *)
(* as lead from there to dj's index.                                       *)
dir_sdi(v, dj) ==
  LET Follow(p, g) ==
        IF g.val \in Clusters THEN [v |-> Ok(g), c |-> g.val, done |-> g.val = dj.clust]
        ELSE Stop(p, Err(g, ErrorOf(g.val)))
      Step(p) == Follow(p, get_fat(p.v, p.c))
  IN Repeat(Step, [v |-> Ok(v), c |-> dirbase, done |-> dj.clust = dirbase], LastCluster).v

dir_remove(v, dj) ==
  OnOk(OnOk(dir_sdi(v, dj), LAMBDA s : move_window(s, clust2sect(dj.clust))),
       LAMBDA m : Store(m, dj, Deleted))

-----------------------------------------------------------------------------
\* Mutant of sync: FSInfo is not written.
sync_NoInfo(v) == OnOk(move_window(v, 0), disk_read)

(* The FSInfo sector is written without a look at the result.              *)
sync(v) ==
  LET Write(m, info) ==
        [disk_write([m EXCEPT !.winsect = 0, !.win = info], InfoSector, info)
          EXCEPT !.fsi_flag = FALSE]
      Info(m) == IF m.fsi_flag
                 THEN Write(m, [free |-> m.free_clust, last |-> m.last_clust]) ELSE m
  IN OnOk(move_window(v, 0),
          LAMBDA m : disk_read(Info(m)))  \* disk_ioctl(CTRL_SYNC) can fail as well

(* A volume that is not mounted is mounted: its boot record is read, then  *)
(* FSInfo, without which the number of free clusters is not known.  A call *)
(* that is to write (chk_wp) finds out first if it may.                    *)
chk_mounted(v, chk_wp) ==
  LET Mounted(i) ==
        [Ok(i) EXCEPT
           !.mounted = TRUE, !.winsect = 0, !.wflag = FALSE, !.fsi_flag = FALSE,
           !.free_clust = IF i.res = "OK" THEN v.card[InfoSector].free ELSE NoValue,
           !.last_clust = IF i.res = "OK" THEN v.card[InfoSector].last ELSE 0]
  IN CASE chk_wp /\ v.protect -> Err(v, "WRITE_PROTECTED")
       [] ~(chk_wp /\ v.protect) /\ v.mounted -> Ok(v)
       [] OTHER -> OnOk(disk_read(v), LAMBDA b : Mounted(disk_read(b)))
=============================================================================
