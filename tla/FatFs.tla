------------------------------- MODULE FatFs -------------------------------
(***************************************************************************)
(* fat/ff.c: files on a FAT volume, one open at a time, as the commands of *)
(* General/userInterface.c use them.  An action is a whole call: the mutex *)
(* of the volume (ENTER_FF, LEAVE_FF) keeps calls apart.  In any call any  *)
(* one transfer may be refused, or the card may be cut off at it (the      *)
(* power fails or the card is pulled), with what was written before on the *)
(* card.                                                                   *)
(***************************************************************************)
EXTENDS FatVolume

CONSTANTS
  Names,        \* of files
  Pieces,       \* what a file is made of
  MaxSize,      \* pieces in a file
  Sizes,        \* of what is read or written at a time
  Places,       \* to which f_lseek goes
  Modes,        \* in which files are opened
  MaxFaults,    \* faults in a behaviour
  MaxCalls,     \* in a behaviour
  Cards         \* formatted, with files on them or without

ASSUME BoundsAssumption == Sizes \subseteq Nat /\ Places \subseteq Nat
ASSUME NamesAssumption == Names \cap {"blank", "deleted", "any", "none"} = {}

VARIABLES
  vol,      \* the card and the FATFS object, see Unmounted
  fp,       \* the FIL object, see Closed
  got,      \* what the last call read
  found,    \* the names the last call asked for, the entries it found for them
  last,     \* its result, and if it failed the files it named
  doubt,    \* history: files that failed calls may still bring about a change of
  told,     \* history: the content the program expects of the open file
  exposed,  \* history: what may have torn the volume, or may from now on, see Finish
  disk,     \* history: the content of every file on the card
  faults,   \* history: how many there were
  calls     \* history: how many were made

vars == <<vol, fp, got, found, last, doubt, told, exposed, disk, faults, calls>>

-----------------------------------------------------------------------------
(* open is fs # 0; write, written, dirty and error are the bits of flag.   *)
Closed == [open |-> FALSE, name |-> "none", write |-> FALSE, written |-> FALSE,
           dirty |-> FALSE, error |-> FALSE, fptr |-> 0, fsize |-> 0,
           org_clust |-> 0, curr_clust |-> 0, dsect |-> 0, buf |-> Junk,
           dir |-> DirTop]

NothingAsked == [asked |-> {}, files |-> <<>>]

(* What the card holds, read as another computer would.                    *)
Chain(fat, start) ==
  LET Step(p) == [c |-> fat[p.c], seq |-> Append(p.seq, p.c), done |-> fat[p.c] \notin Clusters]
  IN Repeat(Step, [c |-> start, seq |-> <<>>, done |-> start \notin Clusters], LastCluster).seq

EntriesOf(card) ==
  LET chain == Chain(FatOf(card), dirbase)
      clear == {i \in DOMAIN chain : "table" \in DOMAIN card[clust2sect(chain[i])]}
  IN {e \in {card[clust2sect(chain[i])].table[j] : i \in clear, j \in 1..TableEntries} :
        ~IsBlank(e)}

(* The content of every file as in FileStore; "lost" stands for pieces     *)
(* that are in no cluster.                                                 *)
Contents(card) ==
  LET fat == FatOf(card)
      entries == EntriesOf(card)
      Pieced(e) ==
        LET chain == Chain(fat, e.start)
            Piece(i) ==
              LET k == (i - 1) \div SectorPieces + 1
                  s == card[clust2sect(chain[k])]
              IN IF k <= Len(chain) /\ "data" \in DOMAIN s
                 THEN s.data[((i - 1) % SectorPieces) + 1] ELSE "lost"
        IN <<"file">> \o [i \in 1..e.size |-> Piece(i)]
  IN [n \in Names |-> IF \A e \in entries : e.name # n THEN <<>>
                      ELSE Pieced(CHOOSE e \in entries : e.name = n)]

(* Chains end, hold what the entries say, and share no cluster; the        *)
(* directory's clusters hold entries.                                      *)
SoundChain(fat, start, kind, card) ==
  LET chain == Chain(fat, start)
  IN /\ chain # <<>> /\ fat[chain[Len(chain)]] >= n_fatent
     /\ \A i \in DOMAIN chain : kind \in DOMAIN card[clust2sect(chain[i])]
Sound(card) ==
  LET fat == FatOf(card)
      entries == EntriesOf(card)
      Owned(start) == {Chain(fat, start)[i] : i \in DOMAIN Chain(fat, start)}
  IN /\ SoundChain(fat, dirbase, "table", card)
     /\ \A e \in entries :
          /\ e.start # 0 => SoundChain(fat, e.start, "data", card)
          /\ Len(Chain(fat, e.start)) * SectorPieces >= e.size
          /\ Owned(e.start) \cap Owned(dirbase) = {}
          /\ \A x \in entries \ {e} : Owned(e.start) \cap Owned(x.start) = {}

(* The sectors of a card hold what belongs there: links, entries, data.    *)
Links == {0, LastLink} \cup Clusters
Entries == {Blank, Deleted} \cup [name : Names, start : {0} \cup Clusters, size : Nat]
IsTable(card, c) == "table" \in DOMAIN card[clust2sect(c)]
WellTyped(card) ==
  /\ card = [s \in 1..clust2sect(LastCluster) |-> card[s]]
  /\ \A c \in Clusters :
       /\ card[FatSector(c)] \in [{d \in Clusters : FatSector(d) = FatSector(c)} -> Links]
       /\ IF IsTable(card, c) THEN card[clust2sect(c)].table \in [1..TableEntries -> Entries]
          ELSE "data" \in DOMAIN card[clust2sect(c)]

(* The clusters of the directory, and they alone, hold tables; no name is  *)
(* in them twice, and none after the first entry never used.               *)
Orderly(card, dir) ==
  LET entry(k, i) == card[clust2sect(dir[k])].table[i]
  IN /\ \A c \in Clusters : IsTable(card, c) <=> \E k \in DOMAIN dir : dir[k] = c
     /\ \A k, l \in DOMAIN dir : \A i, j \in 1..TableEntries :
          /\ entry(k, i).name = entry(l, j).name /\ ~IsBlank(entry(k, i)) => k = l /\ i = j
          /\ entry(k, i) = Blank /\ (k < l \/ (k = l /\ i < j)) => entry(l, j) = Blank

(* A card that a computer has put in order.                                *)
Formatted(card) == WellTyped(card) /\ Sound(card) /\ Orderly(card, Chain(FatOf(card), dirbase))

ASSUME CardsAssumption == \A card \in Cards : Formatted(card)

-----------------------------------------------------------------------------
(* A fault is tried at each transfer that the call makes without one; v is *)
(* where it ends then.                                                     *)
NoFault == [left |-> -1, gone |-> FALSE]
Faults(v) ==
  {NoFault} \cup
    (IF faults >= MaxFaults THEN {} ELSE [left : 0..(vol.left - v.left - 1), gone : BOOLEAN])

Start(f) == [vol EXCEPT !.left = f.left, !.gone = f.gone]

Cutoff(v) == v.hit /\ v.gone

View == Flushed(vol)

(* The dirty buffer of p belongs to a cluster the file has no more, and    *)
(* the directory has taken.                                                *)
OverTable(p, card) ==
  p.dirty /\ \E c \in Clusters : p.dsect = clust2sect(c) /\ IsTable(card, c)

(* The end of a call that leaves v and p: a cut clears RAM.  risk is       *)
(* "file" if the file was cut short, "call" if a failure can tear.         *)
(*                                                                         *)
(* exposed is "file" until a file that was cut short is saved: its entry   *)
(* says too much; "call" once a failure struck where the code leaves it    *)
(* open what becomes of the volume; "lost" once an error was passed over   *)
(* and a link went with it, or became the start of the file; "buffer" once *)
(* the file's buffer is to be written over a part of the directory.        *)
Finish(v, p, names, content, risk) ==
  LET unsynced == risk = "file" \/ "file" \in exposed
      unsaved == unsynced /\ fp'.open /\ fp'.written
      torn == \/ v.hit /\ (risk = "call" \/ v.stretched)
              \/ v.hit /\ unsynced /\ ~unsaved
              \/ (v.hit \/ v.wflag) /\ "call" \in exposed
      after == IF Cutoff(v) THEN Unmounted(v.card, v.protect)
               ELSE [v EXCEPT !.left = -1, !.gone = FALSE, !.hit = FALSE,
                              !.stretched = FALSE, !.lost = FALSE, !.res = "OK",
                              !.val = 0, !.dj = DirTop]
      lost == (v.lost /\ ~Cutoff(v)) \/ fp'.org_clust \notin {0} \cup Clusters
  IN /\ vol' = after
     /\ disk' = Contents(after.card)
     /\ fp' = IF Cutoff(v) THEN Closed ELSE p
     /\ told' = IF fp'.open THEN content ELSE <<>>
     /\ last' = IF v.res = "OK" THEN [res |-> "OK", names |-> {}]
                ELSE [res |-> v.res, names |-> names]
     /\ doubt' = IF after.wflag THEN doubt \cup last'.names ELSE {}
     /\ exposed' = (exposed \cap {"lost", "buffer"})
                     \cup {k \in {"file"} : unsaved} \cup {k \in {"call"} : torn}
                     \cup {k \in {"lost"} : lost} \cup {k \in {"buffer"} : OverTable(fp', View')}
     /\ faults' = IF v.hit THEN faults + 1 ELSE faults
     /\ calls' = calls + 1

(* The call hands nothing back but its result.                             *)
Silent == got' = <<>> /\ found' = NothingAsked

-----------------------------------------------------------------------------
Lesser(i, j) == IF i < j THEN i ELSE j

(* The loops step on [v |-> the volume, fp |-> the file, ...]; an error in  *)
(* one makes the file unusable.                                            *)
Abort(p, r) == [p EXCEPT !.v = Err(p.v, r), !.fp.error = TRUE, !.done = TRUE]
OnTransfer(p, w, F(_)) ==
  IF w.res = "OK" THEN F([p EXCEPT !.v = w]) ELSE Abort([p EXCEPT !.v = w], "DISK_ERR")
Cleaned(p) == [p EXCEPT !.fp.dirty = FALSE]

\* Mutant of FlushBuf: the buffer is dropped.
FlushBuf_Drops(v, p) == Ok(v)

(* Write the file's buffer back if it is dirty.                            *)
FlushBuf(v, p) == IF p.dirty THEN disk_write(v, p.dsect, [data |-> p.buf]) ELSE Ok(v)

(* Have sector sect in the buffer, reading it only if need be.             *)
Fill(p, sect, need) ==
  IF p.fp.dsect = sect \/ ~need THEN [p EXCEPT !.fp.dsect = sect]
  ELSE OnTransfer(p, disk_read(p.v),
                  LAMBDA r : [r EXCEPT !.fp.dsect = sect, !.fp.buf = r.v.card[sect].data])
Unless(p, F(_)) == IF p.fp.error THEN p ELSE F(p)

(* Write n pieces d.                                                       *)
WriteLoop(v0, p0, n, d) ==
  LET Cluster(p) ==
        CASE p.fp.fptr > 0 -> create_chain(p.v, p.fp.curr_clust)
          [] p.fp.fptr = 0 /\ p.fp.org_clust = 0 -> create_chain(p.v, 0)
          [] OTHER -> Val(p.v, p.fp.org_clust)
      Put(p, at, cnt) ==
        [p EXCEPT !.fp.buf = [i \in 1..SectorPieces |->
                                IF i > at /\ i <= at + cnt THEN d ELSE @[i]],
                  !.fp.dirty = TRUE, !.fp.fptr = @ + cnt,
                  !.n = @ - cnt, !.done = p.n = cnt]
      Part(p) ==
        LET at == p.fp.fptr % SectorPieces IN Put(p, at, Lesser(SectorPieces - at, p.n))
      whole == [i \in 1..SectorPieces |-> d]
      Direct(p, sect) ==
        [p EXCEPT !.fp.fptr = @ + SectorPieces,
                  !.fp.buf = IF p.fp.dsect = sect THEN whole ELSE @,
                  !.n = @ - SectorPieces, !.done = p.n = SectorPieces]
      InSector(p, sect) ==
        CASE sect = 0 -> Abort(p, "INT_ERR")
          [] sect # 0 /\ p.n >= SectorPieces ->
               OnTransfer(p, disk_write(p.v, sect, [data |-> whole]), LAMBDA r : Direct(r, sect))
          [] OTHER -> Unless(Fill(p, sect, p.fp.fptr < p.fp.fsize), Part)
      At(p, clst) ==
        CASE clst = 0 -> [p EXCEPT !.done = TRUE]
          [] clst \in {1, NoValue} -> Abort(p, ErrorOf(clst))
          [] OTHER -> OnTransfer([p EXCEPT !.fp.curr_clust = clst], FlushBuf(p.v, p.fp),
                                 LAMBDA q : InSector(Cleaned(q), clust2sect(clst)))
      Follow(p, c) == At([p EXCEPT !.v = Ok(c),
                                   !.fp.org_clust = IF p.fp.fptr = 0 THEN c.val ELSE @], c.val)
      Step(p) == IF p.fp.fptr % SectorPieces # 0 THEN Part(p) ELSE Follow(p, Cluster(p))
  IN Repeat(Step, [v |-> v0, fp |-> p0, n |-> n, done |-> n = 0], n)

(* Read at most n pieces.                                                  *)
ReadLoop(v0, p0, n) ==
  LET Cluster(p) == IF p.fp.fptr = 0 THEN Val(p.v, p.fp.org_clust)
                    ELSE get_fat(p.v, p.fp.curr_clust)
      Take(p, at, cnt, from) ==
        [p EXCEPT !.got = @ \o SubSeq(from, at + 1, at + cnt), !.fp.fptr = @ + cnt,
                  !.n = @ - cnt, !.done = p.n = cnt]
      Part(p) ==
        LET at == p.fp.fptr % SectorPieces
        IN Take(p, at, Lesser(SectorPieces - at, p.n), p.fp.buf)
      Direct(p, sect) == Take(p, 0, SectorPieces,
                              IF p.fp.dirty /\ p.fp.dsect = sect THEN p.fp.buf
                              ELSE p.v.card[sect].data)
      InSector(p, sect) ==
        IF p.n >= SectorPieces THEN OnTransfer(p, disk_read(p.v), LAMBDA r : Direct(r, sect))
        ELSE OnTransfer(p, FlushBuf(p.v, p.fp),
                        LAMBDA w : Unless(Fill(Cleaned(w), sect, TRUE), Part))
      Follow(p, c) ==
        IF clust2sect(c.val) = 0 THEN Abort([p EXCEPT !.v = c], ErrorOf(c.val))
        ELSE InSector([p EXCEPT !.v = Ok(c), !.fp.curr_clust = c.val], clust2sect(c.val))
      Step(p) == IF p.fp.fptr % SectorPieces # 0 THEN Part(p) ELSE Follow(p, Cluster(p))
  IN Repeat(Step, [v |-> v0, fp |-> p0, n |-> n, got |-> <<>>, done |-> n = 0], n)

(* Where a seek starts from: the cluster fptr is in if ofs is not before   *)
(* it, or the top, ofs being counted from there.                           *)
SeekFrom(v, p, ofs) ==
  LET near == p.fptr > 0 /\ (ofs - 1) \div SectorPieces >= (p.fptr - 1) \div SectorPieces
      base == ((p.fptr - 1) \div SectorPieces) * SectorPieces
      At(w, q, o, done) == [v |-> Ok(w), fp |-> q, ofs |-> o, done |-> done]
      top == [p EXCEPT !.fptr = 0]
      Top(c) ==
        IF p.org_clust = 0 /\ c.val \in {1, NoValue} THEN Abort(At(c, top, 0, TRUE), ErrorOf(c.val))
        ELSE At(c, [top EXCEPT !.org_clust = c.val, !.curr_clust = c.val], ofs, c.val = 0)
  IN CASE ofs = 0 -> At(v, top, 0, TRUE)
       [] ofs > 0 /\ near -> At(v, [p EXCEPT !.fptr = base], ofs - base, FALSE)
       [] OTHER -> Top(IF p.org_clust = 0 THEN create_chain(v, 0) ELSE Val(v, p.org_clust))

(* Follow the chain, or stretch it, for p.ofs pieces from the start of     *)
(* curr_clust; a full disk clips them.                                     *)
SeekLoop(start, ofs) ==
  LET Follow(p, c) ==
        CASE c.val \in Clusters ->
               [p EXCEPT !.v = Ok(c), !.fp.curr_clust = c.val,
                         !.fp.fptr = @ + SectorPieces, !.ofs = @ - SectorPieces]
          [] c.val = 0 /\ p.fp.write -> [p EXCEPT !.v = Ok(c), !.ofs = SectorPieces]
          [] OTHER -> Abort([p EXCEPT !.v = c], ErrorOf(c.val))
      Step(p) ==
        IF p.ofs <= SectorPieces THEN [p EXCEPT !.fp.fptr = @ + p.ofs, !.done = TRUE]
        ELSE Follow(p, IF p.fp.write THEN create_chain(p.v, p.fp.curr_clust)
                       ELSE get_fat(p.v, p.fp.curr_clust))
  IN Repeat(Step, start, ofs + 1)

(* After the seek, the sector that fptr is in the middle of is in buf.     *)
SeekFill(p) ==
  LET sect == clust2sect(p.fp.curr_clust)
  IN CASE p.fp.fptr % SectorPieces = 0 \/ (sect = p.fp.dsect /\ sect # 0) -> p
       [] p.fp.fptr % SectorPieces # 0 /\ sect = 0 -> Abort(p, "INT_ERR")
       [] OTHER -> OnTransfer(p, FlushBuf(p.v, p.fp), LAMBDA w : Fill(Cleaned(w), sect, TRUE))

(* An aborted seek leaves the size alone.                                  *)
SeekTo(v, p, ofs) ==
  LET Grow(q) == IF q.fp.fptr <= q.fp.fsize THEN q
                 ELSE [q EXCEPT !.fp.fsize = q.fp.fptr, !.fp.written = TRUE]
  IN Unless(Unless(SeekLoop(SeekFrom(v, p, ofs), ofs), SeekFill), Grow)

Synced(v, p) ==
  LET e == [name |-> p.name, start |-> p.org_clust, size |-> p.fsize]
      clean == [p EXCEPT !.dirty = FALSE]
      Save(m) == IF m.res # "OK" THEN [v |-> m, fp |-> clean]
                 ELSE [v |-> sync(Store(m, p.dir, e)), fp |-> [clean EXCEPT !.written = FALSE]]
      Find(w) == IF w.res # "OK" THEN [v |-> w, fp |-> p]
                 ELSE Save(move_window(w, clust2sect(p.dir.clust)))
  IN IF p.written THEN Find(FlushBuf(v, p)) ELSE [v |-> Ok(v), fp |-> p]

Truncated(v, p) ==
  LET Cut(g) ==
        CASE g.val \in {1, NoValue} -> Err(g, ErrorOf(g.val))
          [] g.val >= n_fatent /\ g.val # NoValue -> Ok(g)
          [] OTHER -> OnOk(put_fat(g, p.curr_clust, LastLink),
                           LAMBDA l : remove_chain(l, g.val))
      Ended(r) == [v |-> r,
                   fp |-> [p EXCEPT !.fsize = p.fptr, !.written = TRUE,
                                    !.org_clust = IF p.fptr = 0 THEN 0 ELSE @,
                                    !.error = r.res # "OK"]]
  IN CASE p.fsize <= p.fptr -> [v |-> Ok(v), fp |-> p]
       [] p.fsize > p.fptr /\ p.fptr = 0 -> Ended(remove_chain(v, p.org_clust))
       [] OTHER -> Ended(Cut(get_fat(v, p.curr_clust)))

(* The entry of a new file, or of one to be replaced, is emptied.          *)
Opened(v, n, m) ==
  LET Freed(z, start) ==
        IF start = 0 THEN z
        ELSE OnOk(remove_chain(z, start),
                  LAMBDA r : move_window([r EXCEPT !.last_clust = start - 1], z.winsect))
      Emptied(e) == Freed(Store(e, e.dj, [Blank EXCEPT !.name = n]), EntryAt(e, e.dj).start)
      Handle(o, fresh) ==
        [v |-> o,
         fp |-> IF o.res # "OK" THEN Closed
                ELSE [Closed EXCEPT !.open = TRUE, !.name = n, !.write = m.write,
                                    !.written = fresh, !.org_clust = EntryAt(o, o.dj).start,
                                    !.fsize = EntryAt(o, o.dj).size, !.dir = o.dj]]
      Found(d) ==
        CASE d.res = "NO_FILE" /\ m.create # "no" -> Handle(OnOk(dir_register(d, n), Emptied), TRUE)
          [] d.res = "OK" /\ m.create = "always" -> Handle(Emptied(d), TRUE)
          [] d.res = "OK" /\ m.create = "new" -> Handle(Err(d, "EXIST"), FALSE)
          [] OTHER -> Handle(d, FALSE)
  IN Found(OnOk(chk_mounted(v, m.write \/ m.create # "no"), LAMBDA c : dir_find(c, n)))

\* Mutant of Unlinked: the clusters are freed before the entry is removed.
Unlinked_FreesFirst(v, n) ==
  LET Remove(d, start) ==
        OnOk(IF start = 0 THEN d ELSE remove_chain(d, start), LAMBDA g : dir_remove(g, d.dj))
  IN OnOk(OnOk(OnOk(chk_mounted(v, TRUE), LAMBDA c : dir_find(c, n)),
               LAMBDA d : Remove(d, EntryAt(d, d.dj).start)), sync)

Unlinked(v, n) ==
  LET Remove(d, start) ==
        OnOk(dir_remove(d, d.dj), LAMBDA g : IF start = 0 THEN g ELSE remove_chain(g, start))
  IN OnOk(OnOk(OnOk(chk_mounted(v, TRUE), LAMBDA c : dir_find(c, n)),
               LAMBDA d : Remove(d, EntryAt(d, d.dj).start)), sync)

(* The new entry gets the start and the size of the old one.               *)
Renamed(v, n, m) ==
  LET Move(e, o) ==
        dir_remove(Store(e, e.dj, [EntryAt(o, o.dj) EXCEPT !.name = m]), o.dj)
      Replace(x, o) ==
        CASE x.res = "OK" -> Err(x, "EXIST")
          [] x.res = "NO_FILE" -> OnOk(OnOk(dir_register(x, m), LAMBDA e : Move(e, o)), sync)
          [] OTHER -> x
  IN OnOk(OnOk(chk_mounted(v, TRUE), LAMBDA c : dir_find(c, n)),
          LAMBDA o : Replace(dir_find(o, m), o))

(* A scan that breaks off leaves what it has counted as the number.        *)
FreeCounted(v) ==
  LET Counted(p, m) ==
        IF m.res # "OK" THEN Stop(p, m)
        ELSE [v |-> m, s |-> p.s + 1, n |-> p.n + Cardinality({d \in DOMAIN m.win : m.win[d] = 0}),
              done |-> p.s = FatSector(LastCluster)]
      Step(p) == Counted(p, move_window(p.v, p.s))
      Keep(q) == [q.v EXCEPT !.free_clust = q.n, !.fsi_flag = TRUE]
  IN OnOk(chk_mounted(v, FALSE),
          LAMBDA c : IF c.free_clust <= n_fatent - 2 THEN c
                     ELSE Keep(Repeat(Step, [v |-> c, s |-> 1, n |-> 0, done |-> FALSE], InfoSector)))

(* What f_readdir says of the entry dj stands at.                          *)
get_fileinfo(v) == [name |-> EntryAt(v, v.dj).name, size |-> EntryAt(v, v.dj).size]

(* f_opendir, then f_readdir until there are no more, as the command ls    *)
(* does.                                                                   *)
Listed(v) ==
  LET Advance(p, x, fno) ==
        CASE x.res = "OK" -> [v |-> x, list |-> Append(p.list, fno), done |-> FALSE]
          [] x.res = "NO_FILE" -> [v |-> Ok(x), list |-> Append(p.list, fno), done |-> TRUE]
          [] OTHER -> Stop(p, x)
      Item(p, r) ==
        CASE r.res = "OK" -> Advance(p, dir_next(r), get_fileinfo(r))
          [] r.res = "NO_FILE" -> Stop(p, Ok(r))
          [] OTHER -> Stop(p, r)
      Step(p) == Item(p, dir_read(p.v))
      All(c) == Repeat(Step, [v |-> c, list |-> <<>>, done |-> c.res # "OK"],
                       LastCluster * TableEntries)
  IN All(Rewound(chk_mounted(v, FALSE)))

-----------------------------------------------------------------------------
f_open(n, m) ==
  LET Ended(r) ==
        Finish(r.v, r.fp, {n},
               IF r.fp.written THEN <<"file">> ELSE Contents(Flushed(r.v))[n], "no")
  IN /\ \E f \in Faults(Opened(vol, n, m).v) : Ended(Opened(Start(f), n, m))
     /\ Silent

(* Pieces d after those before pos, as far as the write came.              *)
Overwritten(pos, end, d) ==
  IF told = <<"unknown">> \/ pos = end THEN told
  ELSE [i \in 1..Len(told) \cup 1..(end + 1) |-> IF i - 1 \in (pos + 1)..end THEN d ELSE told[i]]

f_write(n, d) ==
  LET Grown(p) == [p EXCEPT !.written = TRUE, !.fsize = IF p.fptr > @ THEN p.fptr ELSE @]
      Ended(r) ==
        IF r.fp.error THEN Finish(r.v, r.fp, {fp.name}, <<"unknown">>, "no")
        ELSE Finish(Ok(r.v), Grown(r.fp), {}, Overwritten(fp.fptr, r.fp.fptr, d), "no")
  IN /\ fp.open /\ fp.write /\ ~fp.error
     /\ fp.fptr + n <= MaxSize
     /\ \E f \in Faults(WriteLoop(vol, fp, n, d).v) :
          Ended(WriteLoop(Start(f), fp, n, d))
     /\ Silent

f_read(n) ==
  LET Run(v) == ReadLoop(v, fp, Lesser(n, fp.fsize - fp.fptr))
      Ended(r) ==
        /\ Finish(IF r.fp.error THEN r.v ELSE Ok(r.v), r.fp, {}, told, "no")
        /\ got' = IF Cutoff(r.v) THEN <<>> ELSE r.got
  IN /\ fp.open /\ ~fp.error
     /\ \E f \in Faults(Run(vol).v) : Ended(Run(Start(f)))
     /\ found' = NothingAsked

(* What a seek adds to the file is not known.                              *)
f_lseek(ofs) ==
  LET Run(v) == SeekTo(v, fp, IF fp.write THEN ofs ELSE Lesser(ofs, fp.fsize))
      Grown(size) == [i \in 1..(1 + size) |-> IF i <= Len(told) THEN told[i] ELSE "any"]
      Ended(r) ==
        Finish(IF r.fp.error THEN r.v ELSE Ok(r.v), r.fp, {},
               IF told = <<"unknown">> THEN told ELSE Grown(r.fp.fsize), "no")
  IN /\ fp.open /\ ~fp.error
     /\ \E f \in Faults(Run(vol).v) : Ended(Run(Start(f)))
     /\ Silent

f_truncate ==
  LET Ended(r) ==
        Finish(r.v, r.fp, {fp.name},
               IF r.fp.error \/ told = <<"unknown">> THEN <<"unknown">>
               ELSE SubSeq(told, 1, 1 + r.fp.fsize),
               IF fp.fsize > fp.fptr THEN "file" ELSE "no")
  IN /\ fp.open /\ fp.write /\ ~fp.error
     /\ \E f \in Faults(Truncated(vol, fp).v) : Ended(Truncated(Start(f), fp))
     /\ Silent

f_sync ==
  LET Ended(r) == Finish(r.v, r.fp, {fp.name}, told, "no")
  IN /\ fp.open
     /\ \E f \in Faults(Synced(vol, fp).v) : Ended(Synced(Start(f), fp))
     /\ Silent

f_close ==
  LET Ended(r) == Finish(r.v, IF r.v.res = "OK" THEN Closed ELSE r.fp, {fp.name}, told, "no")
  IN /\ fp.open
     /\ \E f \in Faults(Synced(vol, fp).v) : Ended(Synced(Start(f), fp))
     /\ Silent

f_unlink(n) ==
  /\ \E f \in Faults(Unlinked(vol, n)) :
       Finish(Unlinked(Start(f), n), fp, {n}, told, "no")
  /\ Silent

f_rename(n, m) ==
  /\ \E f \in Faults(Renamed(vol, n, m)) :
       Finish(Renamed(Start(f), n, m), fp, {n, m}, told, "call")
  /\ Silent

f_getfree ==
  /\ \E f \in Faults(FreeCounted(vol)) :
       Finish(FreeCounted(Start(f)), fp, {}, told, "no")
  /\ Silent

f_readdir ==
  LET Ended(r) == /\ Finish(r.v, fp, {}, told, "no")
                  /\ found' = IF Cutoff(r.v) THEN NothingAsked
                               ELSE [asked |-> Names, files |-> r.list]
  IN /\ \E f \in Faults(Listed(vol).v) : Ended(Listed(Start(f)))
     /\ got' = <<>>

f_stat(n) ==
  LET Run(v) == OnOk(chk_mounted(v, FALSE), LAMBDA c : dir_find(c, n))
      Ended(r) == /\ Finish(r, fp, {}, told, "no")
                  /\ found' = IF Cutoff(r) THEN NothingAsked
                               ELSE [asked |-> {n},
                                     files |-> IF r.res = "OK" THEN <<get_fileinfo(r)>> ELSE <<>>]
  IN /\ \E f \in Faults(Run(vol)) : Ended(Run(Start(f)))
     /\ got' = <<>>

(* Between two calls the power is switched off and on, or the card pulled  *)
(* and put back, its switch set or not: the next call finds no volume      *)
(* mounted, or one of which disk_status says that it has to be mounted     *)
(* again, after which validate refuses an open file.  With a file open     *)
(* this is a fault.                                                        *)
PowerCycle ==
  /\ fp.open => faults < MaxFaults
  /\ \E protect \in BOOLEAN : /\ vol.mounted \/ protect # vol.protect
                              /\ vol' = Unmounted(vol.card, protect)
  /\ fp' = Closed
  /\ told' = <<>>
  /\ last' = [res |-> "OK", names |-> {}]
  /\ Silent
  /\ calls' = calls + 1
  /\ doubt' = {}
  /\ exposed' = (exposed \ {"file"}) \cup {k \in {"call"} : "file" \in exposed}
  /\ faults' = IF fp.open THEN faults + 1 ELSE faults
  /\ UNCHANGED disk

Init ==
  /\ \E card \in Cards, protect \in BOOLEAN : /\ vol = Unmounted(card, protect)
                                            /\ disk = Contents(card)
  /\ fp = Closed
  /\ got = <<>>
  /\ found = NothingAsked
  /\ last = [res |-> "OK", names |-> {}]
  /\ doubt = {}
  /\ told = <<>>
  /\ exposed = {}
  /\ faults = 0
  /\ calls = 0

(* The program has one file open at a time and leaves its entry alone      *)
(* (with _FS_SHARE 0 nothing stops it).  What becomes of a volume that is  *)
(* torn is not followed.                                                   *)
Followed ==
  \/ Sound(View)
  \/ /\ "file" \in exposed /\ exposed \cap {"call", "lost"} = {}
     /\ SoundChain(FatOf(View), dirbase, "table", View)

Next ==
  /\ calls < MaxCalls
  /\ Followed
  /\ \/ ~fp.open /\ \E n \in Names, m \in Modes : f_open(n, m)
     \/ \E n \in Sizes, d \in Pieces : f_write(n, d)
     \/ \E n \in Sizes : f_read(n)
     \/ \E ofs \in Places : f_lseek(ofs)
     \/ f_truncate
     \/ f_sync
     \/ f_close
     \/ \E n \in Names \ {fp.name} : f_unlink(n)
     \/ \E n, m \in Names \ {fp.name} : f_rename(n, m)
     \/ f_getfree
     \/ f_readdir
     \/ \E n \in Names : f_stat(n)
     \/ PowerCycle

Spec == Init /\ [][Next]_vars

-----------------------------------------------------------------------------
(* The window is clean unless a volume is mounted; the open file stands at *)
(* a place a file can have, and is not longer.                             *)
TypeOK ==
  /\ vol.winsect \in 0..clust2sect(LastCluster)
  /\ vol.wflag => vol.mounted /\ vol.winsect # 0
  /\ vol.free_clust \in 0..n_fatent \cup {NoValue}
  /\ fp.fptr \in 0..MaxSize /\ fp.fsize \in 0..MaxSize
  /\ exposed \subseteq {"call", "file", "lost", "buffer"}
  /\ faults \in 0..MaxFaults

(* A fault at any transfer of any call leaves a volume on which no cluster *)
(* belongs to two files and no entry says more than its chain holds,       *)
(* unless a file was cut short and not saved since, the directory was      *)
(* being stretched, or a file renamed, or create_chain or f_write passed   *)
(* over an error, or a file's buffer outlived its cluster (see Finish).    *)
TornOnlyWhenExposed == exposed = {} => Sound(View)

(* As long as there was no fault, the number of free clusters that is kept *)
(* in RAM, or in FSInfo while nothing is mounted, is the number of those   *)
(* that belong neither to the directory nor to a file nor to the open one: *)
(* none is lost, and none counted twice (the directory not being written   *)
(* over by a buffer that outlived its cluster).                            *)
FreeCountIsTrue ==
  LET fat == FatOf(View)
      starts == {dirbase, fp.org_clust} \cup {e.start : e \in {x \in EntriesOf(View) : x.name # fp.name}}
      owned == UNION {{Chain(fat, s)[i] : i \in DOMAIN Chain(fat, s)} : s \in starts}
      kept == IF vol.mounted THEN vol.free_clust ELSE vol.card[InfoSector].free
  IN faults = 0 /\ "buffer" \notin exposed => kept = Cardinality(Clusters \ owned)

(* A clean window is what the card has in that sector, which only holds a  *)
(* part of the FAT or of the directory: nothing that was put in the window *)
(* was forgotten, and nothing else was written below it, unless an error   *)
(* was passed over or a buffer outlived its cluster.                       *)
WindowIsTrue ==
  exposed \cap {"lost", "buffer"} = {} /\ vol.winsect # 0 /\ ~vol.wflag =>
    vol.card[vol.winsect] = vol.win

(* The promise of FileStore.                                               *)
Promise == INSTANCE FileStore WITH
  files <- disk,
  handle <- IF fp.open THEN [name |-> fp.name, holds |-> told, saved |-> ~fp.written]
            ELSE [name |-> "none", holds |-> <<>>, saved |-> TRUE],
  up <- vol.mounted,
  shut <- vol.protect,
  astray <- exposed \cap {"lost", "buffer"} # {}
KeepsFiles == Promise!Spec
=============================================================================
