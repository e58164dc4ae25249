---------------------------- MODULE FatFs_proofs ----------------------------
(***************************************************************************)
(* That no call of the file API tears the volume, and that the window is   *)
(* true, for any files, volume, cards, sizes and places, and with a fault  *)
(* in any transfer of any call, in the cases that exposed leaves.          *)
(*                                                                         *)
(* The inductive invariant is IInv: unless an error was passed over or a   *)
(* buffer outlived its cluster, a volume that is mounted has a layout with *)
(* the window written back, to which the open file fits, and its card is   *)
(* sound with the window lost too; one that is not mounted has a sound     *)
(* card. In this order: f_lseek, f_write, f_sync and f_truncate; the calls *)
(* on other files than the open one; the invariant, and what each call     *)
(* leaves when it ends; the actions.                                       *)
(***************************************************************************)
EXTENDS FatLayout_proofs

-----------------------------------------------------------------------------
(* f_lseek: where it starts from. *)
(* The start of the cluster that holds the piece before a. *)
LEMMA RoundDown ==
  ASSUME NEW a \in Nat, a > 0, NEW b, b = ((a - 1) \div SectorPieces) * SectorPieces
  PROVE  /\ b \in Nat
         /\ \A k \in Nat : a <= k * SectorPieces => b + SectorPieces <= k * SectorPieces
         /\ \A o \in Nat : o > 0 /\ (o - 1) \div SectorPieces >= (a - 1) \div SectorPieces => o - b \in Nat
<1>1. PICK s \in Nat : s = SectorPieces /\ s > 0
  BY VolumeAssumption
<1>2. ASSUME NEW z \in Nat PROVE z \div s \in Nat /\ (z \div s) * s \in Nat /\ (z \div s) * s <= z
  <2>1. z = s * (z \div s) + (z % s) /\ z \div s \in Nat /\ z % s \in 0..(s - 1)
    BY <1>1
  <2>2. PICK m \in Nat : m = z \div s
    BY <2>1
  <2>3. s * m = m * s /\ m * s \in Nat
    BY <1>1
  <2> QED BY <2>1, <2>2, <2>3
<1>3. a - 1 \in Nat
  OBVIOUS
<1>4. PICK m \in Nat : m = (a - 1) \div s
  BY <1>2, <1>3
<1>5. b = m * s /\ b \in Nat /\ b <= a - 1
  BY <1>1, <1>2, <1>3, <1>4
<1>6. ASSUME NEW k \in Nat, a <= k * SectorPieces PROVE b + SectorPieces <= k * SectorPieces
  <2>1. k * s \in Nat /\ m * s < k * s
    BY <1>1, <1>5, <1>6
  <2>2. m < k
    <3>1. SUFFICES ASSUME ~(m < k) PROVE FALSE
      OBVIOUS
    <3>2. (m - k) * s >= 0 /\ (m - k) * s = m * s - k * s
      BY <1>1, <3>1
    <3> QED BY <1>5, <2>1, <3>2
  <2> QED BY <1>1, <1>5, <2>2, Products
<1>7. ASSUME NEW o \in Nat, o > 0, (o - 1) \div SectorPieces >= (a - 1) \div SectorPieces PROVE o - b \in Nat
  <2>1. o - 1 \in Nat
    BY <1>7
  <2>2. PICK j \in Nat : j = (o - 1) \div s
    BY <1>2, <2>1
  <2>3. j * s <= o - 1 /\ j * s \in Nat
    BY <1>2, <2>1, <2>2
  <2>4. m <= j
    BY <1>1, <1>4, <1>7, <2>2
  <2>5. m * s <= j * s
    BY <1>1, <2>4, Products
  <2> QED BY <1>5, <1>7, <2>3, <2>5
<1> QED BY <1>5, <1>6, <1>7

(* In a cluster of q, not after its start. *)
AtCluster(f, q) == \E k \in 1..Len(q) : f.curr_clust = q[k] /\ f.fptr + SectorPieces <= k * SectorPieces
IsSeek(p) ==
  /\ DOMAIN p = {"v", "fp", "ofs", "done"}
  /\ p.ofs \in Nat

Arrived(p, q) == IF p.done THEN p.fp.error \/ Within(p.fp, q) ELSE ~p.fp.error /\ AtCluster(p.fp, q)
SeekFine(p, f, x, g) ==
  \E ch : /\ Base(p.v, ch, x, g) /\ FileOf(p.v, p.fp, ch) /\ Kin(f, p.fp) /\ SameSize(f, p.fp)
          /\ Arrived(p, ch[f.name])

Seeking(p, v, f, x, g) ==
  /\ IsSeek(p) /\ Still(v, p.v)
  /\ \/ SeekFine(p, f, x, g)
     \/ Lost(p.v, g) /\ (p.done \/ (IsFp(p.fp) /\ p.fp.curr_clust \in Clusters))

LEMMA SeekLoopIn ==
  ASSUME NEW p, IsSeek(p)
  PROVE  InLoop(p) /\ \A q : Rest(p, q) => IsSeek(q) /\ q.ofs = p.ofs
BY DEF IsSeek, InLoop, Rest

(* Somewhere else in the same file. *)
LEMMA FileMoved ==
  ASSUME NEW v, NEW ch, NEW x, NEW g, Base(v, ch, x, g), NEW f, FileOf(v, f, ch), NEW w, Base(w, ch, x, g), Tabled(v, w),
         NEW h, Kin(f, h), SameSize(f, h), SameClusters(f, h), SameBuffer(f, h)
  PROVE  /\ Base(Ok(w), ch, x, g) /\ FileOf(Ok(w), h, ch) /\ Still(w, Ok(w))
<1>1. Base(Ok(w), ch, x, g) /\ Still(w, Ok(w)) /\ Same(w, Ok(w))
  BY BaseResult
<1>2. Tabled(v, Ok(w))
  BY <1>1, SameTabled, TabledTrans
<1>3. FileOf(Ok(w), f, ch)
  BY <1>2, FileTabled
<1>4. Extent(h, ch)
  BY ExtentSame DEF FileOf
<1> QED BY <1>1, <1>3, <1>4, FileKin

SAt(w, f, o, done) == [v |-> Ok(w), fp |-> f, ofs |-> o, done |-> done]

LEMMA SAtIs ==
  ASSUME NEW w, NEW f, NEW o \in Nat, NEW done, NEW s, s = SAt(w, f, o, done)
  PROVE  IsSeek(s) /\ s.v = Ok(w) /\ s.fp = f /\ s.ofs = o /\ s.done = done
BY DEF SAt, IsSeek

(* At the top of the file, in the cluster that c says. *)
STop(p, c, ofs) == SAt(c, FpCurr(FpOrg(FpAt(p, 0), c.val), c.val), ofs, c.val = 0)
NearOf(p, ofs) == p.fptr > 0 /\ (ofs - 1) \div SectorPieces >= (p.fptr - 1) \div SectorPieces
BaseOf(p) == ((p.fptr - 1) \div SectorPieces) * SectorPieces
SeekTop(v, p, ofs, s) ==
  \E c : /\ c = IF p.org_clust = 0 THEN create_chain(v, 0) ELSE Val(v, p.org_clust)
         /\ s = IF p.org_clust = 0 /\ c.val \in {1, NoValue}
                THEN Abort(SAt(c, FpAt(p, 0), 0, TRUE), ErrorOf(c.val)) ELSE STop(p, c, ofs)

LEMMA SeekFromTop ==
  ASSUME NEW v, NEW p, IsFp(p), NEW ofs \in Nat, ofs > 0, ~NearOf(p, ofs), NEW s, s = SeekFrom(v, p, ofs)
  PROVE  SeekTop(v, p, ofs, s)
<1> DEFINE c == IF p.org_clust = 0 THEN create_chain(v, 0) ELSE Val(v, p.org_clust)
           t == FpAt(p, 0)
           Top(d) ==
             IF p.org_clust = 0 /\ d.val \in {1, NoValue} THEN Abort(SAt(d, t, 0, TRUE), ErrorOf(d.val))
             ELSE SAt(d, [t EXCEPT !.org_clust = d.val, !.curr_clust = d.val], ofs, d.val = 0)
<1>1. s = Top(c)
  BY DEF SeekFrom, SAt, FpAt, NearOf
<1>2. ASSUME NEW d PROVE [t EXCEPT !.org_clust = d.val, !.curr_clust = d.val] = FpCurr(FpOrg(t, d.val), d.val)
  BY DEF FpCurr, FpOrg, FpAt, IsFp
<1> HIDE DEF c, t
<1>3. s = IF p.org_clust = 0 /\ c.val \in {1, NoValue} THEN Abort(SAt(c, t, 0, TRUE), ErrorOf(c.val))
          ELSE SAt(c, FpCurr(FpOrg(t, c.val), c.val), ofs, c.val = 0)
  BY <1>1, <1>2, Zenon
<1>4. c = IF p.org_clust = 0 THEN create_chain(v, 0) ELSE Val(v, p.org_clust)
  BY DEF c
<1>5. s = IF p.org_clust = 0 /\ c.val \in {1, NoValue}
          THEN Abort(SAt(c, FpAt(p, 0), 0, TRUE), ErrorOf(c.val)) ELSE STop(p, c, ofs)
  BY <1>3 DEF STop, t
<1> QED BY <1>4, <1>5, Zenon DEF SeekTop

LEMMA SeekFromIs ==
  ASSUME NEW v, NEW p, IsFp(p), NEW ofs \in Nat, NEW s, s = SeekFrom(v, p, ofs)
  PROVE  /\ ofs = 0 => s = SAt(v, FpAt(p, 0), 0, TRUE)
         /\ ofs > 0 /\ NearOf(p, ofs) => s = SAt(v, FpAt(p, BaseOf(p)), ofs - BaseOf(p), FALSE)
         /\ ofs > 0 /\ ~NearOf(p, ofs) => SeekTop(v, p, ofs, s)
<1>1. CASE ofs = 0
  BY <1>1 DEF SeekFrom, SAt, FpAt
<1>2. CASE ofs > 0 /\ NearOf(p, ofs)
  BY <1>2 DEF SeekFrom, SAt, FpAt, NearOf, BaseOf
<1>3. CASE ofs > 0 /\ ~NearOf(p, ofs)
  <2>1. ofs > 0 /\ ~NearOf(p, ofs) /\ ofs # 0
    BY <1>3
  <2>2. SeekTop(v, p, ofs, s)
    BY <2>1, SeekFromTop
  <2> QED BY <2>1, <2>2, Zenon
<1> QED BY <1>1, <1>2, <1>3, Zenon

SNext(p) == IF p.fp.write THEN create_chain(p.v, p.fp.curr_clust) ELSE get_fat(p.v, p.fp.curr_clust)

LEMMA SeekStepIs ==
  ASSUME NEW p, IsSeek(p), NEW c, c = SNext(p), NEW q, q = SeekStep(p)
  PROVE  /\ p.ofs <= SectorPieces =>
              q.v = p.v /\ q.fp = FpAt(p.fp, p.fp.fptr + p.ofs) /\ IsSeek(q) /\ q.done
         /\ p.ofs > SectorPieces /\ c.val \in Clusters =>
              /\ q.v = Ok(c) /\ q.fp = FpAt(FpCurr(p.fp, c.val), FpCurr(p.fp, c.val).fptr + SectorPieces)
              /\ IsSeek(q) /\ q.done = p.done
         /\ p.ofs > SectorPieces /\ c.val = 0 /\ p.fp.write => q.v = Ok(c) /\ q.fp = p.fp /\ IsSeek(q) /\ q.done = p.done
         /\ p.ofs > SectorPieces /\ c.val \notin Clusters /\ ~(c.val = 0 /\ p.fp.write) =>
              q = Abort(SetV(p, c), ErrorOf(c.val))
<1>1. SectorPieces \in Nat /\ 0 \notin Clusters
  BY VolumeAssumption, NoClusters
<1>2. CASE p.ofs <= SectorPieces
  <2>1. q = [p EXCEPT !.fp.fptr = @ + p.ofs, !.done = TRUE]
    BY <1>2 DEF SeekStep
  <2>2. q.v = p.v /\ q.fp = FpAt(p.fp, p.fp.fptr + p.ofs) /\ IsSeek(q)
    BY <2>1 DEF IsSeek, FpAt
  <2>3. q.done
    BY <2>1 DEF IsSeek
  <2>4. ~(p.ofs > SectorPieces)
    BY <1>1, <1>2 DEF IsSeek
  <2> QED BY <2>2, <2>3, <2>4, Zenon
<1>3. CASE p.ofs > SectorPieces /\ c.val \in Clusters
  <2>1. q = [p EXCEPT !.v = Ok(c), !.fp.curr_clust = c.val, !.fp.fptr = @ + SectorPieces, !.ofs = @ - SectorPieces]
    BY <1>1, <1>3 DEF SeekStep, SNext, IsSeek
  <2>2. q.v = Ok(c) /\ q.fp = FpAt(FpCurr(p.fp, c.val), FpCurr(p.fp, c.val).fptr + SectorPieces)
    BY <2>1 DEF IsSeek, FpAt, FpCurr
  <2>3. q.ofs = p.ofs - SectorPieces /\ DOMAIN q = DOMAIN p
    BY <2>1 DEF IsSeek
  <2>4. q.done = p.done
    BY <2>1 DEF IsSeek
  <2>5. IsSeek(q)
    BY <1>1, <1>3, <2>3 DEF IsSeek
  <2> QED BY <1>1, <1>3, <2>2, <2>4, <2>5 DEF IsSeek
<1>4. CASE p.ofs > SectorPieces /\ c.val = 0 /\ p.fp.write
  <2>1. q = [p EXCEPT !.v = Ok(c), !.ofs = SectorPieces]
    BY <1>1, <1>4 DEF SeekStep, SNext, IsSeek
  <2>2. q.v = Ok(c) /\ q.fp = p.fp
    BY <2>1 DEF IsSeek
  <2>3. q.done = p.done
    BY <2>1 DEF IsSeek
  <2>4. IsSeek(q)
    BY <1>1, <2>1 DEF IsSeek
  <2> QED BY <1>1, <1>4, <2>2, <2>3, <2>4 DEF IsSeek
<1>5. CASE p.ofs > SectorPieces /\ c.val \notin Clusters /\ ~(c.val = 0 /\ p.fp.write)
  <2>1. q = Abort(SetV(p, c), ErrorOf(c.val))
    BY <1>1, <1>5 DEF SeekStep, SNext, IsSeek, SetV
  <2> QED BY <1>1, <1>5, <2>1 DEF IsSeek
<1> QED BY <1>1, <1>2, <1>3, <1>4, <1>5 DEF IsSeek

(* The next cluster of the file, if there is one, may be new. *)
Reached(c, f, x, g) ==
  \E ch : /\ Base(c, ch, x, g) /\ FileOf(Ok(c), f, ch) /\ AtCluster(f, ch[f.name])
          /\ c.val \in Clusters =>
               \E k \in 1..Len(ch[f.name]) :
                 c.val = ch[f.name][k] /\ f.fptr + SectorPieces + SectorPieces <= k * SectorPieces

LEMMA SNextFine ==
  ASSUME NEW p, NEW ch, NEW x, NEW g, Base(p.v, ch, x, g), FileOf(p.v, p.fp, ch),
         AtCluster(p.fp, ch[p.fp.name]), Cutting(p.v), NEW c, c = SNext(p)
  PROVE  Still(p.v, c) /\ (Reached(c, p.fp, x, g) \/ Lost(c, g) \/ Astray(c))
<1> DEFINE n == p.fp.name
           f == p.fp
<1>1. IsFp(f) /\ Extent(f, ch) /\ n \in Names /\ IsVol(p.v) /\ ch \in Layouts /\ n # "none" /\ f.fptr \in Nat
      /\ f.fsize \in Nat /\ Entered(p.v, f, ch)
  BY BaseFacts, NamesAssumption DEF FileOf, IsFp
<1>2. PICK k \in 1..Len(ch[n]) : f.curr_clust = ch[n][k] /\ f.fptr + SectorPieces <= k * SectorPieces
  BY DEF AtCluster
<1>3. ch[n] \in Seq(Clusters) /\ ch[n] # <<>> /\ Len(ch[n]) \in Nat /\ k \in Nat
  BY <1>1, LayoutFacts
<1>4. f.fptr + SectorPieces + SectorPieces <= (k + 1) * SectorPieces
  <2>1. (k + 1) * SectorPieces = k * SectorPieces + SectorPieces /\ k * SectorPieces \in Nat /\ SectorPieces \in Nat
    BY <1>3, Products, VolumeAssumption, Zenon
  <2> QED BY <1>1, <1>2, <2>1
<1> HIDE DEF n, f

(* What is the same in each case. *)
<1>5. ASSUME Still(p.v, c), Same(p.v, c), Base(c, ch, x, g), c.val \in Clusters => k + 1 \in 1..Len(ch[n]) /\ c.val = ch[n][k + 1]
      PROVE  Reached(c, f, x, g)
  <2>1. Same(c, Ok(c))
    BY <1>5, BaseResult, Zenon
  <2>2. Tabled(p.v, Ok(c))
    BY <1>5, <2>1, SameTrans, SameTabled
  <2>3. FileOf(Ok(c), f, ch)
    BY <2>2, FileTabled DEF f
  <2>4. AtCluster(f, ch[f.name])
    BY DEF f
  <2> QED BY <1>4, <1>5, <2>3, <2>4 DEF Reached, n, f
<1>6. CASE ~p.fp.write
  <2>1. c = get_fat(p.v, ch[n][k])
    BY <1>2, <1>6 DEF SNext, f
  <2>2. /\ Base(c, ch, x, g) /\ Still(p.v, c) /\ Same(p.v, c)
        /\ c.val \in Clusters => k + 1 \in 1..Len(ch[n]) /\ c.val = ch[n][k + 1]
    BY <1>1, <2>1, FollowsFat
  <2> QED BY <1>5, <2>2 DEF f
<1>7. CASE p.fp.write
  <2>1. c = create_chain(p.v, ch[n][k])
    BY <1>2, <1>7 DEF SNext, f
  <2>2. Still(p.v, c) /\ Same(p.v, c) /\ c.val \in Clusters \cup {0, 1, NoValue} /\ Next1(p.v, c, ch, x, g, n, k)
    BY <1>1, <2>1, CreateNext
  <2>3. CASE k < Len(ch[n]) /\ c.val = ch[n][k + 1] /\ Base(c, ch, x, g)
    BY <1>3, <1>5, <2>2, <2>3 DEF f
  <2>4. CASE c.val \in {0, 1, NoValue} /\ Base(c, ch, x, g)
    BY <1>5, <2>2, <2>4, NoClusters DEF f
  <2>5. CASE k = Len(ch[n]) /\ c.val \in Clusters /\ Base(c, Longer(ch, n, c.val), x, g)
    <3>1. PICK ch2 : ch2 = Longer(ch, n, c.val)
      OBVIOUS
    <3>2. Base(c, ch2, x, g) /\ Base(Ok(c), ch2, x, g) /\ Same(c, Ok(c))
      BY <2>5, <3>1, BaseResult, Zenon
    <3>3. ch2[f.name] = Append(ch[f.name], c.val) /\ ch2[n] = Append(ch[n], c.val) /\ Dir(ch2) = Dir(ch)
      <4>1. DOMAIN ch = Names \cup {"none"}
        BY <1>1 DEF Layouts
      <4> QED BY <1>1, <3>1, <4>1 DEF Longer, Dir, n, f
    <3>4. Extent(f, ch2)
      <4>1. c.val \in Clusters /\ ch[f.name] \in Seq(Clusters) /\ ch[f.name] # <<>>
        BY <1>3, <2>5 DEF n, f
      <4> QED BY <1>1, <3>3, <4>1, ExtentLonger
    <3>5. Tabled(p.v, Ok(c))
      BY <2>2, <3>2, SameTrans, SameTabled
    <3>6. Entered(Ok(c), f, ch2)
      <4>1. Entered(Ok(c), f, ch)
        BY <1>1, <3>5, EnteredTabled
      <4> QED BY <3>3, <4>1, EnteredLayout
    <3>7. FileOf(Ok(c), f, ch2)
      BY <1>1, <3>4, <3>6 DEF FileOf, n, f
    <3>8. /\ Len(ch2[n]) = Len(ch[n]) + 1 /\ ch2[n][Len(ch[n]) + 1] = c.val
          /\ \A j \in 1..Len(ch[n]) : ch2[n][j] = ch[n][j]
      BY <1>3, <2>5, <3>3, AppendIs
    <3>9. AtCluster(f, ch2[f.name])
      <4>1. k \in 1..Len(ch2[n]) /\ f.curr_clust = ch2[n][k]
        BY <1>2, <1>3, <3>8
      <4> QED BY <1>2, <4>1 DEF AtCluster, n, f
    <3>10. k + 1 \in 1..Len(ch2[n]) /\ c.val = ch2[n][k + 1]
      BY <1>3, <2>5, <3>8
    <3>11. Reached(c, f, x, g)
      BY <1>4, <3>2, <3>7, <3>9, <3>10 DEF Reached, n, f
    <3> QED BY <2>2, <3>11 DEF f
  <2> QED BY <2>2, <2>3, <2>4, <2>5 DEF Next1
<1> QED BY <1>6, <1>7

LEMMA SNextLost ==
  ASSUME NEW p, NEW g, Lost(p.v, g), p.fp.curr_clust \in Clusters, NEW c, c = SNext(p)
  PROVE  Lost(c, g) /\ Still(p.v, c)
<1>1. CASE p.fp.write
  <2>1. c = create_chain(p.v, p.fp.curr_clust)
    BY <1>1 DEF SNext
  <2> QED BY <2>1, LostCreate
<1>2. CASE ~p.fp.write
  <2>1. c = get_fat(p.v, p.fp.curr_clust)
    BY <1>2 DEF SNext
  <2>2. Reads(p.v, c, <<>>) /\ Gets(p.v, c, p.fp.curr_clust)
    BY <2>1, GetFat DEF Lost
  <2>3. Sane(c) /\ Still(p.v, c)
    BY <2>2 DEF Reads, Gets, Still
  <2> QED BY <2>3, LostStill
<1> QED BY <1>1, <1>2

LEMMA OkErrTabled ==
  ASSUME NEW c, IsVol(c), NEW r
  PROVE  Tabled(Ok(c), Err(c, r))
<1>1. Core(c, Ok(c)) /\ Core(c, Err(c, r))
  BY Results
<1>2. Flushed(Ok(c)) = Flushed(c) /\ Flushed(Err(c, r)) = Flushed(c)
  BY <1>1, CoreFlushed
<1> QED BY <1>2, SameFlushed, SameTabled

(* An error was passed over on the way. *)
Swept(p, v) == IsSeek(p) /\ Still(v, p.v) /\ Astray(p.v)

LEMMA SweptLater ==
  ASSUME NEW q, IsSeek(q), NEW v, NEW c, Still(v, c), Still(c, q.v), Astray(c)
  PROVE  Swept(q, v)
<1>1. Still(v, q.v)
  BY StillTrans
<1>2. Astray(q.v)
  BY AstrayLater DEF Still
<1> QED BY <1>1, <1>2 DEF Swept

LEMMA SweptStep ==
  ASSUME NEW p, NEW v, Swept(p, v), NEW q, q = SeekStep(p)
  PROVE  Swept(q, v)
<1>1. IsSeek(p) /\ Still(v, p.v) /\ Astray(p.v) /\ IsVol(p.v) /\ p.ofs \in Nat /\ SectorPieces \in Nat
  BY VolumeAssumption DEF Swept, Astray, IsSeek
<1>2. PICK c : c = SNext(p)
  OBVIOUS
<1>3. Still(p.v, c) /\ IsVol(c)
  <2>1. Still(p.v, c)
    BY <1>1, <1>2, AnyCreate, AnyLink DEF SNext
  <2> QED BY <2>1 DEF Still, Later
<1>4. ASSUME IsSeek(q), Still(p.v, q.v) PROVE Swept(q, v)
  BY <1>1, <1>4, SweptLater
<1>5. CASE p.ofs <= SectorPieces
  <2>1. q.v = p.v /\ IsSeek(q)
    BY <1>1, <1>2, <1>5, SeekStepIs
  <2>2. Still(p.v, q.v)
    BY <1>1, <2>1, VolStill
  <2> QED BY <1>4, <2>1, <2>2
<1>6. CASE p.ofs > SectorPieces /\ (c.val \in Clusters \/ (c.val = 0 /\ p.fp.write))
  <2>1. q.v = Ok(c) /\ IsSeek(q)
    BY <1>1, <1>2, <1>6, SeekStepIs
  <2>2. Still(c, q.v)
    BY <1>3, <2>1, Results
  <2>3. Still(p.v, q.v)
    BY <1>3, <2>2, StillTrans
  <2> QED BY <1>4, <2>1, <2>3
<1>7. CASE p.ofs > SectorPieces /\ c.val \notin Clusters /\ ~(c.val = 0 /\ p.fp.write)
  <2>1. q = Abort(SetV(p, c), ErrorOf(c.val))
    BY <1>1, <1>2, <1>7, SeekStepIs
  <2>2. PICK a : a = SetV(p, c)
    OBVIOUS
  <2>3. InLoop(p) /\ InLoop(a) /\ Rest(p, a) /\ a.v = c
    BY <1>1, <2>2, SeekLoopIn, SetVIs
  <2>4. Rest(a, q) /\ q.v = Err(c, ErrorOf(c.val))
    BY <2>1, <2>2, <2>3, AbortIs
  <2>5. IsSeek(q)
    <3>1. Rest(p, q)
      BY <2>3, <2>4, RestTrans
    <3> QED BY <1>1, <3>1, SeekLoopIn
  <2>6. Still(c, q.v)
    BY <1>3, <2>4, Results
  <2>7. Still(p.v, q.v)
    BY <1>3, <2>6, StillTrans
  <2> QED BY <1>4, <2>5, <2>7
<1> QED BY <1>1, <1>5, <1>6, <1>7

(* A step of the loop. *)
LEMMA SeekStepKeeps ==
  ASSUME NEW p, NEW v, Cutting(v), NEW f, NEW x, NEW g, Seeking(p, v, f, x, g), ~p.done, NEW q, q = SeekStep(p)
  PROVE  Seeking(q, v, f, x, g) \/ Swept(q, v)
<1>1. IsSeek(p) /\ Still(v, p.v) /\ p.ofs \in Nat /\ SectorPieces \in Nat /\ SectorPieces # 0
  BY VolumeAssumption DEF Seeking, IsSeek
<1>2. Cutting(p.v) /\ IsVol(p.v)
  BY <1>1, CuttingLater DEF Still, Later
<1>3. PICK c : c = SNext(p)
  OBVIOUS
<1>4. SeekFine(p, f, x, g) \/ (Lost(p.v, g) /\ IsFp(p.fp) /\ p.fp.curr_clust \in Clusters)
  BY DEF Seeking
<1>5. CASE p.ofs <= SectorPieces
  <2>1. q.v = p.v /\ q.fp = FpAt(p.fp, p.fp.fptr + p.ofs) /\ IsSeek(q) /\ q.done
    BY <1>1, <1>3, <1>5, SeekStepIs
  <2>2. ASSUME SeekFine(p, f, x, g) PROVE SeekFine(q, f, x, g)
    <3>1. PICK ch : /\ Base(p.v, ch, x, g) /\ FileOf(p.v, p.fp, ch) /\ Kin(f, p.fp) /\ SameSize(f, p.fp)
                    /\ ~p.fp.error /\ AtCluster(p.fp, ch[f.name])
      BY <2>2 DEF SeekFine, Arrived
    <3>2. p.fp.fptr \in Nat /\ p.fp.fptr + p.ofs \in Nat /\ IsFp(p.fp) /\ f.name = p.fp.name
      BY <1>1, <3>1 DEF Kin, IsFp
    <3>3. /\ Kin(p.fp, q.fp) /\ SameSize(p.fp, q.fp) /\ SameClusters(p.fp, q.fp) /\ SameCurr(p.fp, q.fp)
          /\ SameBuffer(p.fp, q.fp) /\ q.fp.fptr = p.fp.fptr + p.ofs
      BY <2>1, <3>2, FpAtIs
    <3>4. Extent(q.fp, ch)
      BY <3>1, <3>2, <3>3, ExtentSame DEF FileOf
    <3>5. FileOf(q.v, q.fp, ch)
      BY <2>1, <3>1, <3>2, <3>3, <3>4, FileKin
    <3>6. Within(q.fp, ch[f.name])
      <4>1. PICK k \in 1..Len(ch[f.name]) : p.fp.curr_clust = ch[f.name][k] /\ p.fp.fptr + SectorPieces <= k * SectorPieces
        BY <3>1 DEF AtCluster
      <4>2. k * SectorPieces \in Nat
        <5>1. k \in Nat
          OBVIOUS
        <5> QED BY <5>1, Products
      <4>3. q.fp.fptr <= k * SectorPieces
        BY <1>1, <1>5, <3>2, <3>3, <4>1, <4>2
      <4> QED BY <3>3, <4>1, <4>3 DEF Within, SameCurr
    <3>7. Kin(f, q.fp) /\ SameSize(f, q.fp)
      BY <3>1, <3>3, KinTrans DEF SameSize
    <3> QED BY <2>1, <3>1, <3>5, <3>6, <3>7 DEF SeekFine, Arrived
  <2> QED BY <1>1, <1>4, <2>1, <2>2 DEF Seeking
<1>6. CASE p.ofs > SectorPieces /\ c.val \in Clusters
  <2>1. /\ q.v = Ok(c) /\ q.fp = FpAt(FpCurr(p.fp, c.val), FpCurr(p.fp, c.val).fptr + SectorPieces)
        /\ IsSeek(q) /\ q.done = p.done
    BY <1>1, <1>3, <1>6, SeekStepIs
  <2>2. IsFp(p.fp)
    BY <1>4 DEF SeekFine, FileOf
  <2>3. PICK h : h = FpCurr(p.fp, c.val)
    OBVIOUS
  <2>4. /\ Kin(p.fp, h) /\ SameSize(p.fp, h) /\ SamePlace(p.fp, h) /\ SameClusters(p.fp, h) /\ SameBuffer(p.fp, h)
        /\ SameError(p.fp, h) /\ h.curr_clust = c.val /\ IsFp(h) /\ h.fptr \in Nat /\ p.fp.fptr \in Nat
    BY <2>2, <2>3, FpCurrIs DEF Kin, IsFp
  <2>5. /\ Kin(h, q.fp) /\ SameSize(h, q.fp) /\ SameClusters(h, q.fp) /\ SameCurr(h, q.fp) /\ SameError(h, q.fp)
        /\ SameBuffer(h, q.fp) /\ q.fp.fptr = h.fptr + SectorPieces
    <3>1. h.fptr + SectorPieces \in Nat /\ q.fp = FpAt(h, h.fptr + SectorPieces)
      BY <1>1, <2>1, <2>3, <2>4
    <3> QED BY <2>4, <3>1, FpAtIs
  <2>6. Kin(p.fp, q.fp) /\ SameSize(p.fp, q.fp) /\ SameClusters(p.fp, q.fp) /\ SameBuffer(p.fp, q.fp)
        /\ q.fp.curr_clust = c.val /\ q.fp.fptr = p.fp.fptr + SectorPieces /\ IsFp(q.fp) /\ SameError(p.fp, q.fp)
    BY <2>4, <2>5, KinTrans DEF SameSize, SameClusters, SameBuffer, SameCurr, SamePlace, Kin, SameError
  <2>7. CASE Lost(p.v, g) /\ IsFp(p.fp) /\ p.fp.curr_clust \in Clusters
    <3>1. Lost(c, g) /\ Still(p.v, c)
      BY <1>3, <2>7, SNextLost
    <3>2. Lost(q.v, g) /\ Still(c, q.v)
      BY <2>1, <3>1, LostResult
    <3>3. Still(v, q.v)
      BY <1>1, <3>1, <3>2, StillTrans
    <3> QED BY <1>6, <2>1, <2>6, <3>2, <3>3 DEF Seeking
  <2>8. CASE SeekFine(p, f, x, g)
    <3>1. PICK ch : /\ Base(p.v, ch, x, g) /\ FileOf(p.v, p.fp, ch) /\ Kin(f, p.fp) /\ SameSize(f, p.fp)
                    /\ ~p.fp.error /\ AtCluster(p.fp, ch[f.name])
      BY <2>8 DEF SeekFine, Arrived
    <3>2. f.name = p.fp.name
      BY <3>1 DEF Kin
    <3>3. Still(p.v, c) /\ (Reached(c, p.fp, x, g) \/ Lost(c, g) \/ Astray(c))
      BY <1>2, <1>3, <3>1, <3>2, SNextFine
    <3>4. IsVol(c)
      BY <3>3 DEF Still, Later
    <3>5. Still(v, q.v) /\ Still(c, q.v) /\ Still(v, c)
      <4>1. Still(c, q.v)
        BY <2>1, <3>4, Results
      <4> QED BY <1>1, <3>3, <4>1, StillTrans
    <3>6. CASE Lost(c, g)
      <4>1. Lost(q.v, g)
        BY <2>1, <3>6, LostResult
      <4> QED BY <1>6, <2>1, <2>6, <3>5, <4>1 DEF Seeking
    <3>7. CASE Reached(c, p.fp, x, g)
      <4>1. PICK ch2 : /\ Base(c, ch2, x, g) /\ FileOf(Ok(c), p.fp, ch2) /\ AtCluster(p.fp, ch2[p.fp.name])
                       /\ c.val \in Clusters =>
                            \E k \in 1..Len(ch2[p.fp.name]) :
                              c.val = ch2[p.fp.name][k] /\ p.fp.fptr + SectorPieces + SectorPieces <= k * SectorPieces
        BY <3>7 DEF Reached
      <4>2. Base(q.v, ch2, x, g)
        BY <2>1, <4>1, BaseResult
      <4>3. Extent(q.fp, ch2)
        BY <2>6, <4>1, ExtentSame DEF FileOf
      <4>4. FileOf(q.v, q.fp, ch2)
        BY <2>1, <2>6, <4>1, <4>3, FileKin
      <4>5. AtCluster(q.fp, ch2[f.name])
        BY <1>6, <2>6, <3>2, <4>1 DEF AtCluster
      <4>6. ~q.fp.error
        BY <2>6, <3>1 DEF SameError
      <4>7. ~q.done
        BY <2>1
      <4>8. Kin(f, q.fp) /\ SameSize(f, q.fp)
        BY <2>6, <3>1, KinTrans DEF SameSize
      <4>9. SeekFine(q, f, x, g)
        BY <4>2, <4>4, <4>5, <4>6, <4>7, <4>8 DEF SeekFine, Arrived
      <4> QED BY <2>1, <3>5, <4>9 DEF Seeking
    <3>8. CASE Astray(c)
      BY <2>1, <3>5, <3>8, SweptLater
    <3> QED BY <3>3, <3>6, <3>7, <3>8
  <2> QED BY <1>4, <2>7, <2>8
<1>7. CASE p.ofs > SectorPieces /\ c.val = 0 /\ p.fp.write
  <2>1. q.v = Ok(c) /\ q.fp = p.fp /\ IsSeek(q) /\ q.done = p.done
    BY <1>1, <1>3, <1>7, SeekStepIs
  <2>2. CASE Lost(p.v, g) /\ IsFp(p.fp) /\ p.fp.curr_clust \in Clusters
    <3>1. Lost(c, g) /\ Still(p.v, c)
      BY <1>3, <2>2, SNextLost
    <3>2. Lost(q.v, g) /\ Still(c, q.v)
      BY <2>1, <3>1, LostResult
    <3>3. Still(v, q.v)
      BY <1>1, <3>1, <3>2, StillTrans
    <3> QED BY <2>1, <2>2, <3>2, <3>3 DEF Seeking
  <2>3. CASE SeekFine(p, f, x, g)
    <3>1. PICK ch : /\ Base(p.v, ch, x, g) /\ FileOf(p.v, p.fp, ch) /\ Kin(f, p.fp) /\ SameSize(f, p.fp)
                    /\ ~p.fp.error /\ AtCluster(p.fp, ch[f.name])
      BY <2>3 DEF SeekFine, Arrived
    <3>2. f.name = p.fp.name /\ IsFp(p.fp)
      BY <3>1 DEF Kin
    <3>3. Still(p.v, c) /\ (Reached(c, p.fp, x, g) \/ Lost(c, g) \/ Astray(c))
      BY <1>2, <1>3, <3>1, <3>2, SNextFine
    <3>4. IsVol(c)
      BY <3>3 DEF Still, Later
    <3>5. Still(v, q.v) /\ Still(c, q.v) /\ Still(v, c)
      <4>1. Still(c, q.v)
        BY <2>1, <3>4, Results
      <4> QED BY <1>1, <3>3, <4>1, StillTrans
    <3>6. CASE Lost(c, g)
      <4>1. Lost(q.v, g)
        BY <2>1, <3>6, LostResult
      <4>2. p.fp.curr_clust \in Clusters
        <5>1. PICK k \in 1..Len(ch[f.name]) : p.fp.curr_clust = ch[f.name][k]
          BY <3>1 DEF AtCluster
        <5>2. ch[f.name] \in Seq(Clusters)
          BY <3>1, <3>2, BaseFacts, LayoutFacts DEF FileOf
        <5> QED BY <5>1, <5>2
      <4> QED BY <2>1, <3>2, <3>5, <4>1, <4>2 DEF Seeking
    <3>7. CASE Reached(c, p.fp, x, g)
      <4>1. PICK ch2 : /\ Base(c, ch2, x, g) /\ FileOf(Ok(c), p.fp, ch2) /\ AtCluster(p.fp, ch2[p.fp.name])
        BY <3>7 DEF Reached
      <4>2. Base(q.v, ch2, x, g)
        BY <2>1, <4>1, BaseResult
      <4>3. SeekFine(q, f, x, g)
        BY <2>1, <3>1, <3>2, <4>1, <4>2 DEF SeekFine, Arrived
      <4> QED BY <2>1, <3>5, <4>3 DEF Seeking
    <3>8. CASE Astray(c)
      BY <2>1, <3>5, <3>8, SweptLater
    <3> QED BY <3>3, <3>6, <3>7, <3>8
  <2> QED BY <1>4, <2>2, <2>3
<1>8. CASE p.ofs > SectorPieces /\ c.val \notin Clusters /\ ~(c.val = 0 /\ p.fp.write)
  <2>1. q = Abort(SetV(p, c), ErrorOf(c.val))
    BY <1>1, <1>3, <1>8, SeekStepIs
  <2>2. PICK a : a = SetV(p, c)
    OBVIOUS
  <2>3. InLoop(p) /\ InLoop(a) /\ Rest(p, a) /\ a.v = c /\ a.fp = p.fp
    BY <1>1, <2>2, SeekLoopIn, SetVIs
  <2>4. Rest(a, q) /\ q.v = Err(c, ErrorOf(c.val)) /\ q.fp = FpErr(p.fp) /\ q.done
    BY <2>1, <2>2, <2>3, AbortIs
  <2>5. IsSeek(q)
    <3>1. Rest(p, q)
      BY <2>3, <2>4, RestTrans
    <3> QED BY <1>1, <3>1, SeekLoopIn
  <2>6. CASE Lost(p.v, g) /\ IsFp(p.fp) /\ p.fp.curr_clust \in Clusters
    <3>1. Lost(c, g) /\ Still(p.v, c)
      BY <1>3, <2>6, SNextLost
    <3>2. Lost(q.v, g) /\ Still(c, q.v)
      BY <2>4, <3>1, LostResult
    <3>3. Still(v, q.v)
      BY <1>1, <3>1, <3>2, StillTrans
    <3> QED BY <2>4, <2>5, <3>2, <3>3 DEF Seeking
  <2>7. CASE SeekFine(p, f, x, g)
    <3>1. PICK ch : /\ Base(p.v, ch, x, g) /\ FileOf(p.v, p.fp, ch) /\ Kin(f, p.fp) /\ SameSize(f, p.fp)
                    /\ ~p.fp.error /\ AtCluster(p.fp, ch[f.name])
      BY <2>7 DEF SeekFine, Arrived
    <3>2. f.name = p.fp.name /\ IsFp(p.fp)
      BY <3>1 DEF Kin
    <3>3. Still(p.v, c) /\ (Reached(c, p.fp, x, g) \/ Lost(c, g) \/ Astray(c))
      BY <1>2, <1>3, <3>1, <3>2, SNextFine
    <3>4. IsVol(c)
      BY <3>3 DEF Still, Later
    <3>5. Still(v, q.v) /\ Still(c, q.v) /\ Still(v, c)
      <4>1. Still(c, q.v)
        BY <2>4, <3>4, Results
      <4> QED BY <1>1, <3>3, <4>1, StillTrans
    <3>6. CASE Lost(c, g)
      <4>1. Lost(q.v, g)
        BY <2>4, <3>6, LostResult
      <4> QED BY <2>4, <2>5, <3>5, <4>1 DEF Seeking
    <3>7. CASE Reached(c, p.fp, x, g)
      <4>1. PICK ch2 : /\ Base(c, ch2, x, g) /\ FileOf(Ok(c), p.fp, ch2)
        BY <3>7 DEF Reached
      <4>2. Base(q.v, ch2, x, g) /\ Same(c, q.v)
        BY <2>4, <4>1, BaseResult
      <4>3. /\ Kin(p.fp, q.fp) /\ SameSize(p.fp, q.fp) /\ SamePlace(p.fp, q.fp) /\ SameClusters(p.fp, q.fp)
            /\ SameBuffer(p.fp, q.fp) /\ SameCurr(p.fp, q.fp) /\ q.fp.error
        BY <2>4, <3>2, FpErrIs
      <4>4. Extent(q.fp, ch2)
        BY <4>1, <4>3, ExtentSame DEF FileOf
      <4>5. FileOf(Ok(c), q.fp, ch2)
        BY <4>1, <4>3, <4>4, FileKin
      <4>6. Base(Ok(c), ch2, x, g) /\ Tabled(Ok(c), q.v)
        BY <2>4, <3>4, <4>1, OkErrTabled, BaseResult
      <4>7. FileOf(q.v, q.fp, ch2)
        BY <4>5, <4>6, FileTabled
      <4>8. Kin(f, q.fp) /\ SameSize(f, q.fp)
        BY <3>1, <4>3, KinTrans DEF SameSize
      <4>9. SeekFine(q, f, x, g)
        BY <2>4, <3>2, <4>2, <4>3, <4>7, <4>8 DEF SeekFine, Arrived
      <4> QED BY <2>4, <2>5, <3>5, <4>9 DEF Seeking
    <3>8. CASE Astray(c)
      BY <2>5, <3>5, <3>8, SweptLater
    <3> QED BY <3>3, <3>6, <3>7, <3>8
  <2> QED BY <1>4, <2>6, <2>7
<1> QED BY <1>1, <1>5, <1>6, <1>7, <1>8

(* The top of the file. *)
LEMMA TopIs ==
  ASSUME NEW f, IsFp(f), NEW c, NEW h, h = FpCurr(FpOrg(FpAt(f, 0), c), c)
  PROVE  /\ Kin(f, h) /\ SameSize(f, h) /\ SameBuffer(f, h) /\ SameError(f, h) /\ IsFp(h)
         /\ h.org_clust = c /\ h.curr_clust = c /\ h.fptr = 0
<1>1. PICK a : a = FpAt(f, 0)
  OBVIOUS
<1>2. PICK b : b = FpOrg(a, c)
  OBVIOUS
<1>3. h = FpCurr(b, c)
  BY <1>1, <1>2
<1>4. Kin(f, a) /\ SameSize(f, a) /\ SameBuffer(f, a) /\ SameError(f, a) /\ IsFp(a) /\ a.fptr = 0
  BY <1>1, FpAtIs DEF Kin
<1>5. Kin(a, b) /\ SameSize(a, b) /\ SameBuffer(a, b) /\ SameError(a, b) /\ IsFp(b) /\ b.fptr = 0 /\ b.org_clust = c
  BY <1>2, <1>4, FpOrgIs DEF Kin, SamePlace
<1>6. Kin(b, h) /\ SameSize(b, h) /\ SameBuffer(b, h) /\ SameError(b, h) /\ h.fptr = 0 /\ h.org_clust = c /\ h.curr_clust = c
  BY <1>3, <1>5, FpCurrIs DEF SamePlace, SameClusters
<1>7. Kin(f, h)
  BY <1>4, <1>5, <1>6, KinTrans
<1> QED BY <1>4, <1>5, <1>6, <1>7 DEF SameSize, SameBuffer, SameError, Kin

LEMMA SeekStartsTop ==
  ASSUME NEW v, NEW ch, NEW x, NEW g, Base(v, ch, x, g), Cutting(v), NEW f, FileOf(v, f, ch), ~f.error,
         NEW ofs \in Nat, ofs > 0, NEW s, SeekTop(v, f, ofs, s)
  PROVE  Seeking(s, v, f, x, g)
<1> DEFINE n == f.name
<1>1. IsFp(f) /\ Extent(f, ch) /\ n \in Names /\ n # "none" /\ IsVol(v) /\ ch \in Layouts /\ Entered(v, f, ch) /\ f.fsize \in Nat
  BY BaseFacts, NamesAssumption DEF FileOf, IsFp
<1>2. ch[n] \in Seq(Clusters) /\ Len(ch[n]) \in Nat
  BY <1>1, LayoutFacts
<1>3. SectorPieces \in Nat \ {0} /\ 0 + SectorPieces <= 1 * SectorPieces /\ 0 * SectorPieces = 0
  BY VolumeAssumption
<1> HIDE DEF n
<1>4. PICK c : /\ c = IF f.org_clust = 0 THEN create_chain(v, 0) ELSE Val(v, f.org_clust)
               /\ s = IF f.org_clust = 0 /\ c.val \in {1, NoValue}
                      THEN Abort(SAt(c, FpAt(f, 0), 0, TRUE), ErrorOf(c.val)) ELSE STop(f, c, ofs)
  BY Zenon DEF SeekTop
<1>5. PICK h : h = FpCurr(FpOrg(FpAt(f, 0), c.val), c.val)
  OBVIOUS
<1>6. /\ Kin(f, h) /\ SameSize(f, h) /\ SameBuffer(f, h) /\ SameError(f, h) /\ IsFp(h)
      /\ h.org_clust = c.val /\ h.curr_clust = c.val /\ h.fptr = 0 /\ ~h.error /\ h.name = n
  BY <1>1, <1>5, TopIs DEF SameError, Kin, n
<1>7. ASSUME s = STop(f, c, ofs) PROVE IsSeek(s) /\ s.v = Ok(c) /\ s.fp = h /\ (s.done <=> c.val = 0)
  <2>1. PICK t : t = (c.val = 0)
    OBVIOUS
  <2>2. s = SAt(c, h, ofs, t)
    BY <1>5, <1>7, <2>1 DEF STop
  <2>3. IsSeek(s) /\ s.v = Ok(c) /\ s.fp = h /\ s.done = t
    BY <2>2, SAtIs
  <2> QED BY <2>1, <2>3, Zenon
<1>8. CASE f.org_clust # 0
  <2>1. c = Val(v, f.org_clust)
    BY <1>4, <1>8
  <2>2. Base(c, ch, x, g) /\ Still(v, c) /\ Same(v, c) /\ c.val = f.org_clust
    BY <1>1, <2>1, BaseResult, Results
  <2>3. ch[n] # <<>> /\ c.val = ch[n][1]
    BY <1>1, <1>8, <2>2 DEF Extent, Holds, n
  <2>4. s = STop(f, c, ofs)
    BY <1>4, <1>8
  <2>5. Tabled(v, c) /\ SameClusters(f, h)
    BY <1>6, <2>2, SameTabled DEF SameClusters
  <2>6. Base(Ok(c), ch, x, g) /\ FileOf(Ok(c), h, ch) /\ Still(c, Ok(c))
    BY <1>6, <2>2, <2>5, FileMoved
  <2>7. 1 \in 1..Len(ch[n])
    BY <1>2, <2>3
  <2>8. AtCluster(h, ch[n])
    BY <1>3, <1>6, <2>3, <2>7 DEF AtCluster
  <2>9. ~s.done /\ IsSeek(s) /\ s.v = Ok(c) /\ s.fp = h
    BY <1>7, <1>8, <2>2, <2>4
  <2>10. SeekFine(s, f, x, g)
    BY <1>6, <2>6, <2>8, <2>9 DEF SeekFine, Arrived, n
  <2>11. Still(v, s.v)
    BY <2>2, <2>6, <2>9, StillTrans
  <2> QED BY <2>9, <2>10, <2>11 DEF Seeking
<1>9. CASE f.org_clust = 0
  <2>1. ch[n] = <<>> /\ Len(ch[n]) = 0
    <3>1. ASSUME ch[n] # <<>> PROVE FALSE
      <4>1. ch[n][1] \in Clusters /\ f.org_clust = ch[n][1]
        BY <1>1, <1>2, <3>1, EmptySeq DEF Extent, Holds, n
      <4> QED BY <1>9, <4>1, NoClusters
    <3> QED BY <3>1
  <2>2. c = create_chain(v, 0)
    BY <1>4, <1>9
  <2>3. /\ Base(c, ch, x, g) /\ Still(v, c) /\ Same(v, c)
        /\ c.val \in Clusters \cup {0, 1, NoValue}
        /\ c.val \in Clusters => ~Owned(ch, c.val) /\ FatOf(Flushed(c))[c.val] = LastLink
        /\ c.val \in {1, NoValue} => c.hit
    BY <2>2, CreateFirst
  <2>4. Tree(Flushed(c), ch, x) /\ IsVol(c) /\ Tabled(v, c)
    BY <2>3, BaseFacts, SameTabled
  <2>5. Still(v, Ok(c)) /\ Still(c, Ok(c))
    BY <2>3, <2>4, Results, StillTrans
  <2>6. f.fsize = 0 /\ h.fsize = 0
    BY <1>1, <1>3, <1>6, <2>1 DEF Extent, Holds, SameSize, n
  <2>7. CASE c.val \in Clusters
    <3>1. s = STop(f, c, ofs) /\ c.val # 0
      BY <1>4, <2>7, NoClusters, Zenon
    <3>2. PICK ch2 : ch2 = [ch EXCEPT ![n] = <<c.val>>]
      BY Zenon
    <3>3. Tree(Flushed(c), ch2, x)
      BY <1>1, <2>1, <2>3, <2>4, <2>7, <3>2, FileBegin, Zenon DEF n
    <3>4. ch2[n] = <<c.val>> /\ Dir(ch2) = Dir(ch)
      BY <1>1, <3>2 DEF Layouts, Dir, n
    <3>5. g => x = {}
      BY <2>3 DEF Base
    <3>6. Base(c, ch2, x, g)
      BY <2>3, <3>3, <3>4, <3>5, BaseLayout
    <3>7. Base(Ok(c), ch2, x, g)
      BY <3>6, BaseResult
    <3>8. Len(ch2[n]) = 1 /\ ch2[n][1] = c.val /\ ch2[n] # <<>> /\ 1 \in 1..Len(ch2[n])
      BY <3>4
    <3>9. Extent(h, ch2)
      <4>1. Holds(h, ch2[h.name])
        BY <1>3, <1>6, <2>6, <3>8 DEF Holds
      <4>2. OffTable(h, ch2)
        <5>1. SUFFICES ASSUME h.dirty
                       PROVE  \E d \in Clusters : /\ h.dsect = clust2sect(d)
                                                 /\ \A k \in 1..Len(Dir(ch2)) : Dir(ch2)[k] # d
          BY DEF OffTable
        <5>2. f.dirty /\ h.dsect = f.dsect
          BY <1>6, <5>1 DEF SameBuffer
        <5> QED BY <1>1, <2>1, <3>4, <5>2 DEF Extent, OffTable, n
      <4> QED BY <4>1, <4>2 DEF Extent
    <3>10. Entered(Ok(c), h, ch2)
      <4>1. Entered(c, f, ch)
        BY <1>1, <2>4, EnteredTabled
      <4>2. Tabled(c, Ok(c))
        BY <2>3, BaseResult, SameTabled, Zenon
      <4>3. Entered(Ok(c), f, ch)
        BY <2>3, <4>1, <4>2, EnteredTabled
      <4>4. Entered(Ok(c), f, ch2)
        BY <3>4, <4>3, EnteredLayout
      <4>5. f.dir = h.dir /\ f.name = h.name
        BY <1>6 DEF Kin
      <4> QED BY <4>4, <4>5 DEF Entered
    <3>11. FileOf(Ok(c), h, ch2)
      BY <1>1, <1>6, <3>9, <3>10 DEF FileOf
    <3>12. AtCluster(h, ch2[n])
      BY <1>3, <1>6, <3>8 DEF AtCluster
    <3>13. ~s.done /\ IsSeek(s) /\ s.v = Ok(c) /\ s.fp = h
      BY <1>7, <3>1
    <3>14. SeekFine(s, f, x, g)
      BY <1>6, <3>7, <3>11, <3>12, <3>13 DEF SeekFine, Arrived, n
    <3> QED BY <2>5, <3>13, <3>14 DEF Seeking
  <2>8. CASE c.val = 0
    <3>1. s = STop(f, c, ofs)
      <4>1. c.val \notin {1, NoValue}
        BY <2>8, NoClusters
      <4> QED BY <1>4, <4>1
    <3>2. SameClusters(f, h)
      BY <1>6, <1>9, <2>8 DEF SameClusters
    <3>3. Base(Ok(c), ch, x, g) /\ FileOf(Ok(c), h, ch)
      BY <1>6, <2>3, <2>4, <3>2, FileMoved
    <3>4. Within(h, ch[n])
      BY <1>6 DEF Within
    <3>5. s.done /\ IsSeek(s) /\ s.v = Ok(c) /\ s.fp = h
      BY <1>7, <2>8, <3>1
    <3>6. SeekFine(s, f, x, g)
      BY <1>6, <3>3, <3>4, <3>5 DEF SeekFine, Arrived, n
    <3> QED BY <2>5, <3>5, <3>6 DEF Seeking
  <2>9. CASE c.val \in {1, NoValue}
    <3>1. s = Abort(SAt(c, FpAt(f, 0), 0, TRUE), ErrorOf(c.val))
      BY <1>4, <1>9, <2>9, Zenon
    <3>2. PICK a, b, t : t = TRUE /\ b = FpAt(f, 0) /\ a = SAt(c, b, 0, t)
      OBVIOUS
    <3>3. IsSeek(a) /\ a.v = Ok(c)
      <4>1. a = SAt(c, b, 0, t) /\ 0 \in Nat
        BY <3>2
      <4> QED BY <4>1, SAtIs
    <3>4. Rest(a, s) /\ s.v = Err(Ok(c), ErrorOf(c.val)) /\ s.fp = FpErr(b) /\ s.done
      <4>1. a = SAt(c, b, 0, t) /\ 0 \in Nat
        BY <3>2
      <4>2. a.fp = b
        BY <4>1, SAtIs
      <4>3. InLoop(a)
        BY <3>3, SeekLoopIn
      <4>4. PICK er : er = ErrorOf(c.val)
        OBVIOUS
      <4>5. s = Abort(a, er)
        BY <3>1, <3>2, <4>4
      <4> QED BY <3>3, <4>2, <4>3, <4>4, <4>5, AbortIs
    <3>5. IsSeek(s)
      BY <3>3, <3>4, SeekLoopIn
    <3>6. Kin(f, b) /\ SameSize(f, b) /\ SameClusters(f, b) /\ SameBuffer(f, b) /\ IsFp(b) /\ b.name = n
      BY <1>1, <3>2, FpAtIs DEF Kin, n
    <3>7. Base(Ok(c), ch, x, g) /\ FileOf(Ok(c), b, ch) /\ IsVol(Ok(c))
      BY <2>3, <2>4, <3>6, FileMoved, BaseFacts
    <3>8. Base(s.v, ch, x, g) /\ Still(Ok(c), s.v) /\ Tabled(Ok(c), s.v)
      <4>1. Base(s.v, ch, x, g) /\ Still(Ok(c), s.v) /\ Same(Ok(c), s.v)
        BY <3>4, <3>7, BaseResult
      <4> QED BY <4>1, SameTabled
    <3>9. FileOf(s.v, b, ch)
      BY <3>7, <3>8, FileTabled
    <3>10. /\ Kin(b, s.fp) /\ SameSize(b, s.fp) /\ SameClusters(b, s.fp) /\ SameBuffer(b, s.fp) /\ s.fp.error
      BY <3>4, <3>6, FpErrIs
    <3>11. Extent(s.fp, ch)
      BY <3>9, <3>10, ExtentSame DEF FileOf
    <3>12. FileOf(s.v, s.fp, ch)
      BY <3>9, <3>10, <3>11, FileKin
    <3>13. Kin(f, s.fp) /\ SameSize(f, s.fp)
      BY <3>6, <3>10, KinTrans DEF SameSize
    <3>14. SeekFine(s, f, x, g)
      BY <3>4, <3>8, <3>10, <3>12, <3>13 DEF SeekFine, Arrived
    <3>15. Still(v, s.v)
      BY <2>5, <3>8, StillTrans
    <3> QED BY <3>5, <3>14, <3>15 DEF Seeking
  <2> QED BY <2>3, <2>7, <2>8, <2>9
<1> QED BY <1>8, <1>9

LEMMA SeekStarts ==
  ASSUME NEW v, NEW ch, NEW x, NEW g, Base(v, ch, x, g), Cutting(v), NEW f, FileOf(v, f, ch),
         Position(f, ch[f.name]), ~f.error, NEW ofs \in Nat, NEW s, s = SeekFrom(v, f, ofs)
  PROVE  Seeking(s, v, f, x, g)
<1>1. IsFp(f) /\ IsVol(v) /\ f.fptr \in Nat /\ Extent(f, ch)
  BY BaseFacts DEF FileOf, IsFp
<1>2. Tabled(v, v)
  BY SameFlushed, SameTabled
<1>3. ASSUME NEW h, NEW o \in Nat, NEW t, s = SAt(v, h, o, t), NEW a \in Nat, h = FpAt(f, a),
             IF t THEN a = 0 ELSE AtCluster(h, ch[f.name])
      PROVE  Seeking(s, v, f, x, g)
  <2>1. IsSeek(s) /\ s.v = Ok(v) /\ s.fp = h /\ s.done = t
    BY <1>3, SAtIs
  <2>2. /\ Kin(f, h) /\ SameSize(f, h) /\ SameClusters(f, h) /\ SameError(f, h) /\ SameBuffer(f, h) /\ h.fptr = a /\ ~h.error
    BY <1>1, <1>3, FpAtIs DEF SameError
  <2>3. Base(Ok(v), ch, x, g) /\ FileOf(Ok(v), h, ch) /\ Still(v, Ok(v))
    BY <1>2, <2>2, FileMoved
  <2>4. Arrived(s, ch[f.name])
    <3>1. CASE t
      <4>1. a = 0
        BY <1>3, <3>1
      <4>2. Within(h, ch[f.name])
        BY <2>2, <4>1 DEF Within
      <4>3. s.done
        BY <2>1, <3>1
      <4> QED BY <2>1, <4>2, <4>3 DEF Arrived
    <3>2. CASE ~t
      BY <1>3, <2>1, <2>2, <3>2 DEF Arrived
    <3> QED BY <3>1, <3>2
  <2> QED BY <2>1, <2>2, <2>3, <2>4 DEF Seeking, SeekFine
<1>4. CASE ofs = 0
  <2>1. PICK t, h : t = TRUE /\ h = FpAt(f, 0)
    OBVIOUS
  <2>2. s = SAt(v, h, 0, t)
    BY <1>1, <1>4, <2>1, SeekFromIs, Zenon
  <2> QED BY <1>3, <2>1, <2>2, Zenon
<1>5. CASE ofs > 0 /\ NearOf(f, ofs)
  <2>1. PICK t, h : t = FALSE /\ h = FpAt(f, BaseOf(f))
    OBVIOUS
  <2>2. s = SAt(v, h, ofs - BaseOf(f), t)
    BY <1>1, <1>5, <2>1, SeekFromIs, Zenon
  <2>3. f.fptr > 0 /\ (ofs - 1) \div SectorPieces >= (f.fptr - 1) \div SectorPieces
    BY <1>5 DEF NearOf
  <2>4. /\ BaseOf(f) \in Nat /\ ofs - BaseOf(f) \in Nat
        /\ \A k \in Nat : f.fptr <= k * SectorPieces => BaseOf(f) + SectorPieces <= k * SectorPieces
    <3>1. PICK b : b = ((f.fptr - 1) \div SectorPieces) * SectorPieces
      OBVIOUS
    <3>2. /\ b \in Nat
          /\ \A k \in Nat : f.fptr <= k * SectorPieces => b + SectorPieces <= k * SectorPieces
          /\ \A o \in Nat : o > 0 /\ (o - 1) \div SectorPieces >= (f.fptr - 1) \div SectorPieces => o - b \in Nat
      BY <1>1, <2>3, <3>1, RoundDown
    <3>3. BaseOf(f) = b
      BY <3>1 DEF BaseOf
    <3>4. ofs - b \in Nat
      BY <1>5, <2>3, <3>2, Zenon
    <3> QED BY <3>2, <3>3, <3>4
  <2>5. PICK k \in 1..Len(ch[f.name]) : f.curr_clust = ch[f.name][k] /\ f.fptr <= k * SectorPieces
    BY <2>3 DEF Position, Within
  <2>6. BaseOf(f) + SectorPieces <= k * SectorPieces
    BY <2>4, <2>5
  <2>7. h.curr_clust = f.curr_clust /\ h.fptr = BaseOf(f)
    BY <1>1, <2>1, <2>4, FpAtIs DEF SameCurr
  <2>8. AtCluster(h, ch[f.name])
    BY <2>5, <2>6, <2>7 DEF AtCluster
  <2>9. IF t THEN BaseOf(f) = 0 ELSE AtCluster(h, ch[f.name])
    BY <2>1, <2>8
  <2> QED BY <1>3, <2>1, <2>2, <2>4, <2>9
<1>6. CASE ofs > 0 /\ ~NearOf(f, ofs)
  <2>1. SeekTop(v, f, ofs, s)
    BY <1>1, <1>6, SeekFromIs, Zenon
  <2> QED BY <1>6, <2>1, SeekStartsTop
<1> QED BY <1>4, <1>5, <1>6

LEMMA Seeks ==
  ASSUME NEW v, NEW ch, NEW x, NEW g, Base(v, ch, x, g), Cutting(v), NEW f, FileOf(v, f, ch),
         Position(f, ch[f.name]), ~f.error, NEW ofs \in Nat, NEW q, q = SeekLoop(SeekFrom(v, f, ofs), ofs)
  PROVE  Seeking(q, v, f, x, g) \/ Swept(q, v)
<1>1. PICK s : s = SeekFrom(v, f, ofs)
  OBVIOUS
<1>2. PICK h : Rows(h, "seek", 0, s, ofs + 1) /\ q = h[ofs + 1]
  BY <1>1, SeekRows
<1> DEFINE n == ofs + 1
           I == {i \in 0..n : Seeking(h[i], v, f, x, g) \/ Swept(h[i], v)}
<1>3. n \in Nat
  OBVIOUS
<1>4. 0 \in I
  <2>1. h[0] = s
    BY <1>2 DEF Rows
  <2>2. Seeking(s, v, f, x, g)
    BY <1>1, SeekStarts
  <2> QED BY <2>1, <2>2
<1>5. ASSUME NEW i \in 1..n, i - 1 \in I PROVE i \in I
  <2> DEFINE p == h[i - 1]
  <2>1. h[i] = IF p.done THEN p ELSE SeekStep(p)
    BY <1>2 DEF Rows, StepOf
  <2>2. Seeking(p, v, f, x, g) \/ Swept(p, v)
    BY <1>5
  <2> HIDE DEF p
  <2>3. Seeking(h[i], v, f, x, g) \/ Swept(h[i], v)
    <3>1. CASE p.done
      BY <2>1, <2>2, <3>1
    <3>2. CASE ~p.done /\ Seeking(p, v, f, x, g)
      BY <2>1, <3>2, SeekStepKeeps
    <3>3. CASE ~p.done /\ Swept(p, v)
      BY <2>1, <3>3, SweptStep
    <3> QED BY <2>2, <3>1, <3>2, <3>3
  <2> QED BY <2>3
<1>6. 0..n \subseteq I
  <2> HIDE DEF I, n
  <2> QED BY <1>3, <1>4, <1>5, UpTo
<1> QED BY <1>2, <1>6

(* After the seek, the sector is in the buffer. *)
Filling(p, r) ==
  LET sect == clust2sect(p.fp.curr_clust)
  IN CASE p.fp.fptr % SectorPieces = 0 \/ (sect = p.fp.dsect /\ sect # 0) -> r = p
       [] p.fp.fptr % SectorPieces # 0 /\ sect = 0 -> r = Abort(p, "INT_ERR")
       [] OTHER -> r = FlushFill(p, sect)

LEMMA SeekFillIs ==
  ASSUME NEW p, NEW r, r = SeekFill(p)
  PROVE  Filling(p, r)
BY Zenon DEF SeekFill, Filling, FlushFill, OnTransfer

LEMMA SeekFills ==
  ASSUME NEW p, InLoop(p), ~p.fp.error, NEW ch, NEW x, NEW g, Base(p.v, ch, x, g), FileOf(p.v, p.fp, ch),
         Within(p.fp, ch[p.fp.name]), NEW r, r = SeekFill(p)
  PROVE  /\ InLoop(r) /\ Still(p.v, r.v) /\ Kin(p.fp, r.fp) /\ SameSize(p.fp, r.fp) /\ SamePlace(p.fp, r.fp)
         /\ Fine(r.v, r.fp, x, g)
<1> DEFINE sect == clust2sect(p.fp.curr_clust)
<1>1. Filling(p, r)
  BY SeekFillIs
<1>2. IsFp(p.fp) /\ IsVol(p.v) /\ p.fp.fptr \in Nat
  BY BaseFacts DEF FileOf, IsFp
<1>3. CASE r = p /\ (p.fp.fptr % SectorPieces = 0 \/ sect = p.fp.dsect)
  <2>1. Buffered(p.fp)
    BY <1>3 DEF Buffered
  <2>2. Fine(r.v, r.fp, x, g)
    BY <1>3, <2>1 DEF Fine, Position
  <2>3. Still(p.v, p.v) /\ Kin(p.fp, p.fp)
    BY <1>2, VolStill, KinSelf
  <2> QED BY <1>3, <2>2, <2>3 DEF SameSize, SamePlace
<1>4. CASE r = Abort(p, "INT_ERR")
  <2>1. InLoop(r) /\ r.v = Err(p.v, "INT_ERR") /\ r.fp = FpErr(p.fp)
    BY <1>4, AbortIs
  <2>2. Base(r.v, ch, x, g) /\ Still(p.v, r.v) /\ Same(p.v, r.v)
    BY <2>1, BaseResult
  <2>3. FileOf(r.v, p.fp, ch)
    BY <2>2, SameTabled, FileTabled
  <2>4. Fine(r.v, r.fp, x, g)
    BY <2>1, <2>2, <2>3, FineErr
  <2> QED BY <1>2, <2>1, <2>2, <2>4, FpErrIs
<1>5. CASE r = FlushFill(p, sect)
  <2>1. /\ InLoop(r) /\ Rest(p, r) /\ Still(p.v, r.v) /\ Kin(p.fp, r.fp) /\ SameSize(p.fp, r.fp) /\ SamePlace(p.fp, r.fp)
        /\ Failing(r, x, g) \/ Filled(p, r, ch, x, g, sect)
    <3> HIDE DEF sect
    <3> QED BY <1>5, FlushFills
  <2>2. CASE Failing(r, x, g)
    BY <2>1, <2>2 DEF Failing
  <2>3. CASE Filled(p, r, ch, x, g, sect)
    <3>1. Base(r.v, ch, x, g) /\ FileOf(r.v, r.fp, ch) /\ r.fp.curr_clust = p.fp.curr_clust /\ r.fp.dsect = sect
      BY <2>3 DEF Filled, SameCurr
    <3>2. r.fp.fptr = p.fp.fptr /\ r.fp.name = p.fp.name
      BY <2>1 DEF SamePlace, Kin
    <3>3. Within(r.fp, ch[r.fp.name])
      BY <3>1, <3>2 DEF Within
    <3>4. Buffered(r.fp)
      BY <3>1 DEF Buffered
    <3>5. Fine(r.v, r.fp, x, g)
      BY <3>1, <3>3, <3>4 DEF Fine, Position
    <3> QED BY <2>1, <3>5
  <2> QED BY <2>1, <2>2, <2>3
<1> QED BY <1>1, <1>3, <1>4, <1>5 DEF Filling

LEMMA AnySeekFill ==
  ASSUME NEW p, InLoop(p), IsVol(p.v), NEW r, r = SeekFill(p)
  PROVE  Onward(p, r)
<1> DEFINE sect == clust2sect(p.fp.curr_clust)
<1>1. Filling(p, r)
  BY SeekFillIs
<1>2. CASE r = p
  BY <1>2, VolStill DEF Onward
<1>3. CASE r = Abort(p, "INT_ERR")
  BY <1>3, AnyAbort
<1>4. CASE r = FlushFill(p, sect)
  <2>1. PICK w : w = FlushBuf(p.v, p.fp)
    OBVIOUS
  <2>2. PICK a : a = SetV(p, w)
    OBVIOUS
  <2>3. Still(p.v, w)
    BY <2>1, AnyFlush
  <2>4. Onward(p, a) /\ a.v = w /\ IsVol(w)
    BY <2>2, <2>3, AnySet
  <2>5. r = IF w.res = "OK" THEN Fill(Cleaned(a), sect, TRUE) ELSE Abort(a, "DISK_ERR")
    BY <1>4, <2>1, <2>2 DEF FlushFill, SetV
  <2>6. InLoop(a) /\ IsVol(a.v)
    BY <2>4 DEF Onward
  <2>7. CASE w.res # "OK"
    <3>1. Onward(a, r)
      BY <2>5, <2>6, <2>7, AnyAbort
    <3> QED BY <2>4, <3>1, OnwardTrans
  <2>8. CASE w.res = "OK"
    <3>1. PICK b : b = SetFp(a, FpClean(a.fp))
      OBVIOUS
    <3>2. Onward(a, b) /\ b.v = a.v
      BY <2>6, <3>1, AnyPut
    <3>3. Cleaned(a) = b
      BY <2>6, <3>1, CleanedIs
    <3>4. InLoop(b) /\ IsVol(b.v)
      BY <2>6, <3>2 DEF Onward
    <3>5. PICK t : t = TRUE
      OBVIOUS
    <3>6. r = Fill(b, sect, t)
      BY <2>5, <2>8, <3>3, <3>5
    <3>7. Onward(b, r)
      <4> HIDE DEF sect
      <4> QED BY <3>4, <3>6, AnyFill
    <3> QED BY <2>4, <3>2, <3>7, OnwardTrans
  <2> QED BY <2>7, <2>8
<1> QED BY <1>1, <1>2, <1>3, <1>4 DEF Filling

LEMMA SeekFillLost ==
  ASSUME NEW p, InLoop(p), NEW g, Lost(p.v, g), NEW r, r = SeekFill(p)
  PROVE  InLoop(r) /\ Still(p.v, r.v) /\ Lost(r.v, g)
<1> DEFINE sect == clust2sect(p.fp.curr_clust)
<1>1. Filling(p, r)
  BY SeekFillIs
<1>2. IsVol(p.v) /\ Still(p.v, p.v)
  BY VolStill DEF Lost, Sane
<1>3. CASE r = p
  BY <1>2, <1>3
<1>4. CASE r = Abort(p, "INT_ERR")
  <2>1. InLoop(r) /\ r.v = Err(p.v, "INT_ERR")
    BY <1>4, AbortIs
  <2> QED BY <2>1, LostResult
<1>5. CASE r = FlushFill(p, sect)
  <2>1. PICK w : w = FlushBuf(p.v, p.fp)
    OBVIOUS
  <2>2. Lost(w, g) /\ Still(p.v, w)
    BY <2>1, LostFlush
  <2>3. PICK a : a = [p EXCEPT !.v = w]
    BY Zenon
  <2>4. InLoop(a) /\ a.v = w
    BY <2>3 DEF InLoop
  <2>5. r = IF w.res = "OK" THEN Fill(Cleaned(a), sect, TRUE) ELSE Abort(a, "DISK_ERR")
    BY <1>5, <2>1, <2>3 DEF FlushFill
  <2>6. CASE w.res # "OK"
    <3>1. InLoop(r) /\ r.v = Err(w, "DISK_ERR")
      BY <2>4, <2>5, <2>6, AbortIs
    <3>2. Lost(r.v, g) /\ Still(w, r.v)
      BY <2>2, <3>1, LostResult
    <3> QED BY <2>2, <3>1, <3>2, StillTrans
  <2>7. CASE w.res = "OK"
    <3>1. PICK b : b = Cleaned(a)
      OBVIOUS
    <3>2. InLoop(b) /\ b.v = w
      BY <2>4, <3>1 DEF Cleaned, InLoop
    <3>3. PICK t : t = TRUE
      OBVIOUS
    <3>4. r = Fill(b, sect, t)
      BY <2>5, <2>7, <3>1, <3>3
    <3>5. PICK u : u = disk_read(b.v)
      OBVIOUS
    <3>6. Lost(u, g) /\ Still(w, u) /\ u.res # "OK"
      <4>1. Lost(u, g) /\ Still(w, u) /\ u.res = "DISK_ERR"
        BY <2>2, <3>2, <3>5, LostRead
      <4> QED BY <4>1
    <3>7. InLoop(r) /\ (r.v = w \/ r.v = Err(u, "DISK_ERR"))
      <4>1. CASE b.fp.dsect = sect
        <5>1. r = [b EXCEPT !.fp.dsect = sect]
          BY <3>4, <4>1 DEF Fill
        <5> QED BY <3>2, <5>1 DEF InLoop
      <4>2. CASE b.fp.dsect # sect
        <5>1. r = Abort(SetV(b, u), "DISK_ERR")
          BY <3>3, <3>4, <3>5, <3>6, <4>2 DEF Fill, OnTransfer, SetV
        <5>2. PICK c : c = SetV(b, u)
          OBVIOUS
        <5>3. InLoop(c) /\ c.v = u
          BY <3>2, <5>2, SetVIs
        <5> QED BY <5>1, <5>2, <5>3, AbortIs
      <4> QED BY <4>1, <4>2
    <3>8. Lost(r.v, g) /\ Still(w, r.v)
      <4>1. CASE r.v = w
        BY <2>2, <4>1, VolStill DEF Lost, Sane
      <4>2. CASE r.v = Err(u, "DISK_ERR")
        BY <3>6, <4>2, LostResult, StillTrans
      <4> QED BY <3>7, <4>1, <4>2
    <3> QED BY <2>2, <3>7, <3>8, StillTrans
  <2> QED BY <2>6, <2>7
<1> QED BY <1>1, <1>3, <1>4, <1>5 DEF Filling

(* The file has grown to z. *)
FpGrown(f, z) == [f EXCEPT !.fsize = z, !.written = TRUE]

LEMMA FpGrownIs ==
  ASSUME NEW f, IsFp(f), NEW z \in Nat, NEW h, h = FpGrown(f, z)
  PROVE  /\ IsFp(h) /\ h.name = f.name /\ h.dir = f.dir /\ h.write = f.write /\ (h.open <=> f.open) /\ h.written
         /\ SamePlace(f, h) /\ SameClusters(f, h) /\ SameBuffer(f, h) /\ SameCurr(f, h) /\ SameError(f, h)
         /\ h.fsize = z
<1>1. DOMAIN h = DOMAIN f /\ h.fsize = z
  BY DEF FpGrown, IsFp
<1>2. \A a \in DOMAIN f \ {"fsize", "written"} : h[a] = f[a]
  BY Zenon DEF FpGrown
<1>3. h.written
  BY DEF FpGrown, IsFp
<1>4. h.name = f.name /\ h.dir = f.dir /\ h.fptr = f.fptr /\ h.org_clust = f.org_clust /\ h.curr_clust = f.curr_clust
      /\ h.dsect = f.dsect /\ h.write = f.write
  BY <1>2 DEF IsFp
<1>5. h.open = f.open /\ h.dirty = f.dirty /\ h.error = f.error
  BY <1>2 DEF IsFp
<1>6. IsFp(h)
  BY <1>1, <1>4 DEF IsFp
<1> QED BY <1>1, <1>3, <1>4, <1>5, <1>6 DEF SamePlace, SameClusters, SameBuffer, SameCurr, SameError

(* It is the same file, more of it to be saved perhaps. *)
Grew(q, p) ==
  /\ IsFp(p) /\ p.name = q.name /\ p.dir = q.dir /\ p.write = q.write
  /\ (p.open <=> q.open) /\ (q.written => p.written)

LEMMA KinGrew ==
  ASSUME NEW f, NEW h, Kin(f, h)
  PROVE  Grew(f, h)
BY DEF Kin, Grew

(* It does not stand behind its end. *)
InFile(p) == p.error \/ p.fptr <= p.fsize

LEMMA GrowFine ==
  ASSUME NEW v, NEW f, NEW x, NEW g, Fine(v, f, x, g), ~f.error, NEW z \in {f.fptr, f.fsize}, NEW h, h = FpGrown(f, z)
  PROVE  Fine(v, h, x, g) /\ Grew(f, h) /\ (f.fptr <= z => InFile(h))
<1>1. PICK ch : Base(v, ch, x, g) /\ FileOf(v, f, ch) /\ Position(f, ch[f.name])
  BY DEF Fine
<1> DEFINE q == ch[f.name]
<1>2. IsFp(f) /\ f.name \in Names /\ Extent(f, ch) /\ Holds(f, q) /\ Entered(v, f, ch) /\ Within(f, q) /\ f.fptr \in Nat /\ f.fsize \in Nat /\ z \in Nat
  BY <1>1 DEF FileOf, Position, IsFp, Extent
<1>3. q \in Seq(Clusters) /\ Len(q) \in Nat
  BY <1>1, <1>2, BaseFacts, LayoutFacts
<1> HIDE DEF q
<1>4. /\ IsFp(h) /\ h.name = f.name /\ h.dir = f.dir /\ h.write = f.write /\ (h.open <=> f.open) /\ h.written
      /\ SamePlace(f, h) /\ SameClusters(f, h) /\ SameBuffer(f, h) /\ SameCurr(f, h) /\ SameError(f, h)
      /\ h.fsize = z
  <2>1. IsFp(f) /\ z \in Nat
    BY <1>2
  <2>2. PICK y \in Nat : y = z
    BY <2>1
  <2>3. h = FpGrown(f, y)
    BY <2>2
  <2> QED BY <2>1, <2>2, <2>3, FpGrownIs
<1>5. z <= Len(q) * SectorPieces
  <2>1. Len(q) * SectorPieces \in Nat
    BY <1>3, Products
  <2>2. f.fptr <= Len(q) * SectorPieces
    <3>1. CASE f.fptr = 0
      BY <2>1, <3>1
    <3>2. CASE f.fptr > 0
      <4>1. PICK k \in 1..Len(q) : f.fptr <= k * SectorPieces
        BY <1>2, <3>2 DEF Within
      <4>2. k \in Nat /\ k <= Len(q)
        BY <1>3
      <4>3. k * SectorPieces <= Len(q) * SectorPieces /\ k * SectorPieces \in Nat
        BY <1>3, <4>2, Products
      <4> QED BY <1>2, <2>1, <4>1, <4>3
    <3> QED BY <1>2, <3>1, <3>2
  <2> QED BY <1>2, <2>2 DEF Holds
<1>6. Extent(h, ch)
  <2>1. Holds(h, ch[h.name])
    BY <1>2, <1>4, <1>5 DEF Holds, SameClusters, q
  <2>2. OffTable(h, ch)
    BY <1>2, <1>4 DEF Extent, OffTable, SameBuffer
  <2> QED BY <2>1, <2>2 DEF Extent
<1>7. Entered(v, h, ch)
  BY <1>2, <1>4 DEF Entered
<1>8. FileOf(v, h, ch)
  BY <1>2, <1>4, <1>6, <1>7 DEF FileOf, q
<1>9. Position(h, q)
  BY <1>1, <1>4, PositionSame DEF SameBuffer, q
<1>10. f.fptr <= z => InFile(h)
  BY <1>4 DEF InFile, SamePlace
<1> QED BY <1>1, <1>4, <1>8, <1>9, <1>10 DEF Fine, Grew, q

(* f_lseek, which stretches the file, leaves the volume a layout to which the *)
(* file fits, whatever transfer was refused; or the card is gone, and was     *)
(* sound when it went; or create_chain passed over an error, which lost says. *)
THEOREM SeeksTo ==
  ASSUME NEW v, NEW ch, NEW x, NEW g, Base(v, ch, x, g), Cutting(v), NEW f, FileOf(v, f, ch),
         Position(f, ch[f.name]), ~f.error, NEW ofs \in Nat, NEW r, r = SeekTo(v, f, ofs)
  PROVE  /\ Still(v, r.v)
         /\ (Fine(r.v, r.fp, x, g) /\ Grew(f, r.fp) /\ InFile(r.fp)) \/ Lost(r.v, g) \/ Astray(r.v)
<1>1. PICK q : q = SeekLoop(SeekFrom(v, f, ofs), ofs)
  OBVIOUS
<1>2. PICK u : u = IF q.fp.error THEN q ELSE SeekFill(q)
  OBVIOUS
<1>3. r = IF u.fp.error \/ u.fp.fptr <= u.fp.fsize THEN u
          ELSE [u EXCEPT !.fp.fsize = u.fp.fptr, !.fp.written = TRUE]
  BY <1>1, <1>2 DEF SeekTo, Unless
<1>4. Seeking(q, v, f, x, g) \/ Swept(q, v)
  BY <1>1, Seeks
<1>5. InLoop(q) /\ Still(v, q.v)
  BY <1>4, SeekLoopIn DEF Seeking, Swept
<1>6. InLoop(u) /\ Still(v, u.v) /\ ((Fine(u.v, u.fp, x, g) /\ Kin(f, u.fp)) \/ Lost(u.v, g) \/ Astray(u.v))
  <2>1. CASE Lost(q.v, g)
    <3>1. CASE q.fp.error
      BY <1>2, <1>5, <2>1, <3>1
    <3>2. CASE ~q.fp.error
      <4>1. u = SeekFill(q)
        BY <1>2, <3>2
      <4>2. InLoop(u) /\ Still(q.v, u.v) /\ Lost(u.v, g)
        BY <1>5, <2>1, <4>1, SeekFillLost
      <4> QED BY <1>5, <4>2, StillTrans
    <3> QED BY <3>1, <3>2
  <2>2. CASE SeekFine(q, f, x, g)
    <3>1. PICK ch2 : /\ Base(q.v, ch2, x, g) /\ FileOf(q.v, q.fp, ch2) /\ Kin(f, q.fp) /\ SameSize(f, q.fp)
                     /\ Arrived(q, ch2[f.name])
      BY <2>2 DEF SeekFine
    <3>2. f.name = q.fp.name
      BY <3>1 DEF Kin
    <3>3. CASE q.fp.error
      <4>1. Fine(q.v, q.fp, x, g)
        BY <3>1, <3>3 DEF Fine, Position
      <4> QED BY <1>2, <1>5, <3>1, <3>3, <4>1
    <3>4. CASE ~q.fp.error
      <4>1. Within(q.fp, ch2[q.fp.name])
        <5>1. CASE q.done
          BY <3>1, <3>2, <3>4, <5>1 DEF Arrived
        <5>2. CASE ~q.done
          <6>1. PICK k \in 1..Len(ch2[f.name]) : q.fp.curr_clust = ch2[f.name][k] /\ q.fp.fptr + SectorPieces <= k * SectorPieces
            BY <3>1, <5>2 DEF Arrived, AtCluster
          <6>2. q.fp.fptr \in Nat /\ SectorPieces \in Nat /\ k \in Nat
            BY <3>1, VolumeAssumption DEF FileOf, IsFp
          <6>3. k * SectorPieces \in Nat
            BY <6>2, Products
          <6>4. q.fp.fptr <= k * SectorPieces
            BY <6>1, <6>2, <6>3
          <6> QED BY <3>2, <6>1, <6>4 DEF Within
        <5> QED BY <5>1, <5>2
      <4>2. u = SeekFill(q)
        BY <1>2, <3>4
      <4>3. InLoop(u) /\ Still(q.v, u.v) /\ Kin(q.fp, u.fp) /\ Fine(u.v, u.fp, x, g)
        BY <1>5, <3>1, <3>4, <4>1, <4>2, SeekFills
      <4> QED BY <1>5, <3>1, <4>3, StillTrans, KinTrans
    <3> QED BY <3>3, <3>4
  <2>3. CASE Swept(q, v)
    <3>1. Astray(q.v) /\ IsVol(q.v)
      BY <2>3 DEF Swept, Astray
    <3>2. CASE q.fp.error
      BY <1>2, <1>5, <3>1, <3>2
    <3>3. CASE ~q.fp.error
      <4>1. Onward(q, u)
        BY <1>2, <1>5, <3>1, <3>3, AnySeekFill
      <4>2. Astray(u.v) /\ InLoop(u)
        BY <3>1, <4>1, OnwardStrayed DEF Onward
      <4> QED BY <1>5, <4>1, <4>2, StillTrans DEF Onward
    <3> QED BY <3>2, <3>3
  <2> QED BY <1>4, <2>1, <2>2, <2>3 DEF Seeking
<1>7. CASE u.fp.error \/ u.fp.fptr <= u.fp.fsize
  BY <1>3, <1>6, <1>7, KinGrew DEF InFile
<1>8. CASE ~(u.fp.error \/ u.fp.fptr <= u.fp.fsize)
  <2>1. r = [u EXCEPT !.fp.fsize = u.fp.fptr, !.fp.written = TRUE]
    BY <1>3, <1>8
  <2>2. r.v = u.v /\ r.fp = FpGrown(u.fp, u.fp.fptr)
    BY <1>6, <2>1 DEF InLoop, FpGrown
  <2>3. ASSUME Fine(u.v, u.fp, x, g), Kin(f, u.fp) PROVE Fine(r.v, r.fp, x, g) /\ Grew(f, r.fp) /\ InFile(r.fp)
    <3>2. u.fp.fptr \in Nat
      BY <2>3 DEF Fine, FileOf, IsFp
    <3>1. Fine(r.v, r.fp, x, g) /\ Grew(u.fp, r.fp) /\ InFile(r.fp)
      BY <1>8, <2>2, <2>3, <3>2, GrowFine
    <3> QED BY <2>3, <3>1 DEF Grew, Kin
  <2> QED BY <1>6, <2>2, <2>3
<1> QED BY <1>3, <1>7, <1>8

(* f_write, which takes clusters for the file, leaves the volume a layout to *)
(* which the file fits, whatever transfer was refused; or the card is gone,  *)
(* and was sound when it went; or create_chain passed over an error, or      *)
(* f_write took one for the first cluster of the file.                       *)
THEOREM WriteEnds ==
  ASSUME NEW v, NEW ch, NEW x, NEW g, Base(v, ch, x, g), Cutting(v), NEW f, FileOf(v, f, ch),
         Position(f, ch[f.name]), ~f.error, NEW n \in Nat, NEW d, NEW q, q = WriteLoop(v, f, n, d),
         NEW h, h = IF q.fp.error THEN q.fp
                    ELSE [q.fp EXCEPT !.written = TRUE, !.fsize = IF q.fp.fptr > @ THEN q.fp.fptr ELSE @]
  PROVE  \/ Still(v, q.v) /\ ((Fine(q.v, h, x, g) /\ Grew(f, h) /\ InFile(h)) \/ Lost(q.v, g))
         \/ Strayed(q.v, h)
<1>1. Leaves(v, f, q.v, q.fp, x, g)
  BY Writes
<1>2. CASE Strayed(q.v, q.fp)
  <2>1. CASE q.v.lost
    BY <1>2, <2>1 DEF Strayed
  <2>2. CASE IsFp(q.fp) /\ q.fp.org_clust \notin Clusters \cup {0}
    <3>1. CASE q.fp.error
      BY <1>2, <3>1
    <3>2. CASE ~q.fp.error
      <4>1. PICK z : z = IF q.fp.fptr > q.fp.fsize THEN q.fp.fptr ELSE q.fp.fsize
        OBVIOUS
      <4>2. z \in Nat
        BY <2>2, <4>1 DEF IsFp
      <4>3. h = FpGrown(q.fp, z)
        BY <3>2, <4>1, Zenon DEF FpGrown
      <4>4. IsFp(h) /\ SameClusters(q.fp, h)
        BY <2>2, <4>2, <4>3, FpGrownIs
      <4> QED BY <1>2, <2>2, <4>4 DEF Strayed, SameClusters
    <3> QED BY <3>1, <3>2
  <2> QED BY <1>2, <2>1, <2>2 DEF Strayed
<1> SUFFICES ASSUME ~Strayed(q.v, q.fp)
             PROVE  Still(v, q.v) /\ ((Fine(q.v, h, x, g) /\ Grew(f, h) /\ InFile(h)) \/ Lost(q.v, g))
  BY <1>2
<1>3. Still(v, q.v) /\ Kin(f, q.fp) /\ SameSize(f, q.fp) /\ Survives(q.v, q.fp, x, g)
  BY <1>1 DEF Leaves
<1>4. CASE q.fp.error \/ Lost(q.v, g)
  BY <1>3, <1>4, KinGrew DEF Survives, InFile
<1>5. CASE ~q.fp.error /\ Fine(q.v, q.fp, x, g)
  <2>1. h = [q.fp EXCEPT !.written = TRUE, !.fsize = IF q.fp.fptr > q.fp.fsize THEN q.fp.fptr ELSE q.fp.fsize]
    BY <1>5
  <2>2. PICK z \in {q.fp.fptr, q.fp.fsize} : z = IF q.fp.fptr > q.fp.fsize THEN q.fp.fptr ELSE q.fp.fsize
    OBVIOUS
  <2>3. h = FpGrown(q.fp, z)
    BY <2>1, <2>2, Zenon DEF FpGrown
  <2>5. q.fp.fptr \in Nat /\ q.fp.fsize \in Nat
    BY <1>5 DEF Fine, FileOf, IsFp
  <2>6. q.fp.fptr <= z
    BY <2>2, <2>5
  <2>4. Fine(q.v, h, x, g) /\ Grew(q.fp, h) /\ InFile(h)
    BY <1>5, <2>3, <2>6, GrowFine
  <2> QED BY <1>3, <2>4 DEF Grew, Kin
<1> QED BY <1>3, <1>4, <1>5 DEF Survives

(* An entry takes the place of one of the same name. *)
LEMMA SameEntry ==
  ASSUME NEW v, NEW ch, NEW x, NEW g, Base(v, ch, x, g), NEW dj, NEW k, DirAt(ch, dj, k),
         v.winsect = clust2sect(dj.clust), NEW e \in Entries, e.name \in Names, Nth(v, ch, k, dj.at).name = e.name,
         NEW x2, x \subseteq x2 \cup {e.name}, e.name \notin x2 => Fits(e, ch), g => x2 = {},
         NEW w, w = Store(v, dj, e)
  PROVE  /\ Base(w, ch, x2, g) /\ Still(v, w) /\ w.res = v.res /\ w.winsect = v.winsect /\ w.wflag
         /\ EntryAt(w, dj) = e
         /\ \A l \in 1..Len(Dir(ch)), j \in 1..TableEntries :
              Nth(w, ch, l, j) = IF l = k /\ j = dj.at THEN e ELSE Nth(v, ch, l, j)
<1>1. Tree(Flushed(v), ch, x) /\ Dir(ch) = ch["none"]
  BY BaseFacts DEF Dir
<1>2. k \in 1..Len(Dir(ch)) /\ dj.at \in 1..TableEntries
  BY DEF DirAt
<1>3. PICK o : o = Nth(v, ch, k, dj.at)
  OBVIOUS
<1>4. o \in Entries /\ o.name = e.name
  BY <1>2, <1>3, DirFacts
<1>5. e # Blank /\ o # Blank /\ ~IsBlank(o)
  BY <1>4, EntryFacts, NamesAssumption DEF Blank, IsBlank
<1>6. Free(Flushed(v), Dir(ch), k, dj.at)
  BY <1>3, <1>5 DEF Free, Nth
<1>7. Sole(Flushed(v), Dir(ch), k, dj.at, e)
  <2>1. InOrder(Flushed(v), Dir(ch))
    BY <1>1, TreeFacts
  <2>2. ASSUME NEW l \in 1..Len(Dir(ch)), NEW j \in 1..TableEntries, EntryOf(Flushed(v), Dir(ch)[l], j).name = e.name
        PROVE  l = k /\ j = dj.at
    <3>1. EntryOf(Flushed(v), Dir(ch)[k], dj.at) = o
      BY <1>3 DEF Nth
    <3>2. EntryOf(Flushed(v), Dir(ch)[k], dj.at).name = EntryOf(Flushed(v), Dir(ch)[l], j).name
      BY <1>4, <2>2, <3>1
    <3>3. ~IsBlank(EntryOf(Flushed(v), Dir(ch)[k], dj.at))
      BY <1>5, <3>1
    <3> QED BY <1>2, <2>1, <2>2, <3>2, <3>3 DEF InOrder
  <2> QED BY <2>2 DEF Sole
<1>8. Tree(EntrySet(Flushed(v), Dir(ch)[k], dj.at, e), ch, x2)
  BY <1>1, <1>2, <1>5, <1>6, <1>7, EntryTree
<1>9. Base(w, ch, x2, g)
  BY <1>8, BaseStore
<1>10. /\ Still(v, w) /\ w.res = v.res /\ w.winsect = v.winsect /\ w.wflag
       /\ Flushed(w) = EntrySet(Flushed(v), Dir(ch)[k], dj.at, e)
       /\ EntryAt(w, dj) = e
  BY StoreIs
<1>11. \A l \in 1..Len(Dir(ch)), j \in 1..TableEntries :
         Nth(w, ch, l, j) = IF l = k /\ j = dj.at THEN e ELSE Nth(v, ch, l, j)
  BY <1>2, <1>10, NthSet
<1> QED BY <1>9, <1>10, <1>11
-----------------------------------------------------------------------------
(* f_sync. *)
FpSaved(f) == [f EXCEPT !.written = FALSE]
EntryFor(p) == [name |-> p.name, start |-> p.org_clust, size |-> p.fsize]

LEMMA SyncedIs ==
  ASSUME NEW v, NEW p, NEW w, w = FlushBuf(v, p), NEW m, m = move_window(w, clust2sect(p.dir.clust)),
         NEW s, s = Store(m, p.dir, EntryFor(p)), NEW r, r = Synced(v, p)
  PROVE  /\ ~p.written => r.v = Ok(v) /\ r.fp = p
         /\ p.written /\ w.res # "OK" => r.v = w /\ r.fp = p
         /\ p.written /\ w.res = "OK" /\ m.res # "OK" => r.v = m /\ r.fp = FpClean(p)
         /\ p.written /\ w.res = "OK" /\ m.res = "OK" => r.v = sync(s) /\ r.fp = FpSaved(FpClean(p))
BY DEF Synced, FpClean, FpSaved, EntryFor

LEMMA FpSavedIs ==
  ASSUME NEW f, IsFp(f), NEW h, h = FpSaved(f)
  PROVE  /\ IsFp(h) /\ h.name = f.name /\ h.dir = f.dir /\ h.write = f.write /\ (h.open <=> f.open) /\ ~h.written
         /\ SamePlace(f, h) /\ SameClusters(f, h) /\ SameBuffer(f, h) /\ SameCurr(f, h) /\ SameError(f, h) /\ SameSize(f, h)
<1>1. DOMAIN h = DOMAIN f
  BY DEF FpSaved
<1>2. \A a \in DOMAIN f \ {"written"} : h[a] = f[a]
  BY DEF FpSaved
<1>3. ~h.written
  BY DEF FpSaved, IsFp
<1>4. h.name = f.name /\ h.dir = f.dir /\ h.fptr = f.fptr /\ h.org_clust = f.org_clust /\ h.curr_clust = f.curr_clust
      /\ h.dsect = f.dsect /\ h.write = f.write /\ h.fsize = f.fsize
  BY <1>2 DEF IsFp
<1>5. h.open = f.open /\ h.dirty = f.dirty /\ h.error = f.error
  BY <1>2 DEF IsFp
<1>6. IsFp(h)
  BY <1>1, <1>4 DEF IsFp
<1> QED BY <1>3, <1>4, <1>5, <1>6 DEF SamePlace, SameClusters, SameBuffer, SameCurr, SameError, SameSize

(* Nothing of it is saved, or all of it: the entry is on the card, or in the *)
(* window if that could not be written back.                                 *)
Alias(q, p) == IsFp(p) /\ p.name = q.name /\ p.dir = q.dir /\ p.write = q.write /\ (p.open <=> q.open)
Unsaved(r, p, x, g) ==
  /\ Fine(r.v, r.fp, x, g) /\ Kin(p, r.fp)
  /\ IF p.written THEN r.v.res = "DISK_ERR" /\ r.v.hit ELSE r.v.res = "OK"

Saved(r, p, g) ==
  /\ EntryOf(Flushed(r.v), p.dir.clust, p.dir.at) = EntryFor(p)
  /\ Fine(r.v, r.fp, {}, g) /\ Alias(p, r.fp) /\ p.written /\ ~r.fp.written
  /\ r.v.res \in {"OK", "DISK_ERR"}
  /\ r.v.res = "OK" => ~r.v.wflag
  /\ r.v.res # "OK" => r.v.hit

LEMMA FileSame ==
  ASSUME NEW v, NEW ch, NEW f, FileOf(v, f, ch), Position(f, ch[f.name]), NEW h, Alias(f, h),
         SamePlace(f, h), SameClusters(f, h), SameBuffer(f, h) \/ (~h.dirty /\ h.dsect = f.dsect),
         SameCurr(f, h), SameError(f, h), SameSize(f, h)
  PROVE  FileOf(v, h, ch) /\ Position(h, ch[f.name])
<1>1. Extent(h, ch)
  <2>1. Holds(h, ch[h.name])
    BY DEF FileOf, Extent, Holds, Alias, SameSize, SameClusters
  <2>2. OffTable(h, ch)
    BY DEF FileOf, Extent, OffTable, Alias, SameBuffer
  <2> QED BY <2>1, <2>2 DEF Extent
<1>2. Entered(v, h, ch)
  BY DEF FileOf, Alias, Entered
<1>3. Position(h, ch[f.name])
  BY PositionSame DEF SameBuffer
<1> QED BY <1>1, <1>2, <1>3 DEF FileOf, Alias

(* f_sync fails and leaves the entry of the file unsaved, or it puts the whole *)
(* entry in the volume: on the card if it succeeds; if it fails all the same,  *)
(* perhaps only in the window, and the next f_sync will not try it again, as   *)
(* written is cleared before it is known.                                      *)
THEOREM Syncing ==
  ASSUME NEW v, NEW ch, NEW x, NEW g, Base(v, ch, x, g), NEW p, FileOf(v, p, ch), Position(p, ch[p.name]),
         x \subseteq {p.name}, NEW r, r = Synced(v, p)
  PROVE  Still(v, r.v) /\ (Unsaved(r, p, x, g) \/ Saved(r, p, g))
<1> DEFINE n == p.name
<1>1. IsFp(p) /\ n \in Names /\ Extent(p, ch) /\ Entered(v, p, ch) /\ IsVol(v) /\ p.fsize \in Nat /\ ch \in Layouts
  BY BaseFacts DEF FileOf, IsFp
<1>2. Kin(p, p) /\ Alias(p, p)
  BY <1>1, KinSelf DEF Alias
<1>3. PICK w : w = FlushBuf(v, p)
  OBVIOUS
<1>4. PICK m : m = move_window(w, clust2sect(p.dir.clust))
  OBVIOUS
<1>5. PICK e : e = EntryFor(p)
  OBVIOUS
<1>6. PICK s : s = Store(m, p.dir, e)
  OBVIOUS
<1>7. /\ ~p.written => r.v = Ok(v) /\ r.fp = p
      /\ p.written /\ w.res # "OK" => r.v = w /\ r.fp = p
      /\ p.written /\ w.res = "OK" /\ m.res # "OK" => r.v = m /\ r.fp = FpClean(p)
      /\ p.written /\ w.res = "OK" /\ m.res = "OK" => r.v = sync(s) /\ r.fp = FpSaved(FpClean(p))
  BY <1>3, <1>4, <1>5, <1>6, SyncedIs
<1>8. /\ Base(w, ch, x, g) /\ Still(v, w) /\ Tabled(v, w)
      /\ w.res \in {"OK", "DISK_ERR"} /\ (w.res # "OK" => w.hit)
  BY <1>1, <1>3, Flushes
<1>9. FileOf(w, p, ch)
  BY <1>8, FileTabled
<1>10. PICK c : c = FpClean(p)
  OBVIOUS
<1>11. /\ Kin(p, c) /\ SameSize(p, c) /\ SamePlace(p, c) /\ SameClusters(p, c) /\ SameCurr(p, c) /\ SameError(p, c)
       /\ ~c.dirty /\ c.dsect = p.dsect /\ Alias(p, c) /\ IsFp(c)
  BY <1>1, <1>10, FpCleanIs DEF Kin, Alias
<1> HIDE DEF n
<1>12. CASE ~p.written
  <2>1. Base(r.v, ch, x, g) /\ Still(v, r.v) /\ Same(v, r.v) /\ r.v.res = "OK"
    BY <1>1, <1>7, <1>12, BaseResult, Results
  <2>2. FileOf(r.v, p, ch)
    BY <2>1, SameTabled, FileTabled
  <2>3. Fine(r.v, r.fp, x, g)
    BY <1>7, <1>12, <2>1, <2>2 DEF Fine
  <2> QED BY <1>2, <1>7, <1>12, <2>1, <2>3 DEF Unsaved
<1>13. CASE p.written /\ w.res # "OK"
  <2>1. r.v = w /\ r.fp = p /\ w.res = "DISK_ERR" /\ w.hit
    BY <1>7, <1>8, <1>13
  <2>2. Fine(r.v, r.fp, x, g)
    BY <1>8, <1>9, <2>1 DEF Fine
  <2> QED BY <1>2, <1>8, <1>13, <2>1, <2>2 DEF Unsaved
<1>14. PICK k : DirAt(ch, p.dir, k) /\ Nth(w, ch, k, p.dir.at).name = p.name
  BY <1>9 DEF FileOf, Entered
<1>15. /\ Reads(w, m, Dir(ch)) /\ Still(w, m) /\ m.res \in {"OK", "DISK_ERR"} /\ (m.res # "OK" => m.hit)
       /\ m.res = "OK" => m.winsect = clust2sect(p.dir.clust)
  BY <1>4, <1>8, <1>14, MoveToDir
<1>16. Base(m, ch, x, g) /\ Still(v, m) /\ Tabled(w, m)
  <2>1. Base(m, ch, x, g)
    BY <1>8, <1>15, BaseReads DEF Dir
  <2>2. Same(w, m)
    BY <1>15, SameFlushed DEF Reads
  <2> QED BY <1>8, <1>15, <2>1, <2>2, StillTrans, SameTabled
<1>17. FileOf(m, p, ch)
  BY <1>8, <1>9, <1>16, FileTabled
<1>18. FileOf(m, c, ch) /\ Position(c, ch[n])
  BY <1>11, <1>17, FileSame DEF n
<1>19. CASE p.written /\ w.res = "OK" /\ m.res # "OK"
  <2>1. r.v = m /\ r.fp = c /\ m.res = "DISK_ERR" /\ m.hit
    BY <1>7, <1>10, <1>15, <1>19
  <2>2. c.name = n
    BY <1>11 DEF Alias, n
  <2>3. Fine(r.v, r.fp, x, g)
    BY <1>16, <1>18, <2>1, <2>2 DEF Fine
  <2> QED BY <1>11, <1>16, <1>19, <2>1, <2>3 DEF Unsaved
<1>20. CASE p.written /\ w.res = "OK" /\ m.res = "OK"
  <2>1. PICK u, h : u = sync(s) /\ h = FpSaved(c) /\ r.v = u /\ r.fp = h
    BY <1>7, <1>10, <1>20
  <2>2. ch[n] \in Seq(Clusters) /\ Len(ch[n]) \in Nat /\ (ch[n] # <<>> => ch[n][1] \in Clusters)
    BY <1>1, LayoutFacts, EmptySeq
  <2>3. e.name = n /\ e.start = p.org_clust /\ e.size = p.fsize
    BY <1>5 DEF EntryFor, n
  <2>4. p.org_clust \in {0} \cup Clusters
    BY <1>1, <2>2 DEF Extent, Holds, n
  <2>5. e \in Entries
    BY <1>1, <1>5, <2>4 DEF Entries, EntryFor, n
  <2>6. Fits(e, ch)
    <3>1. e.start # 0 => ch[n] # <<>> /\ ch[n][1] = e.start
      BY <1>1, <2>2, <2>3 DEF Extent, Holds, n
    <3>2. e.start = 0 => ch[n] = <<>> /\ Len(ch[n]) = 0
      BY <1>1, <2>2, <2>3, NoClusters DEF Extent, Holds, n
    <3>3. e.size <= IF e.start = 0 THEN 0 ELSE Len(ch[n]) * SectorPieces
      <4>1. 0 * SectorPieces = 0
        BY VolumeAssumption
      <4>2. e.size <= Len(ch[n]) * SectorPieces
        BY <1>1, <2>3 DEF Extent, Holds, n
      <4> QED BY <3>2, <4>1, <4>2
    <3> QED BY <2>3, <3>1, <3>3 DEF Fits
  <2>7. Nth(m, ch, k, p.dir.at).name = e.name
    <3>1. Flushed(m) = Flushed(w)
      BY <1>15 DEF Reads
    <3> QED BY <1>14, <2>3, <3>1 DEF Nth, n
  <2>8. /\ Base(s, ch, {}, g) /\ Still(m, s)
        /\ \A l \in 1..Len(Dir(ch)), j \in 1..TableEntries :
              Nth(s, ch, l, j) = IF l = k /\ j = p.dir.at THEN e ELSE Nth(m, ch, l, j)
    <3>1. PICK y : y = {}
      BY Zenon
    <3>2. x \subseteq y \cup {e.name} /\ (g => y = {}) /\ m.winsect = clust2sect(p.dir.clust) /\ e.name \in Names
      BY <1>1, <1>15, <1>20, <2>3, <3>1 DEF n
    <3>3. /\ Base(s, ch, y, g) /\ Still(m, s)
          /\ \A l \in 1..Len(Dir(ch)), j \in 1..TableEntries :
                Nth(s, ch, l, j) = IF l = k /\ j = p.dir.at THEN e ELSE Nth(m, ch, l, j)
      <4>1. PICK dj : dj = p.dir
        OBVIOUS
      <4>2. Base(m, ch, x, g) /\ DirAt(ch, dj, k) /\ m.winsect = clust2sect(dj.clust) /\ s = Store(m, dj, e)
        BY <1>6, <1>14, <1>16, <3>2, <4>1
      <4>3. Nth(m, ch, k, dj.at).name = e.name /\ (e.name \notin y => Fits(e, ch))
        BY <2>6, <2>7, <4>1
      <4>4. /\ Base(s, ch, y, g) /\ Still(m, s)
            /\ \A l \in 1..Len(Dir(ch)), j \in 1..TableEntries :
                  Nth(s, ch, l, j) = IF l = k /\ j = dj.at THEN e ELSE Nth(m, ch, l, j)
        BY <2>5, <3>2, <4>2, <4>3, SameEntry
      <4> QED BY <4>1, <4>4
    <3> QED BY <3>1, <3>3
  <2>9. Base(u, ch, {}, g) /\ Syncs(s, u)
    BY <2>1, <2>8, Synchronizes
  <2>10. Tabled(s, u) /\ Still(v, u)
    <3>1. Still(s, u) /\ Same(s, u)
      BY <2>9 DEF Syncs
    <3>2. Still(v, s)
      BY <1>16, <2>8, StillTrans
    <3> QED BY <3>1, <3>2, StillTrans, SameTabled
  <2>11. Entered(s, p, ch)
    <3>1. k \in 1..Len(Dir(ch)) /\ p.dir.at \in 1..TableEntries
      BY <1>14 DEF DirAt
    <3>2. Nth(s, ch, k, p.dir.at) = e
      BY <2>8, <3>1
    <3> QED BY <1>14, <2>3, <3>2 DEF Entered, n
  <2>12. FileOf(s, p, ch)
    BY <1>1, <2>11 DEF FileOf, n
  <2>13. FileOf(u, p, ch)
    BY <2>8, <2>10, <2>12, FileTabled
  <2>14. /\ IsFp(h) /\ h.name = c.name /\ h.dir = c.dir /\ h.write = c.write /\ (h.open <=> c.open) /\ ~h.written
         /\ SamePlace(c, h) /\ SameClusters(c, h) /\ SameBuffer(c, h) /\ SameCurr(c, h) /\ SameError(c, h) /\ SameSize(c, h)
    BY <1>11, <2>1, FpSavedIs
  <2>15. FileOf(u, c, ch)
    BY <1>11, <2>13, FileSame
  <2>16. c.name = n /\ Position(c, ch[c.name])
    BY <1>11, <1>18 DEF Alias, n
  <2>17. FileOf(u, h, ch) /\ Position(h, ch[n])
    <3>1. Alias(c, h)
      BY <2>14 DEF Alias
    <3> QED BY <2>14, <2>15, <2>16, <3>1, FileSame
  <2>18. Alias(p, h) /\ h.name = n
    BY <1>11, <2>14, <2>16 DEF Alias
  <2>19. Fine(u, h, {}, g)
    BY <2>9, <2>17, <2>18 DEF Fine
  <2>20. EntryOf(Flushed(u), p.dir.clust, p.dir.at) = EntryFor(p)
    <3>1. k \in 1..Len(Dir(ch)) /\ p.dir.at \in 1..TableEntries /\ p.dir.clust = Dir(ch)[k]
      BY <1>14 DEF DirAt
    <3>2. Nth(s, ch, k, p.dir.at) = EntryFor(p)
      BY <1>5, <2>8, <3>1
    <3>3. Dir(ch)[k] \in Clusters
      BY <1>16, <3>1, DirFacts
    <3>4. Flushed(u)[clust2sect(Dir(ch)[k])] = Flushed(s)[clust2sect(Dir(ch)[k])]
      BY <2>9, <3>3 DEF Syncs, Same
    <3> QED BY <3>1, <3>2, <3>4 DEF Nth, EntryOf
  <2> QED BY <1>20, <2>1, <2>9, <2>10, <2>14, <2>18, <2>19, <2>20 DEF Saved, Syncs
<1> QED BY <1>8, <1>12, <1>13, <1>15, <1>19, <1>20
-----------------------------------------------------------------------------
(* f_truncate. *)
(* More entries may be out of date. *)
LEMMA BaseMore ==
  ASSUME NEW v, NEW ch, NEW x, NEW g, Base(v, ch, x, g), NEW x2, x \subseteq x2
  PROVE  Base(v, ch, x2, FALSE)
<1>1. Tree(Flushed(v), ch, x2)
  BY BaseFacts DEF Tree, Match
<1> QED BY <1>1 DEF Base

Behind(s, k) == SubSeq(s, k + 1, Len(s))

(* Of a sequence, what is behind the k-th element, and up to it. *)
LEMMA BehindIs ==
  ASSUME NEW S, NEW s \in Seq(S), NEW k \in Nat, k < Len(s), k > 0, NEW q, q = Behind(s, k)
  PROVE  /\ q \in Seq(S) /\ Len(q) = Len(s) - k
         /\ \A i \in 1..Len(q) : q[i] = s[k + i] /\ k + i \in 1..Len(s)
<1>1. PICK l \in Nat : l = Len(s)
  OBVIOUS
<1>2. PICK a \in Nat : a = k + 1
  OBVIOUS
<1>3. \A i \in a..l : s[i] \in S
  BY <1>1, <1>2
<1>4. /\ SubSeq(s, a, l) \in Seq(S) /\ Len(SubSeq(s, a, l)) = (IF a <= l THEN l - a + 1 ELSE 0)
      /\ \A i \in 1..(l - a + 1) : SubSeq(s, a, l)[i] = s[a + i - 1]
  BY <1>3, SubSeqProperties
<1>5. q = SubSeq(s, a, l)
  BY <1>1, <1>2 DEF Behind
<1>6. /\ q \in Seq(S) /\ Len(q) = (IF a <= l THEN l - a + 1 ELSE 0)
      /\ \A i \in 1..(l - a + 1) : q[i] = s[a + i - 1]
  BY <1>4, <1>5
<1>7. Len(q) = l - k
  BY <1>1, <1>2, <1>6
<1>8. ASSUME NEW i \in 1..Len(q) PROVE q[i] = s[k + i] /\ k + i \in 1..l
  <2>1. i \in 1..(l - a + 1) /\ a + i - 1 = k + i /\ k + i \in 1..l
    BY <1>1, <1>2, <1>7
  <2> QED BY <1>6, <2>1, Zenon
<1> QED BY <1>1, <1>6, <1>7, <1>8, Zenon

LEMMA FrontIs ==
  ASSUME NEW S, NEW s \in Seq(S), NEW k \in Nat, k <= Len(s), k > 0, NEW q, q = SubSeq(s, 1, k)
  PROVE  /\ q \in Seq(S) /\ Len(q) = k
         /\ \A i \in 1..k : q[i] = s[i]
OBVIOUS

CutAfter(ch, n, k) == [ch EXCEPT ![n] = SubSeq(ch[n], 1, k)]
Ended(F, c) == [F EXCEPT ![c] = LastLink]

(* The rest of a chain behind its k-th cluster. *)
LEMMA RestOfChain ==
  ASSUME NEW F \in [Clusters -> Links], NEW ch, Shape(F, ch), NEW n \in Names, NEW k \in 1..Len(ch[n]), k < Len(ch[n]),
         NEW q, q = Behind(ch[n], k),
         NEW ch2, ch2 = CutAfter(ch, n, k),
         NEW F2, F2 = Ended(F, ch[n][k])
  PROVE  /\ q \in Seq(Clusters) /\ q # <<>> /\ q[1] = ch[n][k + 1]
         /\ Linked(F2, q) /\ Loose(ch2, q)
<1>s. PICK s : s = ch[n]
  OBVIOUS
<1>1. ch \in Layouts /\ DOMAIN ch = Names \cup {"none"} /\ Linked(F, s) /\ Apart(ch)
  BY <1>s DEF Shape, Layouts
<1>0. PICK l \in Nat : l = Len(s)
  BY <1>s, <1>1, LayoutFacts
<1>2. s \in Seq(Clusters) /\ l \in Nat /\ \A i \in 1..l : s[i] \in Clusters
  BY <1>s, <1>0, <1>1, LayoutFacts
<1>3. k \in 1..l /\ k < l
  BY <1>s, <1>0
<1>q. q = Behind(s, k)
  BY <1>s
<1>4. /\ q \in Seq(Clusters) /\ Len(q) = l - k
      /\ \A i \in 1..Len(q) : q[i] = s[k + i] /\ k + i \in 1..l
  <2>1. k \in Nat /\ k > 0 /\ k < Len(s) /\ q = Behind(s, k)
    BY <1>0, <1>2, <1>3, <1>q
  <2>2. /\ q \in Seq(Clusters) /\ Len(q) = Len(s) - k
        /\ \A i \in 1..Len(q) : q[i] = s[k + i] /\ k + i \in 1..Len(s)
    BY <1>2, <2>1, BehindIs, Zenon
  <2> QED BY <1>0, <2>2
<1>5. q # <<>> /\ q[1] = s[k + 1]
  BY <1>2, <1>3, <1>4, SMTT(30)
<1>6. \A i, j \in 1..l : s[i] = s[j] => i = j
  BY <1>s, <1>0, <1>1 DEF Apart
<1>7. Linked(F2, q)
  <2> SUFFICES ASSUME NEW i \in 1..Len(q) PROVE F2[q[i]] = IF i < Len(q) THEN q[i + 1] ELSE LastLink
    BY DEF Linked
  <2>1. k + i \in 1..l /\ k + i # k /\ q[i] = s[k + i]
    BY <1>2, <1>3, <1>4
  <2>2. s[k + i] # s[k]
    BY <1>3, <1>6, <2>1
  <2>3. F2[q[i]] = F[s[k + i]]
    BY <1>s, <1>2, <1>3, <2>1, <2>2 DEF Ended
  <2>4. F[s[k + i]] = IF k + i < l THEN s[k + i + 1] ELSE LastLink
    BY <1>0, <1>1, <2>1 DEF Linked
  <2>5. i < Len(q) <=> k + i < l
    BY <1>2, <1>3, <1>4
  <2>6. i < Len(q) => q[i + 1] = s[k + i + 1]
    BY <1>2, <1>3, <1>4, SMTT(30)
  <2> QED BY <2>3, <2>4, <2>5, <2>6
<1>8. Loose(ch2, q)
  <2> SUFFICES ASSUME NEW i \in 1..Len(q), NEW m \in Names \cup {"none"}, NEW j \in 1..Len(ch2[m]), ch2[m][j] = q[i]
               PROVE  FALSE
    BY DEF Loose, Owned
  <2>1. k + i \in 1..l /\ q[i] = s[k + i]
    BY <1>2, <1>3, <1>4
  <2>2. CASE m # n
    <3>1. ch2[m] = ch[m]
      BY <1>1, <2>2 DEF CutAfter
    <3> QED BY <1>s, <1>0, <1>1, <2>1, <2>2, <3>1 DEF Apart
  <2>3. CASE m = n
    <3>1. ch2[n] = SubSeq(s, 1, k)
      BY <1>s, <1>1, Zenon DEF CutAfter
    <3>2. Len(ch2[n]) = k /\ \A a \in 1..k : ch2[n][a] = s[a]
      <4>1. k \in Nat /\ k > 0 /\ k <= Len(s)
        BY <1>0, <1>2, <1>3
      <4> QED BY <1>2, <3>1, <4>1, FrontIs
    <3> QED BY <1>2, <1>3, <1>6, <2>1, <2>3, <3>2, SMTT(30)
  <2> QED BY <2>2, <2>3
<1> QED BY <1>4, <1>5, <1>7, <1>8, <1>s

FpCut(f, o, er) == [f EXCEPT !.fsize = f.fptr, !.written = TRUE, !.org_clust = o, !.error = er]

LEMMA FpCutIs ==
  ASSUME NEW f, IsFp(f), NEW o, NEW er, NEW h, h = FpCut(f, o, er)
  PROVE  /\ IsFp(h) /\ h.name = f.name /\ h.dir = f.dir /\ h.write = f.write /\ (h.open <=> f.open) /\ h.written
         /\ SamePlace(f, h) /\ SameBuffer(f, h) /\ SameCurr(f, h)
         /\ h.org_clust = o /\ h.fsize = f.fptr
<1>1. DOMAIN h = DOMAIN f
  BY DEF FpCut
<1>2. \A a \in DOMAIN f \ {"written", "fsize", "org_clust", "error"} : h[a] = f[a]
  BY Zenon DEF FpCut
<1>3. h.written
  BY DEF FpCut, IsFp
<1>4. h.fsize = f.fptr /\ h.org_clust = o
  BY DEF FpCut, IsFp
<1>5. h.name = f.name /\ h.dir = f.dir /\ h.fptr = f.fptr /\ h.curr_clust = f.curr_clust /\ h.dsect = f.dsect /\ h.write = f.write
  BY <1>2 DEF IsFp
<1>6. h.open = f.open /\ h.dirty = f.dirty
  BY <1>2 DEF IsFp
<1>7. IsFp(h)
  BY <1>1, <1>4, <1>5 DEF IsFp
<1> QED BY <1>3, <1>4, <1>5, <1>6, <1>7 DEF SamePlace, SameBuffer, SameCurr

LEMMA TruncatedIs ==
  ASSUME NEW v, NEW p, IsFp(p), p.fsize > p.fptr, NEW c, c = p.curr_clust,
         NEW a, a = get_fat(v, c), NEW l, l = put_fat(a, c, LastLink), NEW r, r = Truncated(v, p)
  PROVE  /\ r.fp = FpCut(p, IF p.fptr = 0 THEN 0 ELSE p.org_clust, r.v.res # "OK")
         /\ p.fptr = 0 => r.v = remove_chain(v, p.org_clust)
         /\ p.fptr # 0 /\ a.val \in {1, NoValue} => r.v = Err(a, ErrorOf(a.val))
         /\ p.fptr # 0 /\ a.val = LastLink => r.v = Ok(a)
         /\ p.fptr # 0 /\ a.val \in Clusters /\ l.res # "OK" => r.v = l
         /\ p.fptr # 0 /\ a.val \in Clusters /\ l.res = "OK" => r.v = remove_chain(l, a.val)
<1> DEFINE Cut(g) ==
             CASE g.val \in {1, NoValue} -> Err(g, ErrorOf(g.val))
               [] g.val >= n_fatent /\ g.val # NoValue -> Ok(g)
               [] OTHER -> OnOk(put_fat(g, c, LastLink), LAMBDA z : remove_chain(z, g.val))
           E(z) == [v |-> z,
                    fp |-> [p EXCEPT !.fsize = p.fptr, !.written = TRUE,
                                    !.org_clust = IF p.fptr = 0 THEN 0 ELSE @,
                                    !.error = z.res # "OK"]]
<1>1. ~(p.fsize <= p.fptr)
  BY DEF IsFp
<1>2. r = IF p.fptr = 0 THEN E(remove_chain(v, p.org_clust)) ELSE E(Cut(a))
  BY <1>1 DEF Truncated
<1>3. r.v = IF p.fptr = 0 THEN remove_chain(v, p.org_clust) ELSE Cut(a)
  BY <1>2
<1>4. r.fp = FpCut(p, IF p.fptr = 0 THEN 0 ELSE p.org_clust, r.v.res # "OK")
  <2>1. PICK z : r = E(z)
    BY <1>2, Zenon
  <2>2. r.v = z
    BY <2>1
  <2>3. r.fp = FpCut(p, IF p.fptr = 0 THEN 0 ELSE p.org_clust, z.res # "OK")
    BY <2>1 DEF FpCut
  <2> QED BY <2>2, <2>3
<1>5. LastLink \notin {1, NoValue} /\ LastLink >= n_fatent
  BY VolumeAssumption DEF LastLink, NoValue, n_fatent
<1>6. \A z \in Clusters : z \notin {1, NoValue} /\ ~(z >= n_fatent)
  BY VolumeAssumption DEF Clusters, NoValue, n_fatent
<1>7. a.val = LastLink => Cut(a) = Ok(a)
  BY <1>5
<1>8. a.val \in Clusters => Cut(a) = IF l.res = "OK" THEN remove_chain(l, a.val) ELSE l
  BY <1>6 DEF OnOk
<1>9. a.val \in {1, NoValue} => Cut(a) = Err(a, ErrorOf(a.val))
  <2>1. ~(1 >= n_fatent)
    BY VolumeAssumption DEF n_fatent
  <2> QED BY <2>1
<1> HIDE DEF Cut, E
<1> QED BY <1>3, <1>4, <1>7, <1>8, <1>9

(* The file is as long as it was read or written up to, and its clusters   *)
(* are all or those it needs.                                              *)
LEMMA CutFits ==
  ASSUME NEW f, IsFp(f), NEW q \in Seq(Clusters), Holds(f, q), Position(f, q), ~f.error, f.fptr > 0,
         NEW k \in 1..Len(q), f.curr_clust = q[k], f.fptr <= k * SectorPieces, f.fptr <= f.fsize,
         NEW q2, q2 = q \/ q2 = SubSeq(q, 1, k), NEW er, NEW h, h = FpCut(f, f.org_clust, er)
  PROVE  Holds(h, q2) /\ Position(h, q2)
<1>1. /\ IsFp(h) /\ SamePlace(f, h) /\ SameBuffer(f, h) /\ SameCurr(f, h)
      /\ h.org_clust = f.org_clust /\ h.fsize = f.fptr
  BY FpCutIs
<1>2. f.fptr \in Nat /\ f.fsize \in Nat /\ k \in Nat /\ k > 0 /\ k <= Len(q) /\ Len(q) \in Nat
  BY DEF IsFp
<1>3. k \in 1..Len(q2) /\ q2[k] = q[k] /\ q2[1] = q[1] /\ q2 # <<>> /\ Len(q2) \in Nat /\ q # <<>>
  <2>1. CASE q2 = q
    BY <1>2, <2>1
  <2>2. CASE q2 = SubSeq(q, 1, k)
    <3>1. q2 \in Seq(Clusters) /\ Len(q2) = k /\ \A i \in 1..k : q2[i] = q[i]
      BY <1>2, <2>2, FrontIs
    <3> QED BY <1>2, <3>1
  <2> QED BY <2>1, <2>2
<1>4. h.fsize <= Len(q2) * SectorPieces
  <2>1. k <= Len(q2)
    BY <1>3
  <2>2. k * SectorPieces <= Len(q2) * SectorPieces /\ k * SectorPieces \in Nat /\ Len(q2) * SectorPieces \in Nat
    BY <1>2, <1>3, <2>1, Products
  <2> QED BY <1>1, <1>2, <2>2
<1>5. Holds(h, q2)
  BY <1>1, <1>3, <1>4 DEF Holds
<1>6. Within(h, q2)
  BY <1>1, <1>3 DEF Within, SamePlace, SameCurr
<1>7. Buffered(h)
  BY <1>1 DEF Position, Buffered, SamePlace, SameCurr, SameBuffer
<1> QED BY <1>5, <1>6, <1>7 DEF Position

(* The FAT says what comes after the k-th cluster. *)
LEMMA FatSays ==
  ASSUME NEW v, NEW ch, NEW x, NEW g, Base(v, ch, x, g), NEW n \in Names, NEW k \in 1..Len(ch[n]),
         NEW w, w = get_fat(v, ch[n][k])
  PROVE  /\ w.val \in {LastLink, NoValue} \/ (w.val \in Clusters /\ k < Len(ch[n]) /\ w.val = ch[n][k + 1])
         /\ w.val # NoValue => w.winsect # 0 /\ FatOf(Flushed(w)) = FatOf(Flushed(v))
<1>1. Sane(v) /\ ch \in Layouts /\ Shape(FatOf(Flushed(v)), ch)
  BY BaseFacts
<1>2. ch[n][k] \in Clusters /\ Len(ch[n]) \in Nat
  BY <1>1, LayoutFacts
<1>3. Reads(v, w, Dir(ch)) /\ Gets(v, w, ch[n][k])
  BY <1>1, <1>2, GetFat
<1>4. CASE w.res # "OK"
  BY <1>3, <1>4 DEF Gets
<1>5. CASE w.res = "OK"
  <2>1. w.val = FatOf(Flushed(v))[ch[n][k]] /\ w.winsect # 0
    BY <1>3, <1>5 DEF Gets
  <2>2. FatOf(Flushed(w)) = FatOf(Flushed(v))
    BY <1>3 DEF Reads
  <2>3. k < Len(ch[n]) \/ k = Len(ch[n])
    BY <1>2
  <2> QED BY <1>1, <2>1, <2>2, <2>3, LinkAfter
<1> QED BY <1>4, <1>5

(* What the program has cut is not saved yet. *)
Cuts(v, p, r) ==
  /\ Still(v, r.v) /\ Fine(r.v, r.fp, {p.name}, FALSE)
  /\ Alias(p, r.fp) /\ r.fp.written

LEMMA CutsIs ==
  ASSUME NEW v, NEW ch, NEW p, FileOf(v, p, ch), NEW r, Still(v, r.v), NEW o, NEW er, r.fp = FpCut(p, o, er),
         NEW ch2, NEW x, x = {p.name}, NEW g, g = FALSE, Base(r.v, ch2, x, g), Entered(r.v, p, ch2),
         Extent(r.fp, ch2), Position(r.fp, ch2[p.name])
  PROVE  Cuts(v, p, r)
<1>1. IsFp(p) /\ p.name \in Names
  BY DEF FileOf
<1>2. /\ IsFp(r.fp) /\ r.fp.name = p.name /\ r.fp.dir = p.dir /\ r.fp.write = p.write /\ (r.fp.open <=> p.open) /\ r.fp.written
  BY <1>1, FpCutIs
<1>3. Entered(r.v, r.fp, ch2)
  BY <1>2 DEF Entered
<1>4. FileOf(r.v, r.fp, ch2)
  BY <1>1, <1>2, <1>3 DEF FileOf
<1>5. Fine(r.v, r.fp, x, g)
  BY <1>2, <1>4 DEF Fine
<1> QED BY <1>2, <1>5, Zenon DEF Cuts, Alias

(* The buffer is written over no part of the directory, and that stays. *)
LEMMA OffTableKept ==
  ASSUME NEW v, NEW ch, NEW x, NEW g, Base(v, ch, x, g), NEW p, FileOf(v, p, ch),
         NEW h, SameBuffer(p, h), NEW ch2, Dir(ch2) = Dir(ch)
  PROVE  OffTable(h, ch2)
<1> SUFFICES ASSUME h.dirty
             PROVE  \E c \in Clusters : h.dsect = clust2sect(c) /\ \A k \in 1..Len(Dir(ch2)) : Dir(ch2)[k] # c
  BY DEF OffTable
<1>1. p.dirty /\ h.dsect = p.dsect
  BY DEF SameBuffer
<1>2. p.name \in Names /\ Extent(p, ch)
  BY DEF FileOf
<1>3. PICK c \in Clusters : p.dsect = clust2sect(c) /\ \A k \in 1..Len(Dir(ch)) : Dir(ch)[k] # c
  BY <1>1, <1>2, FileAside DEF Extent, OffTable
<1> QED BY <1>1, <1>3

(* To nothing. *)
LEMMA CutAll ==
  ASSUME NEW v, NEW ch, NEW x, NEW g, Base(v, ch, x, g), NEW p, FileOf(v, p, ch),
         x \subseteq {p.name}, p.fsize > p.fptr, p.fptr = 0, NEW r, r = Truncated(v, p)
  PROVE  Cuts(v, p, r)
<1>1. PICK n : n = p.name
  OBVIOUS
<1>2. /\ IsFp(p) /\ n \in Names /\ Extent(p, ch) /\ ch \in Layouts /\ Entered(v, p, ch)
      /\ Shape(FatOf(Flushed(v)), ch) /\ Tree(Flushed(v), ch, x)
  BY <1>1, BaseFacts DEF FileOf
<1>3. PICK er : er = (r.v.res # "OK")
  OBVIOUS
<1>4. r.v = remove_chain(v, p.org_clust) /\ r.fp = FpCut(p, 0, er)
  BY <1>2, <1>3, TruncatedIs
<1>5. ch[n] \in Seq(Clusters) /\ Len(ch[n]) \in Nat /\ (ch[n] = <<>> => Len(ch[n]) = 0)
  BY <1>2, LayoutFacts, EmptySeq
<1>6. ch[n] # <<>> /\ p.org_clust = ch[n][1]
  <2>1. p.fsize \in Nat /\ p.fsize > 0 /\ p.fsize <= Len(ch[n]) * SectorPieces
    BY <1>1, <1>2 DEF IsFp, Extent, Holds
  <2>2. 0 * SectorPieces = 0
    BY VolumeAssumption
  <2>3. ch[n] # <<>>
    BY <1>5, <2>1, <2>2
  <2> QED BY <1>1, <1>2, <2>3 DEF Extent, Holds
<1>7. PICK ch2 : ch2 = [ch EXCEPT ![n] = <<>>]
  BY Zenon
<1>8. PICK x2, h : x2 = {n} /\ h = FALSE
  BY Zenon
<1>9. Tree(Flushed(v), ch2, x2) /\ Loose(ch2, ch[n])
  <2>1. x \subseteq x2 /\ n \in x2
    BY <1>1, <1>8
  <2>2. Tree(Flushed(v), ch2, x2) /\ \A i \in 1..Len(ch[n]) : ~Owned(ch2, ch[n][i])
    BY <1>2, <1>7, <2>1, FileDrop, Zenon
  <2> QED BY <2>2 DEF Loose
<1>10. ch2[n] = <<>> /\ Dir(ch2) = Dir(ch)
  BY <1>2, <1>7, NamesAssumption DEF Layouts, Dir
<1>11. Base(v, ch2, x2, h)
  <2>1. Base(v, ch, x, h)
    BY <1>8, BaseWeaker, Zenon
  <2> QED BY <1>8, <1>9, <1>10, <2>1, BaseLayout
<1>12. Base(r.v, ch2, x2, h) /\ Still(v, r.v) /\ Same(v, r.v)
  <2>1. Linked(FatOf(Flushed(v)), ch[n])
    BY <1>2 DEF Shape
  <2>2. PICK q : q = ch[n]
    OBVIOUS
  <2>3. q \in Seq(Clusters) /\ q # <<>> /\ Linked(FatOf(Flushed(v)), q) /\ Loose(ch2, q) /\ r.v = remove_chain(v, q[1])
    BY <1>4, <1>5, <1>6, <1>9, <2>1, <2>2
  <2> QED BY <1>11, <2>3, RemoveChain
<1>13. Entered(r.v, p, ch2)
  <2>1. Entered(r.v, p, ch)
    BY <1>2, <1>12, SameTabled, EnteredTabled
  <2> QED BY <1>10, <2>1, EnteredLayout
<1>14. r.fp.org_clust = 0 /\ r.fp.fsize = 0 /\ r.fp.fptr = 0 /\ SameBuffer(p, r.fp) /\ r.fp.name = n
  <2>1. /\ SamePlace(p, r.fp) /\ SameBuffer(p, r.fp) /\ r.fp.org_clust = 0 /\ r.fp.fsize = p.fptr /\ r.fp.name = p.name
    BY <1>2, <1>4, FpCutIs
  <2> QED BY <1>1, <2>1 DEF SamePlace
<1>15. Extent(r.fp, ch2) /\ Position(r.fp, ch2[n])
  <2>1. 0 % SectorPieces = 0 /\ Len(<<>>) * SectorPieces = 0
    BY VolumeAssumption, EmptySeq
  <2>2. Extent(r.fp, ch2)
    <3>1. Holds(r.fp, ch2[r.fp.name])
      BY <1>10, <1>14, <2>1 DEF Holds
    <3>2. OffTable(r.fp, ch2)
      BY <1>10, <1>14, OffTableKept
    <3> QED BY <3>1, <3>2 DEF Extent
  <2>3. Position(r.fp, ch2[n])
    BY <1>14, <2>1 DEF Position, Within, Buffered
  <2> QED BY <2>2, <2>3
<1>16. PICK o : o = 0
  OBVIOUS
<1> QED BY <1>1, <1>4, <1>8, <1>12, <1>13, <1>15, <1>16, CutsIs, Zenon

(* FileCut, in these terms. *)
LEMMA CutTree ==
  ASSUME NEW card, NEW ch, NEW x, Tree(card, ch, x), NEW n \in Names, NEW k \in 1..Len(ch[n]),
         NEW c, c = ch[n][k], NEW ch2, ch2 = CutAfter(ch, n, k), NEW x2, x2 = x \cup {n}
  PROVE  Tree(LinkSet(card, c, LastLink), ch2, x2)
BY FileCut, Zenon DEF CutAfter

(* Nothing is cut, or the file has its first k clusters. *)
ChainCut(w, ch, x, g, n, k) ==
  \/ Base(w, ch, x, g)
  \/ \E ch2 : Base(w, ch2, x, g) /\ Dir(ch2) = Dir(ch) /\ ch2[n] = SubSeq(ch[n], 1, k)

(* The link is set, and what was behind it is given up. *)
LEMMA CutChain ==
  ASSUME NEW a, NEW ch, NEW x, NEW g, Base(a, ch, x, g), g = FALSE, NEW n \in Names, x \subseteq {n},
         NEW k \in 1..Len(ch[n]), k < Len(ch[n]), a.winsect # 0,
         NEW l, l = put_fat(a, ch[n][k], LastLink), NEW w, w = IF l.res = "OK" THEN remove_chain(l, ch[n][k + 1]) ELSE l,
         NEW x2, x2 = {n}
  PROVE  Still(a, w) /\ Same(a, w) /\ ChainCut(w, ch, x2, g, n, k)
<1>1. /\ Sane(a) /\ ch \in Layouts /\ Shape(FatOf(Flushed(a)), ch) /\ Tree(Flushed(a), ch, x)
      /\ WellTyped(Flushed(a)) /\ FatOf(Flushed(a)) \in [Clusters -> Links]
  BY BaseFacts
<1>2. PICK c \in Clusters : c = ch[n][k]
  BY <1>1, LayoutFacts
<1>3. Puts(a, l, c, LastLink)
  BY <1>1, <1>2, PutFat
<1>4. Still(a, l) /\ Same(a, l) /\ l.res \in {"OK", "DISK_ERR"}
  BY <1>3 DEF Puts
<1>5. CASE l.res # "OK"
  <2>1. Base(l, ch, x, g)
    BY <1>2, <1>3, <1>5, BasePuts
  <2>2. Base(l, ch, x2, FALSE)
    BY <2>1, BaseMore, Zenon
  <2> QED BY <1>4, <1>5, <2>2, Zenon DEF ChainCut
<1>6. CASE l.res = "OK"
  <2>1. PICK ch2 : ch2 = CutAfter(ch, n, k)
    OBVIOUS
  <2>2. Dir(ch2) = Dir(ch) /\ ch2[n] = SubSeq(ch[n], 1, k) /\ n # "none"
    BY <1>1, <2>1, NamesAssumption DEF CutAfter, Layouts, Dir
  <2>3. Tree(LinkSet(Flushed(a), c, LastLink), ch2, x2)
    <3>1. x \cup {n} = x2
      OBVIOUS
    <3> QED BY <1>1, <1>2, <2>1, <3>1, CutTree, Zenon
  <2>4. Base(l, ch2, x2, g)
    <3>1. g => x2 = {}
      OBVIOUS
    <3>2. ch2["none"] = ch["none"]
      BY <2>2 DEF Dir
    <3> QED BY <1>2, <1>3, <1>6, <2>3, <3>1, <3>2, BasePuts
  <2>5. PICK q : q = Behind(ch[n], k)
    OBVIOUS
  <2>6. Flushed(l) = LinkSet(Flushed(a), c, LastLink)
    BY <1>3, <1>6 DEF Puts
  <2>7. FatOf(Flushed(l)) = Ended(FatOf(Flushed(a)), c)
    <3>1. LastLink \in Links
      BY DEF Links
    <3> QED BY <1>1, <2>6, <3>1, LinkSetFacts DEF Ended
  <2>8. /\ q \in Seq(Clusters) /\ q # <<>> /\ q[1] = ch[n][k + 1]
        /\ Linked(FatOf(Flushed(l)), q) /\ Loose(ch2, q)
    BY <1>1, <1>2, <2>1, <2>5, <2>7, RestOfChain
  <2>9. w = remove_chain(l, q[1])
    BY <1>6, <2>8
  <2>10. Base(w, ch2, x2, g) /\ Still(l, w) /\ Same(l, w)
    BY <2>4, <2>8, <2>9, RemoveChain
  <2>11. Still(a, w) /\ Same(a, w)
    BY <1>4, <2>10, StillTrans, SameTrans
  <2> QED BY <2>2, <2>10, <2>11, Zenon DEF ChainCut
<1> QED BY <1>5, <1>6

(* To something. *)
LEMMA CutSome ==
  ASSUME NEW v, NEW ch, NEW x, NEW g, Base(v, ch, x, g), NEW p, FileOf(v, p, ch), Position(p, ch[p.name]),
         ~p.error, x \subseteq {p.name}, p.fsize > p.fptr, p.fptr # 0, NEW r, r = Truncated(v, p)
  PROVE  Cuts(v, p, r)
<1>1. PICK n : n = p.name
  OBVIOUS
<1>2. /\ IsFp(p) /\ n \in Names /\ Extent(p, ch) /\ ch \in Layouts /\ Entered(v, p, ch)
  BY <1>1, BaseFacts DEF FileOf
<1>3. p.fptr \in Nat /\ p.fsize \in Nat /\ p.fptr > 0
  BY <1>2 DEF IsFp
<1>4. PICK k \in 1..Len(ch[n]) : p.curr_clust = ch[n][k] /\ p.fptr <= k * SectorPieces
  BY <1>1, <1>3 DEF Position, Within
<1>5. PICK a : a = get_fat(v, ch[n][k])
  OBVIOUS
<1>6. PICK l : l = put_fat(a, ch[n][k], LastLink)
  OBVIOUS
<1>7. PICK er : er = (r.v.res # "OK")
  OBVIOUS
<1>8. /\ r.fp = FpCut(p, p.org_clust, er)
      /\ a.val \in {1, NoValue} => r.v = Err(a, ErrorOf(a.val))
      /\ a.val = LastLink => r.v = Ok(a)
      /\ a.val \in Clusters /\ l.res # "OK" => r.v = l
      /\ a.val \in Clusters /\ l.res = "OK" => r.v = remove_chain(l, a.val)
  BY <1>2, <1>4, <1>5, <1>6, <1>7, TruncatedIs
<1>9. PICK x2, h : x2 = {n} /\ h = FALSE
  BY Zenon
<1>10. Base(a, ch, x, g) /\ Still(v, a) /\ Same(v, a)
  BY <1>2, <1>5, FollowsFat
<1>11. /\ a.val \in {LastLink, NoValue} \/ (a.val \in Clusters /\ k < Len(ch[n]) /\ a.val = ch[n][k + 1])
       /\ a.val # NoValue => a.winsect # 0
  BY <1>2, <1>5, FatSays
<1>12. Base(a, ch, x2, h)
  <2>1. x \subseteq x2
    BY <1>1, <1>9
  <2>2. Base(a, ch, x2, FALSE)
    BY <1>10, <2>1, BaseMore, Zenon
  <2> QED BY <1>9, <2>2, Zenon
<1>13. /\ Still(v, r.v) /\ Same(v, r.v)
       /\ \E ch2 : /\ Base(r.v, ch2, x2, h) /\ Dir(ch2) = Dir(ch)
                   /\ ch2[n] = ch[n] \/ ch2[n] = SubSeq(ch[n], 1, k)
  <2>1. CASE a.val \in {LastLink, NoValue}
    <3>1. r.v = Ok(a) \/ r.v = Err(a, ErrorOf(a.val))
      BY <1>8, <2>1
    <3>2. Base(r.v, ch, x2, h) /\ Still(a, r.v) /\ Same(a, r.v)
      BY <1>12, <3>1, BaseResult, Zenon
    <3> QED BY <1>10, <3>2, StillTrans, SameTrans
  <2>2. CASE a.val \in Clusters /\ k < Len(ch[n]) /\ a.val = ch[n][k + 1]
    <3>1. a.winsect # 0
      BY <1>11, <2>2, NoClusters
    <3>2. Base(a, ch, x, h)
      BY <1>9, <1>10, BaseWeaker, Zenon
    <3>3. r.v = IF l.res = "OK" THEN remove_chain(l, ch[n][k + 1]) ELSE l
      BY <1>8, <2>2
    <3>4. x \subseteq {n}
      BY <1>1
    <3>5. /\ Still(a, r.v) /\ Same(a, r.v)
          /\ ChainCut(r.v, ch, x2, h, n, k)
      <4>1. k < Len(ch[n]) /\ h = FALSE
        BY <1>9, <2>2
      <4> QED BY <1>2, <1>4, <1>6, <1>9, <3>1, <3>2, <3>3, <3>4, <4>1, CutChain, ZenonT(60)
    <3> QED BY <1>10, <3>5, StillTrans, SameTrans DEF ChainCut
  <2> QED BY <1>11, <2>1, <2>2
<1>14. PICK ch2 : /\ Base(r.v, ch2, x2, h) /\ Dir(ch2) = Dir(ch)
                  /\ ch2[n] = ch[n] \/ ch2[n] = SubSeq(ch[n], 1, k)
  BY <1>13
<1>15. Entered(r.v, p, ch2)
  <2>1. Entered(r.v, p, ch)
    BY <1>2, <1>13, EnteredTabled, SameTabled
  <2> QED BY <1>14, <2>1, EnteredLayout
<1>16. Extent(r.fp, ch2) /\ Position(r.fp, ch2[n])
  <2>1. ch[n] \in Seq(Clusters)
    BY <1>2, LayoutFacts
  <2>2. PICK q : q = ch[n]
    OBVIOUS
  <2>3. PICK q2 : q2 = ch2[n]
    OBVIOUS
  <2>4. q2 = q \/ q2 = SubSeq(q, 1, k)
    BY <1>14, <2>2, <2>3
  <2>5. /\ IsFp(p) /\ q \in Seq(Clusters) /\ Holds(p, q) /\ Position(p, q) /\ p.fptr > 0
        /\ k \in 1..Len(q) /\ p.curr_clust = q[k] /\ p.fptr <= k * SectorPieces /\ p.fptr <= p.fsize
    BY <1>1, <1>2, <1>3, <1>4, <2>1, <2>2 DEF Extent
  <2>6. Holds(r.fp, q2) /\ Position(r.fp, q2)
    BY <1>8, <2>4, <2>5, CutFits, Zenon
  <2>7. SameBuffer(p, r.fp) /\ r.fp.name = n
    BY <1>1, <1>2, <1>8, FpCutIs
  <2>8. OffTable(r.fp, ch2)
    BY <1>14, <2>7, OffTableKept
  <2> QED BY <2>3, <2>6, <2>7, <2>8 DEF Extent
<1> QED BY <1>1, <1>8, <1>9, <1>13, <1>14, <1>15, <1>16, CutsIs, Zenon

(* f_truncate, failing anywhere, leaves the file the clusters it had, or those *)
(* it needs for what is left of it; a dirty buffer stays as it was, be its     *)
(* cluster the file's or not.                                                  *)
THEOREM Truncating ==
  ASSUME NEW v, NEW ch, NEW x, NEW g, Base(v, ch, x, g), NEW p, FileOf(v, p, ch), Position(p, ch[p.name]),
         ~p.error, x \subseteq {p.name}, NEW r, r = Truncated(v, p)
  PROVE  IF p.fsize > p.fptr THEN Cuts(v, p, r) ELSE r.v = Ok(v) /\ r.fp = p
<1>1. p.fsize \in Nat /\ p.fptr \in Nat
  BY DEF FileOf, IsFp
<1>2. CASE p.fsize > p.fptr
  BY <1>2, CutAll, CutSome
<1>3. CASE ~(p.fsize > p.fptr)
  <2>1. p.fsize <= p.fptr
    BY <1>1, <1>3
  <2> QED BY <1>3, <2>1 DEF Truncated
<1> QED BY <1>2, <1>3
-----------------------------------------------------------------------------
(* Calls on other files than the open one. *)
ForWriting(v) == chk_mounted(v, TRUE)
ForReading(v) == chk_mounted(v, FALSE)
ForMode(v, m) == chk_mounted(v, m.write \/ m.create # "no")

(* A file without its clusters. *)
Dropped(ch, n) == [ch EXCEPT ![n] = <<>>]

LEMMA DropFacts ==
  ASSUME NEW ch \in Layouts, NEW n \in Names, NEW ch2, ch2 = Dropped(ch, n)
  PROVE  /\ ch2 \in Layouts /\ ch2[n] = <<>> /\ Dir(ch2) = Dir(ch) /\ ch2["none"] = ch["none"]
         /\ \A m \in Names : m # n => ch2[m] = ch[m]
<1>1. <<>> \in Seq(Clusters) /\ n # "none"
  BY NamesAssumption
<1> QED BY <1>1 DEF Dropped, Layouts, Dir

(* No entry needs the clusters of n. *)
Unneeded(v, ch, n) ==
  \A k \in 1..Len(Dir(ch)), i \in 1..TableEntries : Nth(v, ch, k, i).name = n => Nth(v, ch, k, i).start = 0

LEMMA DropBase ==
  ASSUME NEW v, NEW ch, NEW x, NEW g, Base(v, ch, x, g), NEW n \in Names, NEW x2, x \subseteq x2, g => x2 = {},
         n \in x2 \/ Unneeded(v, ch, n), NEW ch2, ch2 = Dropped(ch, n)
  PROVE  Base(v, ch2, x2, g) /\ Loose(ch2, ch[n])
<1>1. Tree(Flushed(v), ch, x) /\ ch \in Layouts
  BY BaseFacts
<1>2. n \in x2 \/ \A k \in 1..Len(ch["none"]), i \in 1..TableEntries :
                    EntryOf(Flushed(v), ch["none"][k], i).name = n => EntryOf(Flushed(v), ch["none"][k], i).start = 0
  BY DEF Unneeded, Nth, Dir
<1>3. Tree(Flushed(v), ch2, x2) /\ \A i \in 1..Len(ch[n]) : ~Owned(ch2, ch[n][i])
  BY <1>1, <1>2, FileDrop, Zenon DEF Dropped
<1>4. Dir(ch2) = Dir(ch)
  BY <1>1, DropFacts
<1> QED BY <1>3, <1>4, BaseLayout DEF Loose

(* They are given up. *)
LEMMA Discards ==
  ASSUME NEW v, NEW ch, NEW x, NEW g, Base(v, ch, x, g), NEW n \in Names, NEW x2, x \subseteq x2, g => x2 = {},
         n \in x2 \/ Unneeded(v, ch, n), NEW ch2, ch2 = Dropped(ch, n),
         ch[n] # <<>>, NEW w, w = remove_chain(v, ch[n][1])
  PROVE  Base(w, ch2, x2, g) /\ Still(v, w) /\ Same(v, w)
<1>1. Base(v, ch2, x2, g) /\ Loose(ch2, ch[n])
  BY DropBase
<1>2. PICK q : q = ch[n]
  OBVIOUS
<1>3. ch[n] \in Seq(Clusters) /\ Linked(FatOf(Flushed(v)), ch[n])
  BY BaseFacts, LayoutFacts DEF Shape
<1>4. q \in Seq(Clusters) /\ q # <<>> /\ Linked(FatOf(Flushed(v)), q) /\ Loose(ch2, q) /\ w = remove_chain(v, q[1])
  BY <1>1, <1>2, <1>3
<1> QED BY <1>1, <1>4, RemoveChain

(* The open file does not care. *)
LEMMA FpDrop ==
  ASSUME NEW v, NEW ch, NEW x, NEW g, Base(v, ch, x, g), NEW p, FpOK(v, p, ch), NEW n \in Names, p.open => p.name # n,
         NEW ch2, ch2 = Dropped(ch, n)
  PROVE  FpOK(v, p, ch2)
<1>1. ch \in Layouts /\ Len(Dir(ch)) \in Nat
  BY BaseFacts, DirFacts
<1>2. Dir(ch2) = Dir(ch) /\ \A m \in Names : m # n => ch2[m] = ch[m]
  BY <1>1, DropFacts
<1>3. p.open => ch2[p.name] = ch[p.name]
  BY <1>2 DEF FpOK, FileIn
<1>4. \A k \in 1..Len(Dir(ch)), i \in 1..TableEntries : Nth(v, ch2, k, i) = Nth(v, ch, k, i)
  BY <1>2 DEF Nth
<1>5. /\ Len(Dir(ch)) \in Nat /\ Len(Dir(ch2)) \in Nat /\ Len(Dir(ch)) <= Len(Dir(ch2))
      /\ \A k \in 1..Len(Dir(ch)) : Dir(ch2)[k] = Dir(ch)[k]
      /\ \A k \in 1..Len(Dir(ch)), i \in 1..TableEntries :
           p.open /\ Nth(v, ch, k, i).name = p.name => Nth(v, ch2, k, i).name = p.name
  BY <1>1, <1>2, <1>4
<1> QED BY <1>3, <1>5, FpOther

LEMMA FpReads ==
  ASSUME NEW v, NEW ch, NEW x, NEW g, Base(v, ch, x, g), NEW p, FpOK(v, p, ch), NEW w, Flushed(w) = Flushed(v)
  PROVE  FpOK(w, p, ch)
BY SameFlushed, SameTabled, FpTabled

(* The volume and the file, after a call. *)
Settles(w, p, x, g) == \E ch : Base(w, ch, x, g) /\ FpOK(w, p, ch)

LEMMA SettlesSame ==
  ASSUME NEW v, NEW ch, NEW x, NEW g, Base(v, ch, x, g), NEW p, FpOK(v, p, ch), NEW w, Same(v, w), NEW x2, NEW g2, Base(w, ch, x2, g2)
  PROVE  Settles(w, p, x2, g2)
BY SameTabled, FpTabled, SMTT(30) DEF Settles
-----------------------------------------------------------------------------
(* f_unlink. *)
RemovedFrom(d) == dir_remove(d, d.dj)
FreedFrom(e, s) == IF s = 0 THEN e ELSE remove_chain(e, s)

LEMMA UnlinkIs ==
  ASSUME NEW v, NEW n, NEW c, c = ForWriting(v), NEW d, d = dir_find(c, n), NEW e, e = RemovedFrom(d),
         NEW r, r = FreedFrom(e, EntryAt(d, d.dj).start)
  PROVE  /\ c.res # "OK" => Unlinked(v, n) = c
         /\ c.res = "OK" /\ d.res # "OK" => Unlinked(v, n) = d
         /\ c.res = "OK" /\ d.res = "OK" /\ e.res # "OK" => Unlinked(v, n) = e
         /\ c.res = "OK" /\ d.res = "OK" /\ e.res = "OK" /\ r.res # "OK" => Unlinked(v, n) = r
         /\ c.res = "OK" /\ d.res = "OK" /\ e.res = "OK" /\ r.res = "OK" => Unlinked(v, n) = sync(r)
BY Zenon DEF ForWriting, Unlinked, OnOk, RemovedFrom, FreedFrom

(* The entry at (k, i) is removed. *)
Struck(d, w, ch, k, i) ==
  \A l \in 1..Len(Dir(ch)), j \in 1..TableEntries :
    Nth(w, ch, l, j) = IF l = k /\ j = i THEN Deleted ELSE Nth(d, ch, l, j)

LEMMA Unlisted ==
  ASSUME NEW d, NEW ch, NEW x, NEW g, Base(d, ch, x, g), NEW n \in Names, NEW p, FpOK(d, p, ch), p.open => p.name # n,
         NEW dj, NEW k, DirAt(ch, dj, k), Nth(d, ch, k, dj.at).name = n, NEW w, w = dir_remove(d, dj)
  PROVE  /\ Base(w, ch, x, g) /\ Still(d, w) /\ FpOK(w, p, ch)
         /\ w.res # "OK" => w.hit /\ Flushed(w) = Flushed(d)
         /\ w.res = "OK" => Unneeded(w, ch, n) /\ Struck(d, w, ch, k, dj.at)
<1>1. Nth(d, ch, k, dj.at) # Blank /\ n # "deleted"
  BY NamesAssumption DEF Blank
<1>2. /\ Base(w, ch, x, g) /\ Still(d, w) /\ w.res \in {"OK", "DISK_ERR"}
      /\ w.res # "OK" => w.hit /\ Flushed(w) = Flushed(d)
      /\ w.res = "OK" => Flushed(w) = EntrySet(Flushed(d), Dir(ch)[k], dj.at, Deleted)
  BY <1>1, RemoveEntry
<1>3. /\ Tree(Flushed(d), ch, x) /\ k \in 1..Len(Dir(ch)) /\ dj.at \in 1..TableEntries /\ Len(Dir(ch)) \in Nat
      /\ \A l \in 1..Len(Dir(ch)) : \A j \in 1..TableEntries : Nth(d, ch, l, j) \in Entries
  BY BaseFacts, DirFacts DEF DirAt
<1>4. CASE w.res # "OK"
  BY <1>2, <1>4, FpReads
<1>5. CASE w.res = "OK"
  <2>1. Deleted \in Entries /\ Deleted.name = "deleted" /\ Deleted.start = 0
    BY DEF Entries, Deleted
  <2>2. \A l \in 1..Len(Dir(ch)), j \in 1..TableEntries :
          Nth(w, ch, l, j) = IF l = k /\ j = dj.at THEN Deleted ELSE Nth(d, ch, l, j)
    BY <1>2, <1>3, <1>5, <2>1, NthSet
  <2>3. \A l \in 1..Len(Dir(ch)), j \in 1..TableEntries : Nth(d, ch, l, j).name = n => l = k /\ j = dj.at
    <3>1. InOrder(Flushed(d), Dir(ch))
      BY <1>3, TreeFacts DEF Dir
    <3>2. ~IsBlank(Nth(d, ch, k, dj.at))
      BY NamesAssumption DEF IsBlank
    <3> QED BY <1>3, <3>1, <3>2 DEF InOrder, Nth
  <2>4. Unneeded(w, ch, n)
    BY <2>1, <2>2, <2>3, <1>1 DEF Unneeded
  <2>5. \A l \in 1..Len(Dir(ch)), j \in 1..TableEntries :
          p.open /\ Nth(d, ch, l, j).name = p.name => Nth(w, ch, l, j).name = p.name
    BY <2>2
  <2>6. FpOK(w, p, ch)
    BY <1>3, <2>5, FpOther
  <2> QED BY <1>2, <1>5, <2>2, <2>4, <2>6 DEF Struck
<1> QED BY <1>2, <1>4, <1>5

(* What an entry that is not out of date says. *)
LEMMA EntryFits ==
  ASSUME NEW v, NEW ch, NEW x, NEW g, Base(v, ch, x, g), NEW k \in 1..Len(Dir(ch)), NEW i \in 1..TableEntries,
         NEW e, e = Nth(v, ch, k, i), e.name \in Names, e.name \notin x
  PROVE  Fits(e, ch) /\ e \in Entries /\ e.start \in {0} \cup Clusters /\ e.size \in Nat
<1>1. Tree(Flushed(v), ch, x) /\ e \in Entries
  BY BaseFacts, DirFacts
<1>2. Fits(e, ch)
  BY <1>1 DEF Tree, Match, Nth, Dir
<1> QED BY <1>1, <1>2, EntryFacts

(* f_unlink, failing anywhere, loses clusters at worst: the entry goes before *)
(* the clusters do.                                                           *)
THEOREM Unlinks ==
  ASSUME NEW c, NEW ch, NEW x, NEW g, Base(c, ch, x, g), c.res = "OK", NEW v, c = ForWriting(v),
         NEW n \in Names, n \notin x, NEW p, FpOK(c, p, ch), p.open => p.name # n, NEW w, w = Unlinked(v, n)
  PROVE  Later(c, w) /\ Settles(w, p, x, g)
<1>1. PICK d : d = dir_find(c, n)
  OBVIOUS
<1>2. PICK e : e = RemovedFrom(d)
  OBVIOUS
<1>3. PICK s : s = EntryAt(d, d.dj).start
  OBVIOUS
<1>4. PICK r : r = FreedFrom(e, s)
  OBVIOUS
<1>5. /\ d.res # "OK" => w = d
      /\ d.res = "OK" /\ e.res # "OK" => w = e
      /\ d.res = "OK" /\ e.res = "OK" /\ r.res # "OK" => w = r
      /\ d.res = "OK" /\ e.res = "OK" /\ r.res = "OK" => w = sync(r)
  BY <1>1, <1>2, <1>3, <1>4, UnlinkIs
<1>6. /\ Reads(c, d, Dir(ch)) /\ Base(d, ch, x, g) /\ Finds(c, d, ch, n)
  BY <1>1, DirFind
<1>7. Later(c, d) /\ Flushed(d) = Flushed(c)
  BY <1>6 DEF Reads
<1>8. FpOK(d, p, ch)
  BY <1>7, FpReads
<1>9. CASE d.res # "OK"
  BY <1>5, <1>6, <1>7, <1>8, <1>9 DEF Settles
<1>10. CASE d.res = "OK"
  <2>1. PICK k \in 1..Len(Dir(ch)) :
          /\ DirAt(ch, d.dj, k) /\ d.winsect = clust2sect(d.dj.clust)
          /\ EntryAt(d, d.dj) = Nth(c, ch, k, d.dj.at) /\ Nth(c, ch, k, d.dj.at).name = n
    BY <1>6, <1>10 DEF Finds
  <2>2. PICK i \in 1..TableEntries : i = d.dj.at
    BY <2>1 DEF DirAt
  <2>3. PICK y : y = Nth(d, ch, k, i)
    OBVIOUS
  <2>4. y = EntryAt(d, d.dj) /\ y.name = n
    BY <1>7, <2>1, <2>2, <2>3 DEF Nth
  <2>5. Fits(y, ch) /\ y.start \in {0} \cup Clusters /\ y.start = s
    BY <1>3, <1>6, <2>3, <2>4, EntryFits, Zenon
  <2>6. /\ Base(e, ch, x, g) /\ Still(d, e) /\ FpOK(e, p, ch)
        /\ e.res = "OK" => Unneeded(e, ch, n)
    <3>1. PICK dj : dj = d.dj
      OBVIOUS
    <3>2. DirAt(ch, dj, k) /\ Nth(d, ch, k, dj.at).name = n /\ e = dir_remove(d, dj)
      BY <1>2, <2>1, <2>2, <2>3, <2>4, <3>1, Zenon DEF RemovedFrom
    <3> QED BY <1>6, <1>8, <3>2, Unlisted
  <2>7. Later(c, e)
    BY <1>7, <2>6, LaterTrans DEF Still
  <2>8. CASE e.res # "OK"
    BY <1>5, <1>10, <2>6, <2>7, <2>8 DEF Settles
  <2>9. CASE e.res = "OK"
    <3>1. \E ch2 : Base(r, ch2, x, g) /\ Later(e, r) /\ FpOK(r, p, ch2)
      <4>1. CASE s = 0
        <5>1. r = e
          BY <1>4, <4>1 DEF FreedFrom
        <5>2. Later(e, e)
          BY <2>6, LaterSelf DEF Base, Sane
        <5> QED BY <2>6, <5>1, <5>2
      <4>2. CASE s # 0
        <5>1. ch[n] # <<>> /\ r = remove_chain(e, ch[n][1])
          BY <1>4, <2>4, <2>5, <4>2 DEF FreedFrom, Fits
        <5>2. PICK ch2 : ch2 = Dropped(ch, n)
          OBVIOUS
        <5>3. g => x = {}
          BY DEF Base
        <5>4. Base(e, ch2, x, g) /\ Base(r, ch2, x, g) /\ Still(e, r) /\ Same(e, r)
          BY <2>6, <2>9, <5>1, <5>2, <5>3, Discards, DropBase
        <5>5. FpOK(e, p, ch2)
          BY <2>6, <5>2, FpDrop
        <5>6. FpOK(r, p, ch2)
          BY <5>4, <5>5, SameTabled, FpTabled
        <5> QED BY <5>4, <5>6 DEF Still
      <4> QED BY <4>1, <4>2
    <3>2. PICK ch2 : Base(r, ch2, x, g) /\ Later(e, r) /\ FpOK(r, p, ch2)
      BY <3>1
    <3>3. Later(c, r)
      BY <2>7, <3>2, LaterTrans
    <3>4. CASE r.res # "OK"
      BY <1>5, <1>10, <2>9, <3>2, <3>3, <3>4 DEF Settles
    <3>5. CASE r.res = "OK"
      <4>1. w = sync(r)
        BY <1>5, <1>10, <2>9, <3>5
      <4>2. Base(w, ch2, x, g) /\ Still(r, w) /\ Same(r, w)
        BY <3>2, <4>1, Synchronizes DEF Syncs
      <4>3. Settles(w, p, x, g)
        BY <3>2, <4>2, SettlesSame
      <4> QED BY <3>3, <4>2, <4>3, LaterTrans DEF Still
    <3> QED BY <3>4, <3>5
  <2> QED BY <2>8, <2>9
<1> QED BY <1>9, <1>10
-----------------------------------------------------------------------------
(* f_open. *)
LastAt(r, l) == [r EXCEPT !.last_clust = l]
FreedAt(z, start) ==
  IF start = 0 THEN z
  ELSE LET r == remove_chain(z, start) IN IF r.res = "OK" THEN move_window(LastAt(r, start - 1), z.winsect) ELSE r

StoredAt(e, y) == Store(e, e.dj, y)
OpenFp(n, m, fresh, e, dj) ==
  [Closed EXCEPT !.open = TRUE, !.name = n, !.write = m.write, !.written = fresh,
                 !.org_clust = e.start, !.fsize = e.size, !.dir = dj]

Handed(r, o, n, m) ==
  /\ r.v = o
  /\ o.res # "OK" => r.fp = Closed
  /\ o.res = "OK" => \E fresh : r.fp = OpenFp(n, m, fresh, EntryAt(o, o.dj), o.dj)

HandleOf(o, n, m, fresh) ==
  [v |-> o, fp |-> IF o.res # "OK" THEN Closed ELSE OpenFp(n, m, fresh, EntryAt(o, o.dj), o.dj)]

LEMMA HandleIs ==
  ASSUME NEW o, NEW n, NEW m, NEW fresh, NEW r, r = HandleOf(o, n, m, fresh)
  PROVE  Handed(r, o, n, m)
BY DEF HandleOf, Handed

EmptiedOf(e, n) == FreedAt(StoredAt(e, Fresh(n)), EntryAt(e, e.dj).start)
FoundOf(d, n, m) ==
  CASE d.res = "NO_FILE" /\ m.create # "no" ->
         LET e == dir_register(d, n) IN HandleOf(IF e.res = "OK" THEN EmptiedOf(e, n) ELSE e, n, m, TRUE)
    [] d.res = "OK" /\ m.create = "always" -> HandleOf(EmptiedOf(d, n), n, m, TRUE)
    [] d.res = "OK" /\ m.create = "new" -> HandleOf(Err(d, "EXIST"), n, m, FALSE)
    [] OTHER -> HandleOf(d, n, m, FALSE)

FoundFrom(v, n, m) == LET c == ForMode(v, m) IN IF c.res = "OK" THEN dir_find(c, n) ELSE c

LEMMA OpenedIs ==
  ASSUME NEW v, NEW n, NEW m
  PROVE  Opened(v, n, m) = FoundOf(FoundFrom(v, n, m), n, m)
BY DEF ForMode, Opened, OnOk, HandleOf, OpenFp, FreedAt, StoredAt, LastAt, Fresh, FoundOf, FoundFrom, EmptiedOf

LEMMA OpenIs ==
  ASSUME NEW v, NEW n, NEW m, NEW c, c = ForMode(v, m), NEW d, d = dir_find(c, n), NEW e, e = dir_register(d, n),
         NEW r, r = Opened(v, n, m), NEW t, t = EntryAt(e, e.dj).start, NEW u, u = EntryAt(d, d.dj).start
  PROVE  /\ c.res \notin {"OK", "NO_FILE"} => Handed(r, c, n, m)
         /\ c.res = "OK" /\ d.res = "NO_FILE" /\ m.create # "no" /\ e.res # "OK" => Handed(r, e, n, m)
         /\ c.res = "OK" /\ d.res = "NO_FILE" /\ m.create # "no" /\ e.res = "OK"
              => Handed(r, FreedAt(StoredAt(e, Fresh(n)), t), n, m)
         /\ c.res = "OK" /\ d.res = "OK" /\ m.create = "always"
              => Handed(r, FreedAt(StoredAt(d, Fresh(n)), u), n, m)
         /\ c.res = "OK" /\ d.res = "OK" /\ m.create = "new" => Handed(r, Err(d, "EXIST"), n, m)
         /\ c.res = "OK" /\ d.res = "OK" /\ m.create \notin {"always", "new"} => Handed(r, d, n, m)
         /\ c.res = "OK" /\ d.res = "NO_FILE" /\ m.create = "no" => Handed(r, d, n, m)
         /\ c.res = "OK" /\ d.res \notin {"OK", "NO_FILE"} => Handed(r, d, n, m)
<1>1. r = FoundOf(FoundFrom(v, n, m), n, m)
  BY OpenedIs
<1>2. c.res \notin {"OK", "NO_FILE"} => Handed(r, c, n, m)
  <2>1. c.res \notin {"OK", "NO_FILE"} => r = HandleOf(c, n, m, FALSE)
    BY <1>1, Zenon DEF FoundOf, FoundFrom
  <2> QED BY <2>1, HandleIs, Zenon
<1>3. c.res = "OK" => r = FoundOf(d, n, m)
  BY <1>1 DEF FoundFrom
<1>4. /\ d.res = "NO_FILE" /\ m.create # "no" /\ e.res # "OK" => FoundOf(d, n, m) = HandleOf(e, n, m, TRUE)
      /\ d.res = "NO_FILE" /\ m.create # "no" /\ e.res = "OK" => FoundOf(d, n, m) = HandleOf(EmptiedOf(e, n), n, m, TRUE)
  BY Zenon DEF FoundOf
<1>5. /\ d.res = "OK" /\ m.create = "always" => FoundOf(d, n, m) = HandleOf(EmptiedOf(d, n), n, m, TRUE)
      /\ d.res = "OK" /\ m.create = "new" => FoundOf(d, n, m) = HandleOf(Err(d, "EXIST"), n, m, FALSE)
  BY Zenon DEF FoundOf
<1>6. /\ d.res = "OK" /\ m.create \notin {"always", "new"} => FoundOf(d, n, m) = HandleOf(d, n, m, FALSE)
      /\ d.res = "NO_FILE" /\ m.create = "no" => FoundOf(d, n, m) = HandleOf(d, n, m, FALSE)
      /\ d.res \notin {"OK", "NO_FILE"} => FoundOf(d, n, m) = HandleOf(d, n, m, FALSE)
  BY Zenon DEF FoundOf
<1>7. EmptiedOf(e, n) = FreedAt(StoredAt(e, Fresh(n)), t) /\ EmptiedOf(d, n) = FreedAt(StoredAt(d, Fresh(n)), u)
  BY DEF EmptiedOf
<1> HIDE DEF FoundOf
<1> QED BY <1>2, <1>3, <1>4, <1>5, <1>6, <1>7, HandleIs, ZenonT(60)

LEMMA OpenFpIs ==
  ASSUME NEW n, NEW m, NEW fresh, NEW e, NEW dj, e.size \in Nat, NEW h, h = OpenFp(n, m, fresh, e, dj)
  PROVE  /\ IsFp(h) /\ h.open /\ h.name = n /\ (h.written <=> fresh) /\ ~h.dirty /\ ~h.error /\ h.fptr = 0
         /\ h.fsize = e.size /\ h.org_clust = e.start /\ h.dir = dj
<1>1. /\ IsFp(h) /\ h.name = n /\ h.fptr = 0 /\ h.fsize = e.size /\ h.org_clust = e.start /\ h.dir = dj
  BY Zenon DEF OpenFp, Closed, IsFp
<1>2. h.open /\ h.written = fresh /\ ~h.dirty /\ ~h.error
  BY DEF OpenFp, Closed
<1> QED BY <1>1, <1>2

LEMMA ClosedIs == IsFp(Closed) /\ ~Closed.open /\ Closed.name = "none" /\ ~Closed.dirty /\ ~Closed.error /\ ~Closed.written
BY DEF Closed, IsFp

(* No other entry has the name. *)
LEMMA OneEntry ==
  ASSUME NEW v, NEW ch, NEW x, NEW g, Base(v, ch, x, g), NEW k \in 1..Len(Dir(ch)), NEW i \in 1..TableEntries,
         NEW n \in Names, Nth(v, ch, k, i).name = n
  PROVE  \A l \in 1..Len(Dir(ch)), j \in 1..TableEntries : Nth(v, ch, l, j).name = n => l = k /\ j = i
<1>1. InOrder(Flushed(v), Dir(ch))
  BY BaseFacts, TreeFacts DEF Dir
<1>2. ~IsBlank(Nth(v, ch, k, i))
  BY NamesAssumption DEF IsBlank
<1> QED BY <1>1, <1>2 DEF InOrder, Nth

LEMMA NoneNeeded ==
  ASSUME NEW v, NEW ch, NEW x, NEW g, Base(v, ch, x, g), NEW k \in 1..Len(Dir(ch)), NEW i \in 1..TableEntries,
         NEW n \in Names, Nth(v, ch, k, i).name = n, Nth(v, ch, k, i).start = 0
  PROVE  Unneeded(v, ch, n)
BY OneEntry DEF Unneeded

(* The handle of an entry. *)
LEMMA Opens ==
  ASSUME NEW o, NEW ch, NEW x, NEW g, Base(o, ch, x, g), x = {}, NEW k \in 1..Len(Dir(ch)), DirAt(ch, o.dj, k),
         NEW n \in Names, Nth(o, ch, k, o.dj.at).name = n, EntryAt(o, o.dj) = Nth(o, ch, k, o.dj.at),
         NEW m, NEW fresh, NEW h, h = OpenFp(n, m, fresh, EntryAt(o, o.dj), o.dj)
  PROVE  Settles(o, h, x, g) /\ h.open /\ h.fptr = 0
<1>1. PICK i \in 1..TableEntries : i = o.dj.at
  BY DEF DirAt
<1>2. PICK e : e = Nth(o, ch, k, i)
  OBVIOUS
<1>3. /\ e = EntryAt(o, o.dj) /\ e.name = n
      /\ Fits(e, ch) /\ e.start \in {0} \cup Clusters /\ e.size \in Nat
  <2>1. e.name = n /\ n \notin x /\ e = EntryAt(o, o.dj)
    BY <1>1, <1>2
  <2>2. Fits(e, ch) /\ e.start \in {0} \cup Clusters /\ e.size \in Nat
    BY <1>2, <2>1, EntryFits, Zenon
  <2> QED BY <2>1, <2>2
<1>4. PICK dj : dj = o.dj
  OBVIOUS
<1>5. /\ IsFp(h) /\ h.open /\ h.name = n /\ ~h.dirty /\ h.fptr = 0
      /\ h.fsize = e.size /\ h.org_clust = e.start /\ h.dir = dj
  <2>1. h = OpenFp(n, m, fresh, e, dj)
    BY <1>3, <1>4
  <2> QED BY <1>3, <2>1, OpenFpIs
<1>6. Entered(o, h, ch)
  BY <1>1, <1>4, <1>5 DEF Entered
<1>7. /\ ch \in Layouts /\ ch[n] \in Seq(Clusters) /\ Len(ch[n]) \in Nat
  BY BaseFacts, LayoutFacts
<1>8. \A q : Position(h, q)
  <2>1. 0 % SectorPieces = 0
    BY VolumeAssumption
  <2> QED BY <1>5, <2>1 DEF Position, Within, Buffered
<1>9. CASE e.start = 0
  <2>1. PICK ch2 : ch2 = Dropped(ch, n)
    OBVIOUS
  <2>2. Base(o, ch2, x, g)
    <3>1. Unneeded(o, ch, n)
      BY <1>1, <1>2, <1>3, <1>9, NoneNeeded
    <3>2. g => x = {}
      OBVIOUS
    <3> QED BY <2>1, <3>1, <3>2, DropBase
  <2>3. ch2[n] = <<>> /\ Dir(ch2) = Dir(ch)
    BY <1>7, <2>1, DropFacts
  <2>4. Entered(o, h, ch2)
    BY <1>6, <2>3, EnteredLayout
  <2>5. h.fsize <= 0 /\ Len(<<>>) * SectorPieces = 0
    BY <1>3, <1>5, <1>9, VolumeAssumption, EmptySeq DEF Fits
  <2>6. Holds(h, ch2[n])
    BY <1>5, <1>9, <2>3, <2>5 DEF Holds
  <2> QED BY <1>5, <1>8, <2>2, <2>4, <2>6 DEF Settles, FpOK, FileIn, DirtyIn
<1>10. CASE e.start # 0
  <2>1. ch[n] # <<>> /\ ch[n][1] = e.start /\ e.size <= Len(ch[n]) * SectorPieces
    BY <1>3, <1>10 DEF Fits
  <2>2. Holds(h, ch[n])
    BY <1>5, <2>1 DEF Holds
  <2> QED BY <1>5, <1>6, <1>8, <2>2 DEF Settles, FpOK, FileIn, DirtyIn
<1> QED BY <1>5, <1>9, <1>10

(* The volume is at the entry of n. *)
StandsAt(o, ch, n) ==
  \E k \in 1..Len(Dir(ch)) :
    /\ DirAt(ch, o.dj, k) /\ Nth(o, ch, k, o.dj.at).name = n /\ EntryAt(o, o.dj) = Nth(o, ch, k, o.dj.at)

Stands(o, x, g, n) == \E ch : Base(o, ch, x, g) /\ (o.res = "OK" => StandsAt(o, ch, n))

LEMMA Hands ==
  ASSUME NEW o, NEW x, NEW g, x = {}, NEW n \in Names, Stands(o, x, g, n), NEW m, NEW r, Handed(r, o, n, m)
  PROVE  r.v = o /\ Settles(o, r.fp, x, g) /\ r.fp.fptr = 0
<1>1. PICK ch : Base(o, ch, x, g) /\ (o.res = "OK" => StandsAt(o, ch, n))
  BY DEF Stands
<1>2. CASE o.res # "OK"
  <2>1. r.fp = Closed /\ r.v = o
    BY <1>2 DEF Handed
  <2>2. ~Closed.open /\ Closed.fptr = 0
    BY DEF Closed
  <2> QED BY <1>1, <2>1, <2>2 DEF Settles, FpOK
<1>3. CASE o.res = "OK"
  <2>1. PICK k \in 1..Len(Dir(ch)) :
          DirAt(ch, o.dj, k) /\ Nth(o, ch, k, o.dj.at).name = n /\ EntryAt(o, o.dj) = Nth(o, ch, k, o.dj.at)
    BY <1>1, <1>3 DEF StandsAt
  <2>2. PICK fresh : r.fp = OpenFp(n, m, fresh, EntryAt(o, o.dj), o.dj)
    BY <1>3 DEF Handed
  <2>3. r.v = o
    BY DEF Handed
  <2> QED BY <1>1, <2>1, <2>2, <2>3, Opens
<1> QED BY <1>2, <1>3

LEMMA LastAtIs ==
  ASSUME NEW r, IsVol(r), NEW l, NEW t, t = LastAt(r, l)
  PROVE  Core(r, t) /\ Still(r, t) /\ t.res = r.res
BY DEF LastAt, IsVol, Core, Still, Later, Dead

(* The entry is emptied, and the clusters are given up. *)
LEMMA Empties ==
  ASSUME NEW d, NEW ch, NEW x, NEW g, Base(d, ch, x, g), x = {}, NEW k \in 1..Len(Dir(ch)), DirAt(ch, d.dj, k),
         d.winsect = clust2sect(d.dj.clust), d.res = "OK", NEW n \in Names, NEW y, y = Nth(d, ch, k, d.dj.at), y.name = n,
         NEW o, o = FreedAt(StoredAt(d, Fresh(n)), y.start)
  PROVE  Still(d, o) /\ Stands(o, x, g, n)
<1>1. PICK dj : dj = d.dj
  OBVIOUS
<1>2. PICK z : z = Store(d, dj, Fresh(n))
  OBVIOUS
<1>3. PICK e : e = Fresh(n)
  OBVIOUS
<1>4. /\ e \in Entries /\ e.name = n /\ e.start = 0 /\ Fits(e, ch)
  BY <1>3, FreshFacts
<1>5. /\ Base(z, ch, x, g) /\ Still(d, z) /\ z.res = "OK" /\ z.winsect = clust2sect(dj.clust)
      /\ EntryAt(z, dj) = e
      /\ \A l \in 1..Len(Dir(ch)), j \in 1..TableEntries :
           Nth(z, ch, l, j) = IF l = k /\ j = dj.at THEN e ELSE Nth(d, ch, l, j)
  <2>1. /\ DirAt(ch, dj, k) /\ d.winsect = clust2sect(dj.clust) /\ Nth(d, ch, k, dj.at).name = e.name
        /\ e.name \in Names /\ x \subseteq x \cup {e.name} /\ (g => x = {}) /\ z = Store(d, dj, e)
    BY <1>1, <1>2, <1>3, <1>4
  <2>2. z.res = d.res
    BY <1>2 DEF Store
  <2> QED BY <1>4, <2>1, <2>2, SameEntry
<1>6. z.dj = dj /\ dj.at \in 1..TableEntries /\ DirAt(ch, dj, k)
  BY <1>1, <1>5 DEF Still, DirAt
<1>7. Nth(z, ch, k, dj.at) = e
  BY <1>5, <1>6
<1>8. o = FreedAt(z, y.start)
  BY <1>1, <1>2 DEF StoredAt
<1>9. CASE y.start = 0
  <2>1. o = z
    BY <1>8, <1>9 DEF FreedAt
  <2>2. StandsAt(z, ch, n)
    BY <1>4, <1>5, <1>6, <1>7 DEF StandsAt
  <2> QED BY <1>5, <2>1, <2>2 DEF Stands
<1>10. CASE y.start # 0
  <2>1. PICK q : q = remove_chain(z, y.start)
    OBVIOUS
  <2>2. PICK t : t = LastAt(q, y.start - 1)
    OBVIOUS
  <2>3. o = IF q.res = "OK" THEN move_window(t, z.winsect) ELSE q
    BY <1>8, <1>10, <2>1, <2>2 DEF FreedAt
  <2>4. Fits(y, ch)
    <3>1. n \notin x /\ dj.at \in 1..TableEntries /\ y = Nth(d, ch, k, dj.at)
      BY <1>1, <1>6
    <3> QED BY <3>1, EntryFits
  <2>5. ch[n] # <<>> /\ q = remove_chain(z, ch[n][1])
    BY <1>10, <2>1, <2>4 DEF Fits
  <2>6. PICK ch2 : ch2 = Dropped(ch, n)
    OBVIOUS
  <2>7. Base(q, ch2, x, g) /\ Still(z, q) /\ Same(z, q) /\ Base(z, ch2, x, g)
    <3>1. Unneeded(z, ch, n)
      BY <1>4, <1>5, <1>6, <1>7, NoneNeeded
    <3>2. g => x = {}
      OBVIOUS
    <3> QED BY <1>5, <2>5, <2>6, <3>1, <3>2, Discards, DropBase, SMTT(30)
  <2>8. Still(d, q)
    BY <1>5, <2>7, StillTrans
  <2>9. CASE q.res # "OK"
    BY <2>3, <2>7, <2>8, <2>9 DEF Stands
  <2>10. CASE q.res = "OK"
    <3>1. Core(q, t) /\ Still(q, t)
      BY <2>2, <2>7, LastAtIs DEF Base, Sane
    <3>2. Base(t, ch2, x, g)
      BY <2>7, <3>1, BaseCore DEF Still
    <3>3. Dir(ch2) = Dir(ch)
      BY <2>6, BaseFacts, DropFacts
    <3>4. DirAt(ch2, dj, k) /\ t.dj = dj
      BY <1>6, <2>7, <3>1, <3>3 DEF Still, DirAt
    <3>5. o = move_window(t, clust2sect(dj.clust))
      BY <1>5, <2>3, <2>10
    <3>6. /\ Reads(t, o, Dir(ch2)) /\ o.dj = t.dj /\ Still(t, o)
          /\ o.res = "OK" => EntryAt(o, dj) = Nth(t, ch2, k, dj.at)
      BY <3>2, <3>4, <3>5, MoveToDir
    <3>7. Base(o, ch2, x, g)
      BY <3>2, <3>6, BaseReads DEF Dir
    <3>8. Still(d, o)
      BY <2>8, <3>1, <3>6, StillTrans
    <3>9. Nth(t, ch2, k, dj.at) = e /\ Nth(o, ch2, k, dj.at) = e
      <4>1. Flushed(t) = Flushed(q)
        BY <3>1, CoreFlushed
      <4>2. Flushed(o) = Flushed(t)
        BY <3>6 DEF Reads
      <4>3. Dir(ch)[k] \in Clusters
        BY DirFacts
      <4>4. EntryOf(Flushed(q), Dir(ch)[k], dj.at) = EntryOf(Flushed(z), Dir(ch)[k], dj.at)
        BY <2>7, <4>3 DEF Same, EntryOf
      <4> QED BY <1>7, <3>3, <4>1, <4>2, <4>4 DEF Nth
    <3>10. o.res = "OK" => StandsAt(o, ch2, n)
      <4>1. o.dj = dj /\ k \in 1..Len(Dir(ch2))
        BY <3>3, <3>4, <3>6
      <4> QED BY <1>4, <3>4, <3>6, <3>9, <4>1 DEF StandsAt
    <3> QED BY <3>7, <3>8, <3>10 DEF Stands
  <2> QED BY <2>9, <2>10
<1> QED BY <1>9, <1>10

(* f_open, which may make an entry, stretch the directory or empty a file, *)
(* leaves a layout to which the new file fits; only a fault while the      *)
(* directory was being stretched can tear the volume.                      *)
THEOREM OpensFile ==
  ASSUME NEW c, NEW ch, NEW x, NEW g, Base(c, ch, x, g), x = {}, c.res = "OK", NEW v, NEW m,
         c = ForMode(v, m), NEW n \in Names, NEW r, r = Opened(v, n, m)
  PROVE  Later(c, r.v) /\ r.fp.fptr = 0 /\ (Settles(r.v, r.fp, x, g) \/ (Wreck(r.v) /\ ~r.fp.open))
<1>1. PICK d : d = dir_find(c, n)
  OBVIOUS
<1>2. PICK e : e = dir_register(d, n)
  OBVIOUS
<1>3. PICK t : t = EntryAt(e, e.dj).start
  OBVIOUS
<1>4. PICK u : u = EntryAt(d, d.dj).start
  OBVIOUS
<1>5. /\ Reads(c, d, Dir(ch)) /\ Base(d, ch, x, g) /\ Finds(c, d, ch, n)
  BY <1>1, DirFind
<1>6. Later(c, d) /\ Flushed(d) = Flushed(c)
  BY <1>5 DEF Reads
<1>7. /\ d.res = "NO_FILE" /\ m.create # "no" /\ e.res # "OK" => Handed(r, e, n, m)
      /\ d.res = "NO_FILE" /\ m.create # "no" /\ e.res = "OK" => Handed(r, FreedAt(StoredAt(e, Fresh(n)), t), n, m)
      /\ d.res = "OK" /\ m.create = "always" => Handed(r, FreedAt(StoredAt(d, Fresh(n)), u), n, m)
      /\ d.res = "OK" /\ m.create = "new" => Handed(r, Err(d, "EXIST"), n, m)
      /\ d.res = "OK" /\ m.create \notin {"always", "new"} => Handed(r, d, n, m)
      /\ d.res = "NO_FILE" /\ m.create = "no" => Handed(r, d, n, m)
      /\ d.res \notin {"OK", "NO_FILE"} => Handed(r, d, n, m)
  BY <1>1, <1>2, <1>3, <1>4, OpenIs
<1>8. d.res = "OK" => \E k \in 1..Len(Dir(ch)) :
        /\ DirAt(ch, d.dj, k) /\ d.winsect = clust2sect(d.dj.clust)
        /\ EntryAt(d, d.dj) = Nth(d, ch, k, d.dj.at) /\ Nth(d, ch, k, d.dj.at).name = n
  BY <1>5, <1>6 DEF Finds, Nth
<1>9. \/ Later(c, r.v) /\ r.fp.fptr = 0 /\ Settles(r.v, r.fp, x, g)
      \/ d.res = "NO_FILE" /\ m.create # "no" /\ e.res # "OK"
  <2>1. CASE d.res = "OK" /\ m.create = "always"
    <3>1. PICK k \in 1..Len(Dir(ch)) :
            /\ DirAt(ch, d.dj, k) /\ d.winsect = clust2sect(d.dj.clust)
            /\ EntryAt(d, d.dj) = Nth(d, ch, k, d.dj.at) /\ Nth(d, ch, k, d.dj.at).name = n
      BY <1>8, <2>1
    <3>2. PICK y : y = Nth(d, ch, k, d.dj.at)
      OBVIOUS
    <3>3. PICK o : o = FreedAt(StoredAt(d, Fresh(n)), y.start)
      OBVIOUS
    <3>4. y.name = n /\ y.start = u /\ d.res = "OK"
      BY <1>4, <2>1, <3>1, <3>2
    <3>5. Still(d, o) /\ Stands(o, x, g, n)
      BY <1>5, <3>1, <3>2, <3>3, <3>4, Empties
    <3>6. Handed(r, o, n, m)
      BY <1>7, <2>1, <3>3, <3>4
    <3>7. r.v = o /\ Settles(o, r.fp, x, g) /\ r.fp.fptr = 0
      BY <3>5, <3>6, Hands
    <3> QED BY <1>6, <3>5, <3>7, LaterTrans DEF Still
  <2>2. CASE d.res = "NO_FILE" /\ m.create # "no" /\ e.res = "OK"
    <3>1. Absent(d, ch, n)
      BY <1>5, <1>6, <2>2 DEF Finds, Absent, Nth
    <3>2. Later(d, e) /\ Registering(d, ch, e, x, g, n)
      BY <1>2, <1>5, <3>1, Registers
    <3>3. PICK ch2 : \E k \in 1..Len(Dir(ch2)) :
            /\ Base(e, ch2, x, g) /\ DirAt(ch2, e.dj, k) /\ e.winsect = clust2sect(e.dj.clust) /\ e.wflag
            /\ Stored(d, ch, e, ch2, k, e.dj.at, Fresh(n)) /\ EntryAt(e, e.dj) = Fresh(n)
      BY <2>2, <3>2 DEF Registering
    <3>4. PICK k \in 1..Len(Dir(ch2)) :
            /\ Base(e, ch2, x, g) /\ DirAt(ch2, e.dj, k) /\ e.winsect = clust2sect(e.dj.clust) /\ e.wflag
            /\ Stored(d, ch, e, ch2, k, e.dj.at, Fresh(n)) /\ EntryAt(e, e.dj) = Fresh(n)
      BY <3>3
    <3>5. PICK y : y = Nth(e, ch2, k, e.dj.at)
      OBVIOUS
    <3>6. y = Fresh(n)
      BY <3>4, <3>5 DEF Stored
    <3>7. PICK o : o = FreedAt(StoredAt(e, Fresh(n)), y.start)
      OBVIOUS
    <3>8. y.name = n /\ y.start = t /\ e.res = "OK"
      BY <1>3, <2>2, <3>4, <3>6, FreshFacts
    <3>9. Still(e, o) /\ Stands(o, x, g, n)
      BY <3>4, <3>5, <3>7, <3>8, Empties
    <3>10. Handed(r, o, n, m)
      BY <1>7, <2>2, <3>7, <3>8
    <3>11. r.v = o /\ Settles(o, r.fp, x, g) /\ r.fp.fptr = 0
      BY <3>9, <3>10, Hands
    <3>12. Later(c, e)
      BY <1>6, <3>2, LaterTrans
    <3> QED BY <3>9, <3>11, <3>12, LaterTrans DEF Still
  <2>3. CASE d.res = "OK" /\ m.create = "new"
    <3>1. PICK o : o = Err(d, "EXIST")
      OBVIOUS
    <3>2. Base(o, ch, x, g) /\ Still(d, o) /\ o.res = "EXIST"
      BY <1>5, <3>1, BaseResult DEF Err, Base, Sane, IsVol
    <3>3. Stands(o, x, g, n)
      BY <3>2 DEF Stands
    <3>4. r.v = o /\ Settles(o, r.fp, x, g) /\ r.fp.fptr = 0
      BY <1>7, <2>3, <3>1, <3>3, Hands
    <3> QED BY <1>6, <3>2, <3>4, LaterTrans DEF Still
  <2>4. CASE \/ d.res = "OK" /\ m.create \notin {"always", "new"}
             \/ d.res = "NO_FILE" /\ m.create = "no"
             \/ d.res \notin {"OK", "NO_FILE"}
    <3>1. Handed(r, d, n, m)
      BY <1>7, <2>4
    <3>2. d.res = "OK" => StandsAt(d, ch, n)
      BY <1>8 DEF StandsAt
    <3>3. Stands(d, x, g, n)
      BY <1>5, <3>2 DEF Stands
    <3>4. r.v = d /\ Settles(d, r.fp, x, g) /\ r.fp.fptr = 0
      BY <3>1, <3>3, Hands
    <3> QED BY <1>6, <3>4
  <2> QED BY <2>1, <2>2, <2>3, <2>4
<1>10. CASE d.res = "NO_FILE" /\ m.create # "no" /\ e.res # "OK"
  <2>1. Absent(d, ch, n)
    BY <1>5, <1>6, <1>10 DEF Finds, Absent, Nth
  <2>2. Later(d, e) /\ Registering(d, ch, e, x, g, n)
    BY <1>2, <1>5, <2>1, Registers
  <2>3. Later(c, e)
    BY <1>6, <2>2, LaterTrans
  <2>4. r.v = e /\ r.fp = Closed
    BY <1>7, <1>10 DEF Handed
  <2>5. ~Closed.open /\ Closed.fptr = 0
    BY DEF Closed
  <2>6. (\E ch2 : Base(e, ch2, x, g)) \/ Wreck(e)
    BY <1>10, <2>2 DEF Registering
  <2>7. \A ch2 : FpOK(e, Closed, ch2)
    BY <2>5, SMTT(30) DEF FpOK
  <2> QED BY <2>3, <2>4, <2>5, <2>6, <2>7 DEF Settles
<1> QED BY <1>9, <1>10
-----------------------------------------------------------------------------
(* f_rename. *)
NamedAs(y, m) == [y EXCEPT !.name = m]
MovedTo(e, y, m) == StoredAt(e, NamedAs(y, m))

LEMMA RenameIs ==
  ASSUME NEW v, NEW n, NEW m, NEW c, c = ForWriting(v), NEW o, o = dir_find(c, n), NEW q, q = dir_find(o, m),
         NEW e, e = dir_register(q, m), NEW s, s = MovedTo(e, EntryAt(o, o.dj), m), NEW r, r = dir_remove(s, o.dj),
         NEW w, w = Renamed(v, n, m)
  PROVE  /\ c.res # "OK" => w = c
         /\ c.res = "OK" /\ o.res # "OK" => w = o
         /\ c.res = "OK" /\ o.res = "OK" /\ q.res = "OK" => w = Err(q, "EXIST")
         /\ c.res = "OK" /\ o.res = "OK" /\ q.res \notin {"OK", "NO_FILE"} => w = q
         /\ c.res = "OK" /\ o.res = "OK" /\ q.res = "NO_FILE" /\ e.res # "OK" => w = e
         /\ c.res = "OK" /\ o.res = "OK" /\ q.res = "NO_FILE" /\ e.res = "OK" /\ r.res # "OK" => w = r
         /\ c.res = "OK" /\ o.res = "OK" /\ q.res = "NO_FILE" /\ e.res = "OK" /\ r.res = "OK" => w = sync(r)
BY DEF ForWriting, Renamed, OnOk, MovedTo, NamedAs, StoredAt

LEMMA NamedAsIs ==
  ASSUME NEW y, y \in Entries, y.name \in Names, NEW m \in Names, NEW z, z = NamedAs(y, m)
  PROVE  z \in Entries /\ z.name = m /\ z.start = y.start /\ z.size = y.size
<1>1. y \in [name : Names, start : {0} \cup Clusters, size : Nat]
  BY NamesAssumption DEF Entries, Blank, Deleted
<1> QED BY <1>1 DEF NamedAs, Entries

(* Two entries must not start the same chain. *)
LEMMA SharedUnsound ==
  ASSUME NEW card, NEW ch, NEW x, Tree(card, ch, x), NEW n \in Names, n \notin x, NEW m \in Names, m # n,
         NEW k \in 1..Len(Dir(ch)), NEW i \in 1..TableEntries, NEW y, y = EntryOf(card, Dir(ch)[k], i), y.name = n,
         NEW l \in 1..Len(Dir(ch)), NEW j \in 1..TableEntries, NEW z, z = EntryOf(card, Dir(ch)[l], j), z.name = m,
         z.start = y.start, y.start # 0
  PROVE  ~Sound(card)
<1>1. /\ Dir(ch) \in Seq(Clusters) /\ \A h \in 1..Len(Dir(ch)) : IsTable(card, Dir(ch)[h])
      /\ Chain(FatOf(card), dirbase) = Dir(ch) /\ y \in Entries
  BY TreeFacts DEF Dir
<1>2. ~IsBlank(y) /\ ~IsBlank(z) /\ y # z
  BY NamesAssumption DEF IsBlank
<1>3. y \in EntriesOf(card) /\ z \in EntriesOf(card)
  <2>1. PICK d : d = Dir(ch)
    OBVIOUS
  <2>2. \A e : e \in EntriesOf(card) <=>
           /\ \E a \in 1..Len(d), b \in 1..TableEntries : e = EntryOf(card, d[a], b)
           /\ ~IsBlank(e)
    BY <1>1, <2>1, EntriesAre, SMTT(30)
  <2> QED BY <1>2, <2>1, <2>2
<1>4. /\ FatOf(card) \in [Clusters -> Links] /\ Shape(FatOf(card), ch) /\ Fits(y, ch) /\ y.start \in {0} \cup Clusters
  <2>1. Fits(y, ch)
    BY DEF Tree, Match, Dir
  <2> QED BY <1>1, <2>1, WellTypedFacts, EntryFacts DEF Tree
<1>5. Chain(FatOf(card), y.start) = ch[n] /\ ch[n] # <<>>
  BY <1>4, FitsChain
<1>6. 1 \in 1..Len(ch[n]) /\ ch[n] \in Seq(Clusters)
  BY <1>4, <1>5, LayoutFacts DEF Shape
<1>7. DOMAIN ch[n] = 1..Len(ch[n])
  BY <1>6
<1>8. ch[n][1] \in OwnedFrom(FatOf(card), y.start)
  BY <1>5, <1>6, <1>7, Zenon DEF OwnedFrom
<1>9. Sound(card) => OwnedFrom(FatOf(card), y.start) \cap OwnedFrom(FatOf(card), z.start) = {}
  <2>1. Sound(card) <=> SoundAs(FatOf(card), EntriesOf(card), card)
    BY SoundIs
  <2>2. z \in EntriesOf(card) \ {y}
    BY <1>2, <1>3
  <2> QED BY <1>3, <2>1, <2>2, Zenon DEF SoundAs
<1> QED BY <1>8, <1>9

(* The new entry has the clusters of the old one. *)
Ruined(w) ==
  /\ Sane(w) /\ w.mounted /\ w.hit
  /\ WellTyped(w.card) /\ K(w.card) /\ WellTyped(Flushed(w)) /\ ~Sound(Flushed(w))

(* The new entry is written: m is where n was. *)
Doubled(q, ch, s, ch2, n, m, k, i, l, j, y) ==
  /\ k \in 1..Len(Dir(ch2)) /\ i \in 1..TableEntries /\ l \in 1..Len(Dir(ch2)) /\ j \in 1..TableEntries
  /\ Nth(s, ch2, k, i) = y /\ y.name = n
  /\ Nth(s, ch2, l, j) = NamedAs(y, m)

LEMMA FpStored ==
  ASSUME NEW q, NEW ch, NEW x, NEW g, Base(q, ch, x, g), NEW p, FpOK(q, p, ch),
         NEW e, NEW ch2, NEW g2, Base(e, ch2, x, g2), NEW k, NEW i, NEW y, Stored(q, ch, e, ch2, k, i, y), i \in 1..TableEntries
  PROVE  FpOK(e, p, ch2)
<1>1. Len(Dir(ch)) \in Nat /\ Len(Dir(ch2)) \in Nat
  BY DirFacts
<1>2. Len(Dir(ch)) <= Len(Dir(ch2)) /\ \A l \in 1..Len(Dir(ch)) : Dir(ch2)[l] = Dir(ch)[l]
  BY DEF Stored
<1>3. p.open => p.name \in Names /\ ch2[p.name] = ch[p.name]
  BY DEF Stored, FpOK, FileIn
<1>4. \A l \in 1..Len(Dir(ch)), j \in 1..TableEntries :
        p.open /\ Nth(q, ch, l, j).name = p.name => Nth(e, ch2, l, j).name = p.name
  <2> SUFFICES ASSUME NEW l \in 1..Len(Dir(ch)), NEW j \in 1..TableEntries, p.open, Nth(q, ch, l, j).name = p.name
      PROVE  Nth(e, ch2, l, j).name = p.name
    OBVIOUS
  <2>1. ~(l = k /\ j = i)
    <3>1. l = k /\ j = i => IsBlank(Nth(q, ch, l, j))
      BY DEF Stored
    <3>2. ~IsBlank(Nth(q, ch, l, j))
      BY <1>3, NamesAssumption DEF IsBlank
    <3> QED BY <3>1, <3>2
  <2>2. l \in 1..Len(Dir(ch2))
    BY <1>1, <1>2
  <2> QED BY <2>1, <2>2 DEF Stored
<1> QED BY <1>1, <1>2, <1>3, <1>4, FpOther

(* m has the clusters of n, and n has none. *)
TakenOver(ch, n, m) == Replaced(Dropped(ch, n), m, ch[n])
Takes(ch, ch2, n, m) ==
  /\ ch2 \in Layouts /\ ch2[m] = ch[n] /\ ch2[n] = <<>> /\ Dir(ch2) = Dir(ch)
  /\ \A a \in Names : a # n /\ a # m => ch2[a] = ch[a]

LEMMA TakenOverIs ==
  ASSUME NEW ch \in Layouts, NEW n \in Names, NEW m \in Names, n # m, NEW ch2, ch2 = TakenOver(ch, n, m)
  PROVE  Takes(ch, ch2, n, m)
<1>1. PICK d : d = Dropped(ch, n)
  OBVIOUS
<1>2. d \in Layouts /\ d[n] = <<>> /\ Dir(d) = Dir(ch) /\ \A a \in Names : a # n => d[a] = ch[a]
  BY <1>1, DropFacts, SMTT(30)
<1>3. PICK q : q = ch[n]
  OBVIOUS
<1>4. q \in Seq(Clusters) /\ ch2 = [d EXCEPT ![m] = q] /\ m # "none"
  BY <1>1, <1>3, NamesAssumption DEF TakenOver, Replaced, Layouts
<1>5. ch2 \in Layouts
  BY <1>2, <1>4 DEF Layouts
<1>6. ch2[m] = q /\ ch2["none"] = d["none"] /\ \A a \in Names : a # m => ch2[a] = d[a]
  BY <1>2, <1>4 DEF Layouts
<1> QED BY <1>2, <1>3, <1>5, <1>6 DEF Dir, Takes

(* Entry j of cluster l, z, has taken m and what y had under n. *)
TakenFrom(w, ch, x2, x, h, n, m, l, j, z, y) ==
  /\ Base(w, ch, x2, h) /\ h = FALSE /\ n \in Names /\ m \in Names /\ n # m
  /\ x2 = x \cup {m} /\ Unneeded(w, ch, n) /\ n \notin x
  /\ l \in 1..Len(Dir(ch)) /\ j \in 1..TableEntries /\ z = Nth(w, ch, l, j) /\ z.name = m
  /\ y.name = n /\ Fits(y, ch) /\ z.start = y.start /\ z.size = y.size /\ z.start # 0

LEMMA TakesOver ==
  ASSUME NEW w, NEW ch, NEW x2, NEW x, NEW h, NEW n, NEW m, NEW l, NEW j, NEW z, NEW y,
         TakenFrom(w, ch, x2, x, h, n, m, l, j, z, y), NEW ch2, ch2 = TakenOver(ch, n, m)
  PROVE  Base(w, ch2, x, h)
<1> SUFFICES
      ASSUME Base(w, ch, x2, h), h = FALSE, n \in Names, m \in Names, n # m, x2 = x \cup {m},
             Unneeded(w, ch, n), n \notin x, l \in 1..Len(Dir(ch)), j \in 1..TableEntries,
             z = Nth(w, ch, l, j), z.name = m, y.name = n, Fits(y, ch), z.start = y.start,
             z.size = y.size, z.start # 0
      PROVE  Base(w, ch2, x, h)
  BY DEF TakenFrom
<1>1. PICK d : d = Dropped(ch, n)
  OBVIOUS
<1>2. PICK q : q = ch[n]
  OBVIOUS
<1>3. PICK F : F = FatOf(Flushed(w))
  OBVIOUS
<1>4. /\ ch \in Layouts /\ Shape(F, ch) /\ WellTyped(Flushed(w)) /\ Tree(Flushed(w), ch, x2)
  BY <1>3, BaseFacts
<1>5. /\ ch2 \in Layouts /\ ch2[m] = q /\ ch2[n] = <<>> /\ Dir(ch2) = Dir(ch)
      /\ \A a \in Names : a # n /\ a # m => ch2[a] = ch[a]
  <2>1. /\ ch2 \in Layouts /\ ch2[m] = ch[n] /\ ch2[n] = <<>> /\ Dir(ch2) = Dir(ch)
        /\ \A a \in Names : a # n /\ a # m => ch2[a] = ch[a]
    <3>1. ch \in Layouts /\ n # m /\ ch2 = TakenOver(ch, n, m)
      BY <1>4
    <3>2. Takes(ch, ch2, n, m)
      BY <3>1, TakenOverIs
    <3> QED BY <3>2 DEF Takes
  <2> QED BY <1>2, <2>1
<1>6. Base(w, d, x2, h)
  BY <1>1, DropBase
<1>7. /\ d \in Layouts /\ Shape(F, d) /\ d[n] = <<>>
      /\ \A a \in Names \cup {"none"} : a # n => d[a] = ch[a]
  <2>1. d \in Layouts /\ Shape(F, d)
    BY <1>3, <1>6, BaseFacts
  <2>2. d[n] = <<>> /\ d["none"] = ch["none"] /\ \A a \in Names : a # n => d[a] = ch[a]
    BY <1>1, <1>4, DropFacts, SMTT(30)
  <2> QED BY <2>1, <2>2
<1>8. Shape(F, ch2)
  <2>1. q \in Seq(Clusters) /\ Linked(F, q) /\ OthersLinked(F, d, m)
    BY <1>2, <1>4, <1>7, LayoutFacts DEF Shape, OthersLinked
  <2>2. NotOthers(q, d, m)
    <3> SUFFICES ASSUME NEW a \in Names \cup {"none"}, a # m, NEW b \in 1..Len(q), NEW e \in 1..Len(d[a])
        PROVE  q[b] # d[a][e]
      BY DEF NotOthers
    <3>1. a # n
      BY <1>7, EmptySeq
    <3>2. d[a] = ch[a]
      BY <1>7, <3>1
    <3> QED BY <1>2, <1>4, <3>1, <3>2, SMTT(30) DEF Shape, Apart
  <2>3. ch2 = Replaced(d, m, q)
    BY <1>1, <1>2 DEF TakenOver
  <2>4. d \in Layouts /\ Apart(d) /\ d["none"] # <<>> /\ d["none"][1] = dirbase
    BY <1>7 DEF Shape
  <2> QED BY <2>1, <2>2, <2>3, <2>4, ShapeReplace
<1>9. Match(Flushed(w), ch2, x)
  <2> SUFFICES ASSUME NEW k \in 1..Len(ch2["none"]), NEW i \in 1..TableEntries,
                      NEW e, e = EntryOf(Flushed(w), ch2["none"][k], i), e.name \in Names, e.name \notin x
      PROVE  Fits(e, ch2)
    BY DEF Match
  <2>1. k \in 1..Len(Dir(ch)) /\ e = Nth(w, ch, k, i)
    BY <1>5 DEF Dir, Nth
  <2>2. CASE e.name = m
    <3>1. k = l /\ i = j
      BY <2>1, <2>2, OneEntry
    <3>2. e = z
      BY <2>1, <3>1
    <3>3. ch[n] # <<>> /\ ch[n][1] = z.start /\ z.size <= Len(ch[n]) * SectorPieces
      BY DEF Fits
    <3>4. ch2[e.name] = ch[n]
      BY <1>2, <1>5, <2>2
    <3> QED BY <3>2, <3>3, <3>4 DEF Fits
  <2>3. CASE e.name # m
    <3>1. e.name \notin x2
      BY <2>3
    <3>2. Fits(e, ch)
      BY <2>1, <3>1, EntryFits
    <3>3. CASE e.name = n
      <4>1. e.start = 0
        BY <2>1, <3>3 DEF Unneeded
      <4> QED BY <3>2, <4>1 DEF Fits
    <3>4. CASE e.name # n
      <4>1. ch2[e.name] = ch[e.name]
        BY <1>5, <2>3, <3>4
      <4> QED BY <3>2, <4>1 DEF Fits
    <3> QED BY <3>3, <3>4
  <2> QED BY <2>2, <2>3
<1>10. Tree(Flushed(w), ch2, x)
  <2>1. Alike(Flushed(w), Flushed(w)) /\ ch2["none"] = ch["none"]
    BY <1>5, AlikeSelf DEF Dir
  <2> QED BY <1>3, <1>4, <1>8, <1>9, <2>1, AlikeMatch
<1> QED BY <1>5, <1>10, BaseLayout

(* An entry was found for n, a place for m: the entry is moved there. *)
FoundFor(q, ch, dj, k, n, y) ==
  /\ k \in 1..Len(Dir(ch)) /\ DirAt(ch, dj, k) /\ y = Nth(q, ch, k, dj.at) /\ y.name = n

PlaceFor(q, ch, e, ch2, l, m) ==
  /\ l \in 1..Len(Dir(ch2)) /\ DirAt(ch2, e.dj, l) /\ e.winsect = clust2sect(e.dj.clust)
  /\ Stored(q, ch, e, ch2, l, e.dj.at, Fresh(m))

(* The entry of n is still there, at another place than that of m. *)
LEMMA StillThere ==
  ASSUME NEW q, NEW ch, NEW x, NEW g, Base(q, ch, x, g), NEW e, NEW ch2, Base(e, ch2, x, g), NEW n \in Names,
         NEW dj, NEW k, NEW y, FoundFor(q, ch, dj, k, n, y), NEW l, NEW m \in Names, PlaceFor(q, ch, e, ch2, l, m)
  PROVE  /\ FoundFor(e, ch2, dj, k, n, y) /\ ~(k = l /\ dj.at = e.dj.at)
         /\ Nth(e, ch2, l, e.dj.at).name = m
<1>1. k \in 1..Len(Dir(ch)) /\ DirAt(ch, dj, k) /\ y = Nth(q, ch, k, dj.at) /\ y.name = n
  BY DEF FoundFor
<1>2. /\ Stored(q, ch, e, ch2, l, e.dj.at, Fresh(m)) /\ l \in 1..Len(Dir(ch2)) /\ DirAt(ch2, e.dj, l)
  BY DEF PlaceFor
<1>3. Len(Dir(ch)) \in Nat /\ Len(Dir(ch2)) \in Nat
  BY DirFacts
<1>4. Len(Dir(ch)) <= Len(Dir(ch2)) /\ Dir(ch2)[k] = Dir(ch)[k] /\ k \in 1..Len(Dir(ch2))
  BY <1>1, <1>2, <1>3 DEF Stored
<1>5. dj.at \in 1..TableEntries /\ e.dj.at \in 1..TableEntries
  BY <1>1, <1>2 DEF DirAt
<1>6. ~(k = l /\ dj.at = e.dj.at)
  <2>1. ~IsBlank(y)
    BY <1>1, NamesAssumption DEF IsBlank
  <2>2. l \in 1..Len(Dir(ch)) => IsBlank(Nth(q, ch, l, e.dj.at))
    BY <1>2 DEF Stored
  <2> QED BY <1>1, <2>1, <2>2
<1>7. Nth(e, ch2, k, dj.at) = y
  BY <1>1, <1>2, <1>4, <1>5, <1>6 DEF Stored
<1>8. DirAt(ch2, dj, k)
  BY <1>1, <1>4 DEF DirAt
<1>9. Nth(e, ch2, l, e.dj.at).name = m
  BY <1>2, FreshFacts DEF Stored
<1> QED BY <1>1, <1>4, <1>6, <1>7, <1>8, <1>9 DEF FoundFor

(* It is written for m. *)
WrittenAs(e, s, ch2, p, x2, g2, dj, k, n, y, l, m) ==
  /\ Base(s, ch2, x2, g2) /\ FpOK(s, p, ch2) /\ Still(e, s) /\ FoundFor(s, ch2, dj, k, n, y)
  /\ Nth(s, ch2, l, e.dj.at) = NamedAs(y, m)

LEMMA WrittenFor ==
  ASSUME NEW e, NEW ch2, NEW x, NEW g, Base(e, ch2, x, g), NEW n \in Names, n \notin x, NEW m \in Names, n # m,
         NEW p, FpOK(e, p, ch2), p.open => p.name # m,
         NEW dj, NEW k, NEW y, FoundFor(e, ch2, dj, k, n, y), NEW l \in 1..Len(Dir(ch2)), DirAt(ch2, e.dj, l),
         e.winsect = clust2sect(e.dj.clust), Nth(e, ch2, l, e.dj.at).name = m,
         NEW x2, NEW g2, x \subseteq x2 \cup {m}, g2 => g /\ x2 = {}, m \in x2 \/ y.start = 0,
         NEW s, s = MovedTo(e, y, m)
  PROVE  WrittenAs(e, s, ch2, p, x2, g2, dj, k, n, y, l, m)
<1>1. k \in 1..Len(Dir(ch2)) /\ DirAt(ch2, dj, k) /\ y = Nth(e, ch2, k, dj.at) /\ y.name = n
  BY DEF FoundFor
<1>2. dj.at \in 1..TableEntries /\ e.dj.at \in 1..TableEntries
  BY <1>1 DEF DirAt
<1>3. Fits(y, ch2) /\ y \in Entries
  BY <1>1, <1>2, EntryFits
<1>4. PICK z : z = NamedAs(y, m)
  OBVIOUS
<1>5. z \in Entries /\ z.name = m /\ z.start = y.start /\ z.size = y.size
  BY <1>1, <1>3, <1>4, NamedAsIs
<1>6. z.name \notin x2 => Fits(z, ch2)
  <2>1. z.start = 0 => Fits(z, ch2)
    <3>1. y.start = 0 => y.size <= 0
      BY <1>3 DEF Fits
    <3> QED BY <1>5, <3>1 DEF Fits
  <2> QED BY <1>5, <2>1
<1>7. PICK d : d = e.dj
  OBVIOUS
<1>8. Base(e, ch2, x, g2)
  <2>1. g2 => g
    OBVIOUS
  <2>2. Base(e, ch2, x, FALSE)
    BY BaseWeaker, Zenon
  <2> QED BY <2>1, <2>2 DEF Base
<1>9. /\ Base(s, ch2, x2, g2) /\ Still(e, s)
      /\ \A a \in 1..Len(Dir(ch2)), b \in 1..TableEntries :
           Nth(s, ch2, a, b) = IF a = l /\ b = d.at THEN z ELSE Nth(e, ch2, a, b)
  <2>1. /\ DirAt(ch2, d, l) /\ e.winsect = clust2sect(d.clust) /\ z \in Entries /\ z.name \in Names
        /\ Nth(e, ch2, l, d.at).name = z.name /\ x \subseteq x2 \cup {z.name} /\ (g2 => x2 = {}) /\ s = Store(e, d, z)
    BY <1>4, <1>5, <1>7 DEF MovedTo, StoredAt
  <2> QED BY <1>6, <1>8, <2>1, SameEntry
<1>10. FpOK(s, p, ch2)
  <2>1. \A a \in 1..Len(Dir(ch2)), b \in 1..TableEntries :
          p.open /\ Nth(e, ch2, a, b).name = p.name => Nth(s, ch2, a, b).name = p.name
    <3>1. Nth(e, ch2, l, d.at).name = m
      BY <1>7
    <3> QED BY <1>9, <3>1
  <2>2. Len(Dir(ch2)) \in Nat
    BY DirFacts
  <2> QED BY <2>1, <2>2, FpOther
<1>11. ~(k = l /\ dj.at = d.at)
  <2>1. Nth(e, ch2, l, d.at).name = m
    BY <1>7
  <2> QED BY <1>1, <2>1
<1>12. Nth(s, ch2, k, dj.at) = y /\ Nth(s, ch2, l, d.at) = z
  BY <1>1, <1>2, <1>7, <1>9, <1>11
<1> QED BY <1>1, <1>4, <1>7, <1>9, <1>10, <1>12 DEF FoundFor, WrittenAs

(* The old entry is removed then. *)
Moving(r, p, x, g) ==
  \/ Settles(r, p, x, g)
  \/ r.res # "OK" /\ Ruined(r)
  \/ r.res = "OK" /\ Settles(r, p, x, FALSE)

LEMMA Moved1 ==
  ASSUME NEW e, NEW ch2, NEW x, NEW g, Base(e, ch2, x, g), NEW n \in Names, n \notin x, NEW m \in Names, n # m,
         NEW p, FpOK(e, p, ch2), p.open => p.name # m /\ p.name # n,
         NEW dj, NEW k, NEW y, FoundFor(e, ch2, dj, k, n, y), NEW l \in 1..Len(Dir(ch2)), DirAt(ch2, e.dj, l),
         e.winsect = clust2sect(e.dj.clust), Nth(e, ch2, l, e.dj.at).name = m,
         NEW s, s = MovedTo(e, y, m), NEW r, r = dir_remove(s, dj)
  PROVE  Still(e, r) /\ Moving(r, p, x, g)
<1>1. CASE y.start = 0
  <2>1. /\ x \subseteq x \cup {m} /\ (g => g /\ x = {}) /\ (m \in x \/ y.start = 0)
        /\ (p.open => p.name # m)
    BY <1>1 DEF Base
  <2>2. Base(s, ch2, x, g) /\ FpOK(s, p, ch2) /\ Still(e, s) /\ FoundFor(s, ch2, dj, k, n, y)
    <3>1. WrittenAs(e, s, ch2, p, x, g, dj, k, n, y, l, m)
      BY <2>1, WrittenFor
    <3> QED BY <3>1 DEF WrittenAs
  <2>3. DirAt(ch2, dj, k) /\ Nth(s, ch2, k, dj.at).name = n /\ (p.open => p.name # n)
    BY <2>2 DEF FoundFor
  <2>4. Base(r, ch2, x, g) /\ Still(s, r) /\ FpOK(r, p, ch2)
    BY <2>2, <2>3, Unlisted
  <2> QED BY <2>2, <2>4, StillTrans, Zenon DEF Moving, Settles
<1>2. CASE y.start # 0
  <2>1. PICK x2, h : x2 = x \cup {m} /\ h = FALSE
    BY Zenon
  <2>2. /\ x \subseteq x2 \cup {m} /\ (h => g /\ x2 = {}) /\ (m \in x2 \/ y.start = 0)
        /\ (p.open => p.name # m)
    BY <2>1
  <2>3. /\ Base(s, ch2, x2, h) /\ FpOK(s, p, ch2) /\ Still(e, s) /\ FoundFor(s, ch2, dj, k, n, y)
        /\ Nth(s, ch2, l, e.dj.at) = NamedAs(y, m)
    <3>1. WrittenAs(e, s, ch2, p, x2, h, dj, k, n, y, l, m)
      BY <2>2, WrittenFor
    <3> QED BY <3>1 DEF WrittenAs
  <2>4. k \in 1..Len(Dir(ch2)) /\ DirAt(ch2, dj, k) /\ y = Nth(s, ch2, k, dj.at) /\ y.name = n
    BY <2>3 DEF FoundFor
  <2>5. PICK i \in 1..TableEntries : i = dj.at
    BY <2>4 DEF DirAt
  <2>6. PICK j \in 1..TableEntries : j = e.dj.at
    BY DEF DirAt
  <2>7. PICK z : z = NamedAs(y, m)
    OBVIOUS
  <2>8. n \notin x2
    BY <2>1
  <2>9. y = Nth(s, ch2, k, i) /\ z = Nth(s, ch2, l, j)
    BY <2>3, <2>4, <2>5, <2>6, <2>7
  <2>10. Fits(y, ch2) /\ y \in Entries
    BY <2>3, <2>4, <2>8, <2>9, EntryFits
  <2>11. z \in Entries /\ z.name = m /\ z.start = y.start /\ z.size = y.size
    BY <2>4, <2>7, <2>10, NamedAsIs
  <2>12. /\ Base(r, ch2, x2, h) /\ Still(s, r) /\ FpOK(r, p, ch2)
         /\ r.res # "OK" => r.hit /\ Flushed(r) = Flushed(s)
         /\ r.res = "OK" => Unneeded(r, ch2, n) /\ Struck(s, r, ch2, k, dj.at)
    <3>1. DirAt(ch2, dj, k) /\ Nth(s, ch2, k, dj.at).name = n /\ (p.open => p.name # n)
      BY <2>4
    <3> QED BY <2>3, <3>1, Unlisted
  <2>13. Still(e, r)
    BY <2>3, <2>12, StillTrans
  <2>14. CASE r.res # "OK"
    <3>1. PICK card : card = Flushed(r)
      OBVIOUS
    <3>2. Tree(card, ch2, x2) /\ WellTyped(card)
      BY <2>12, <3>1, BaseFacts
    <3>3. y = EntryOf(card, Dir(ch2)[k], i) /\ z = EntryOf(card, Dir(ch2)[l], j)
      BY <2>9, <2>12, <2>14, <3>1, Zenon DEF Nth
    <3>4. ~Sound(card)
      BY <1>2, <2>4, <2>8, <2>11, <3>2, <3>3, SharedUnsound
    <3>5. Ruined(r)
      BY <2>12, <2>14, <3>1, <3>2, <3>4 DEF Ruined, Base
    <3> QED BY <2>13, <2>14, <3>5, Zenon DEF Moving
  <2>15. CASE r.res = "OK"
    <3>1. PICK ch3 : ch3 = TakenOver(ch2, n, m)
      OBVIOUS
    <3>2. z = Nth(r, ch2, l, j)
      <4>1. ~(l = k /\ j = dj.at)
        BY <2>4, <2>5, <2>9, <2>11
      <4> QED BY <2>9, <2>12, <2>15, <4>1, Zenon DEF Struck
    <3>3. z.start # 0 /\ n # m
      BY <1>2, <2>11
    <3>4. Base(r, ch3, x, h)
      <4>1. /\ Base(r, ch2, x2, h) /\ h = FALSE /\ n # m /\ x2 = x \cup {m} /\ Unneeded(r, ch2, n)
            /\ z.name = m /\ y.name = n /\ Fits(y, ch2) /\ z.start = y.start /\ z.size = y.size /\ z.start # 0
            /\ n \in Names /\ m \in Names /\ n \notin x /\ l \in 1..Len(Dir(ch2)) /\ j \in 1..TableEntries
        BY <2>1, <2>4, <2>10, <2>11, <2>12, <2>15, <3>3
      <4>2. TakenFrom(r, ch2, x2, x, h, n, m, l, j, z, y)
        BY <3>2, <4>1, Zenon DEF TakenFrom
      <4> QED BY <3>1, <4>2, TakesOver, Zenon
    <3>5. Takes(ch2, ch3, n, m)
      <4>1. ch2 \in Layouts
        BY <2>12, BaseFacts
      <4> QED BY <3>1, <3>3, <4>1, TakenOverIs
    <3>6. FpOK(r, p, ch3)
      <4>1. Dir(ch3) = Dir(ch2) /\ Len(Dir(ch2)) \in Nat
        BY <2>12, <3>5, DirFacts DEF Takes
      <4>2. p.open => ch3[p.name] = ch2[p.name]
        BY <2>12, <3>5 DEF Takes, FpOK, FileIn
      <4>3. \A a \in 1..Len(Dir(ch2)), b \in 1..TableEntries : Nth(r, ch3, a, b) = Nth(r, ch2, a, b)
        BY <4>1 DEF Nth
      <4>4. /\ Len(Dir(ch2)) \in Nat /\ Len(Dir(ch3)) \in Nat /\ Len(Dir(ch2)) <= Len(Dir(ch3))
            /\ \A a \in 1..Len(Dir(ch2)) : Dir(ch3)[a] = Dir(ch2)[a]
            /\ \A a \in 1..Len(Dir(ch2)), b \in 1..TableEntries :
                 p.open /\ Nth(r, ch2, a, b).name = p.name => Nth(r, ch3, a, b).name = p.name
        BY <4>1, <4>3
      <4> QED BY <2>12, <4>2, <4>4, FpOther, SMTT(30)
    <3>7. Settles(r, p, x, FALSE)
      BY <2>1, <3>4, <3>6, Zenon DEF Settles
    <3> QED BY <2>13, <2>15, <3>7, Zenon DEF Moving
  <2> QED BY <2>14, <2>15
<1> QED BY <1>1, <1>2

RenameEnds(w, p, x, g) ==
  \/ Settles(w, p, x, g)
  \/ Settles(w, p, x, FALSE) /\ (w.hit \/ ~w.wflag)
  \/ Wreck(w)
  \/ Ruined(w)

(* Synced, what was moved is on the card. *)
LEMMA MovedSynced ==
  ASSUME NEW r, NEW p, NEW x, NEW g, Moving(r, p, x, g), r.res = "OK", NEW w, w = sync(r)
  PROVE  Later(r, w) /\ RenameEnds(w, p, x, g)
<1>1. CASE Settles(r, p, x, g)
  <2>1. PICK ch : Base(r, ch, x, g) /\ FpOK(r, p, ch)
    BY <1>1 DEF Settles
  <2>2. Base(w, ch, x, g) /\ Still(r, w) /\ Same(r, w)
    BY <2>1, Synchronizes DEF Syncs
  <2>3. Settles(w, p, x, g)
    BY <2>1, <2>2, SettlesSame
  <2> QED BY <2>2, <2>3 DEF RenameEnds, Still
<1>2. CASE Settles(r, p, x, FALSE)
  <2>1. PICK h : h = FALSE
    BY Zenon
  <2>2. PICK ch : Base(r, ch, x, h) /\ FpOK(r, p, ch)
    BY <1>2, <2>1, Zenon DEF Settles
  <2>3. Base(w, ch, x, h) /\ Still(r, w) /\ Same(r, w) /\ (w.hit \/ ~w.wflag)
    BY <2>2, Synchronizes DEF Syncs
  <2>4. Settles(w, p, x, h)
    BY <2>2, <2>3, SettlesSame
  <2>5. Settles(w, p, x, FALSE)
    BY <2>1, <2>4, Zenon
  <2> QED BY <2>3, <2>5, Zenon DEF RenameEnds, Still
<1> QED BY <1>1, <1>2, Zenon DEF Moving

(* f_rename leaves the volume its layout; only a fault between the new entry *)
(* and the removal of the old one can tear it.                               *)
THEOREM Renames ==
  ASSUME NEW c, NEW ch, NEW x, NEW g, Base(c, ch, x, g), c.res = "OK", NEW v, c = ForWriting(v),
         NEW n \in Names, n \notin x, NEW m \in Names, NEW p, FpOK(c, p, ch), p.open => p.name # n /\ p.name # m,
         NEW w, w = Renamed(v, n, m)
  PROVE  Later(c, w) /\ RenameEnds(w, p, x, g)
<1>1. PICK o : o = dir_find(c, n)
  OBVIOUS
<1>2. PICK q : q = dir_find(o, m)
  OBVIOUS
<1>3. PICK e : e = dir_register(q, m)
  OBVIOUS
<1>4. PICK y : y = EntryAt(o, o.dj)
  OBVIOUS
<1>5. PICK s : s = MovedTo(e, y, m)
  OBVIOUS
<1>6. PICK dj : dj = o.dj
  OBVIOUS
<1>7. PICK r : r = dir_remove(s, dj)
  OBVIOUS
<1>8. /\ o.res # "OK" => w = o
      /\ o.res = "OK" /\ q.res = "OK" => w = Err(q, "EXIST")
      /\ o.res = "OK" /\ q.res \notin {"OK", "NO_FILE"} => w = q
      /\ o.res = "OK" /\ q.res = "NO_FILE" /\ e.res # "OK" => w = e
      /\ o.res = "OK" /\ q.res = "NO_FILE" /\ e.res = "OK" /\ r.res # "OK" => w = r
      /\ o.res = "OK" /\ q.res = "NO_FILE" /\ e.res = "OK" /\ r.res = "OK" => w = sync(r)
  BY <1>1, <1>2, <1>3, <1>4, <1>5, <1>6, <1>7, RenameIs
<1>9. /\ Reads(c, o, Dir(ch)) /\ Base(o, ch, x, g) /\ Finds(c, o, ch, n)
  BY <1>1, DirFind
<1>10. /\ Reads(o, q, Dir(ch)) /\ Base(q, ch, x, g) /\ Finds(o, q, ch, m)
  BY <1>2, <1>9, DirFind
<1>11. Later(c, o) /\ Flushed(o) = Flushed(c) /\ Later(o, q) /\ Flushed(q) = Flushed(c)
  BY <1>9, <1>10 DEF Reads
<1>12. Later(c, q)
  BY <1>11, LaterTrans
<1>13. FpOK(o, p, ch) /\ FpOK(q, p, ch)
  BY <1>11, FpReads
<1>14. CASE o.res # "OK"
  BY <1>8, <1>9, <1>11, <1>13, <1>14, Zenon DEF Settles, RenameEnds
<1>15. CASE o.res = "OK" /\ q.res = "OK"
  <2>1. PICK u : u = Err(q, "EXIST")
    OBVIOUS
  <2>2. Base(u, ch, x, g) /\ Still(q, u) /\ Same(q, u)
    BY <1>10, <2>1, BaseResult
  <2>3. Settles(u, p, x, g)
    BY <1>10, <1>13, <2>2, SettlesSame
  <2>4. w = u
    BY <1>8, <1>15, <2>1
  <2> QED BY <1>12, <2>2, <2>3, <2>4, LaterTrans DEF RenameEnds, Still
<1>16. CASE o.res = "OK" /\ q.res \notin {"OK", "NO_FILE"}
  BY <1>8, <1>10, <1>12, <1>13, <1>16, Zenon DEF Settles, RenameEnds
<1>17. CASE o.res = "OK" /\ q.res = "NO_FILE"
  <2>1. PICK k \in 1..Len(Dir(ch)) :
          /\ DirAt(ch, o.dj, k) /\ EntryAt(o, o.dj) = Nth(c, ch, k, o.dj.at) /\ Nth(c, ch, k, o.dj.at).name = n
    BY <1>9, <1>17 DEF Finds
  <2>2. FoundFor(q, ch, dj, k, n, y)
    BY <1>4, <1>6, <1>11, <2>1 DEF FoundFor, Nth
  <2>3. Absent(q, ch, m)
    BY <1>10, <1>11, <1>17 DEF Finds, Absent, Nth
  <2>4. n # m
    <3>1. k \in 1..Len(Dir(ch)) /\ dj.at \in 1..TableEntries /\ Nth(q, ch, k, dj.at).name = n
      BY <2>2 DEF FoundFor, DirAt
    <3> QED BY <2>3, <3>1 DEF Absent
  <2>5. Later(q, e) /\ Registering(q, ch, e, x, g, m)
    BY <1>3, <1>10, <2>3, Registers
  <2>6. Later(c, e)
    BY <1>12, <2>5, LaterTrans
  <2>7. CASE e.res # "OK"
    <3>1. w = e
      BY <1>8, <1>17, <2>7
    <3>2. CASE Wreck(e)
      BY <2>6, <3>1, <3>2 DEF RenameEnds
    <3>3. CASE \E ch2 : Base(e, ch2, x, g) /\ MoreDir(q, ch, e, ch2)
      <4>1. PICK ch2 : Base(e, ch2, x, g) /\ MoreDir(q, ch, e, ch2)
        BY <3>3
      <4>2. FpOK(e, p, ch2)
        BY <1>10, <1>13, <4>1, BaseFacts, FpMoreDir
      <4> QED BY <2>6, <3>1, <4>1, <4>2, Zenon DEF RenameEnds, Settles
    <3> QED BY <2>5, <2>7, <3>2, <3>3 DEF Registering
  <2>8. CASE e.res = "OK"
    <3>1. PICK ch2 : \E l \in 1..Len(Dir(ch2)) :
            /\ Base(e, ch2, x, g) /\ DirAt(ch2, e.dj, l) /\ e.winsect = clust2sect(e.dj.clust)
            /\ Stored(q, ch, e, ch2, l, e.dj.at, Fresh(m))
      BY <2>5, <2>8 DEF Registering
    <3>2. PICK l \in 1..Len(Dir(ch2)) :
            /\ Base(e, ch2, x, g) /\ DirAt(ch2, e.dj, l) /\ e.winsect = clust2sect(e.dj.clust)
            /\ Stored(q, ch, e, ch2, l, e.dj.at, Fresh(m))
      BY <3>1
    <3>3. PlaceFor(q, ch, e, ch2, l, m)
      BY <3>2 DEF PlaceFor
    <3>4. FoundFor(e, ch2, dj, k, n, y) /\ Nth(e, ch2, l, e.dj.at).name = m
      BY <1>10, <2>2, <3>2, <3>3, StillThere
    <3>5. FpOK(e, p, ch2)
      <4>1. PICK i, f : i = e.dj.at /\ f = Fresh(m)
        OBVIOUS
      <4>2. i \in 1..TableEntries /\ Stored(q, ch, e, ch2, l, i, f)
        BY <3>2, <4>1 DEF DirAt
      <4> QED BY <1>10, <1>13, <3>2, <4>2, FpStored
    <3>6. Still(e, r) /\ Moving(r, p, x, g)
      BY <1>5, <1>7, <2>4, <3>2, <3>4, <3>5, Moved1
    <3>7. Later(c, r)
      BY <2>6, <3>6, LaterTrans DEF Still
    <3>8. CASE r.res # "OK"
      BY <1>8, <1>17, <2>8, <3>6, <3>7, <3>8, Zenon DEF Moving, RenameEnds
    <3>9. CASE r.res = "OK"
      <4>1. w = sync(r)
        BY <1>8, <1>17, <2>8, <3>9
      <4>2. Later(r, w) /\ RenameEnds(w, p, x, g)
        BY <3>6, <3>9, <4>1, MovedSynced
      <4> QED BY <3>7, <4>2, LaterTrans
    <3> QED BY <3>8, <3>9
  <2> QED BY <2>7, <2>8
<1> QED BY <1>14, <1>15, <1>16, <1>17
-----------------------------------------------------------------------------
(* Calls that only read: f_stat, f_getfree, f_readdir. *)
LEMMA ReadsSettles ==
  ASSUME NEW v, NEW ch, NEW x, NEW g, Base(v, ch, x, g), NEW p, FpOK(v, p, ch), NEW w, Reads(v, w, Dir(ch))
  PROVE  Later(v, w) /\ Settles(w, p, x, g)
<1>1. Base(w, ch, x, g)
  BY BaseReads DEF Dir
<1>2. FpOK(w, p, ch)
  BY FpReads DEF Reads
<1> QED BY <1>1, <1>2 DEF Settles, Reads

StatOf(v, n) == OnOk(chk_mounted(v, FALSE), LAMBDA c : dir_find(c, n))

LEMMA StatIs ==
  ASSUME NEW v, NEW n, NEW c, c = ForReading(v)
  PROVE  /\ c.res # "OK" => StatOf(v, n) = c
         /\ c.res = "OK" => StatOf(v, n) = dir_find(c, n)
BY DEF ForReading, StatOf, OnOk

LEMMA Stats ==
  ASSUME NEW c, NEW ch, NEW x, NEW g, Base(c, ch, x, g), c.res = "OK", NEW p, FpOK(c, p, ch),
         NEW v, c = ForReading(v), NEW n \in Names, NEW w, w = StatOf(v, n)
  PROVE  Later(c, w) /\ Settles(w, p, x, g)
<1>1. w = dir_find(c, n)
  BY StatIs
<1>2. Reads(c, w, Dir(ch))
  BY <1>1, DirFind
<1> QED BY <1>2, ReadsSettles

(* The number of free clusters is set. *)
Counted(v, n) == [v EXCEPT !.free_clust = n, !.fsi_flag = TRUE]

LEMMA CountedFacts ==
  ASSUME NEW v, IsVol(v), NEW n, NEW w, w = Counted(v, n)
  PROVE  Core(v, w) /\ Still(v, w)
<1>1. /\ DOMAIN w = DOMAIN v /\ w.left = v.left /\ w.mounted = v.mounted /\ w.gone = v.gone /\ w.hit = v.hit
      /\ w.stretched = v.stretched /\ w.lost = v.lost /\ w.card = v.card /\ w.winsect = v.winsect /\ w.win = v.win
      /\ w.wflag = v.wflag /\ w.dj = v.dj
  BY DEF Counted, IsVol
<1>2. IsVol(w) /\ (Dead(v) <=> Dead(w))
  BY <1>1 DEF IsVol, Dead
<1> QED BY <1>1, <1>2 DEF Core, Still, Later

CountAt(p, v, d) ==
  /\ DOMAIN p = {"v", "s", "n", "done"}
  /\ Reads(v, p.v, d)
  /\ p.done \/ p.s \in 1..(InfoSector - 1)

LEMMA CountStepIs ==
  ASSUME NEW v, NEW d \in Seq(Clusters), Sane(v), NEW p, CountAt(p, v, d), ~p.done, NEW q, q = CountStep(p)
  PROVE  CountAt(q, v, d)
<1> DEFINE m == move_window(p.v, p.s)
<1>1. p.s \in 1..(InfoSector - 1) /\ Reads(v, p.v, d) /\ Sane(p.v)
  BY DEF CountAt, Reads
<1>2. Placed(p.s, d)
  <2>1. InfoSector \in Int
    BY Sectors
  <2> QED BY <1>1, <2>1 DEF Placed
<1>3. Reads(p.v, m, d) /\ m.res \in {"OK", "DISK_ERR"}
  BY <1>1, <1>2, PlacedSectors, MoveReads DEF Moves
<1>4. Reads(v, m, d)
  BY <1>1, <1>3, ReadsTrans
<1>5. q = IF m.res # "OK" THEN Stop(p, m)
          ELSE [v |-> m, s |-> p.s + 1, n |-> p.n + Cardinality({e \in DOMAIN m.win : m.win[e] = 0}),
                done |-> p.s = FatSector(LastCluster)]
  BY DEF CountStep
<1> HIDE DEF m
<1>6. CASE m.res # "OK"
  <2>1. q = Stop(p, m)
    BY <1>5, <1>6
  <2>2. DOMAIN q = {"v", "s", "n", "done"} /\ q.v = m /\ q.done = TRUE
    BY <2>1 DEF Stop, CountAt
  <2> QED BY <1>4, <2>2 DEF CountAt
<1>7. CASE m.res = "OK"
  <2>c. PICK b \in BOOLEAN : b <=> p.s = FatSector(LastCluster)
    BY Zenon
  <2>d. b = (p.s = FatSector(LastCluster))
    BY <2>c
  <2>e. PICK n : n = p.n + Cardinality({e \in DOMAIN m.win : m.win[e] = 0})
    BY Zenon
  <2>0. q = [v |-> m, s |-> p.s + 1, n |-> n, done |-> b]
    BY <1>5, <1>7, <2>d, <2>e
  <2>a. DOMAIN q = {"v", "s", "n", "done"} /\ q.v = m /\ q.s = p.s + 1
    BY <2>0
  <2>b. q.done = b
    BY <2>0
  <2>1. DOMAIN q = {"v", "s", "n", "done"} /\ q.v = m /\ q.s = p.s + 1 /\ (q.done <=> p.s = FatSector(LastCluster))
    BY <2>a, <2>b, <2>c
  <2>2. FatSector(LastCluster) = InfoSector - 1 /\ InfoSector \in Int
    BY Sectors DEF InfoSector
  <2>3. q.done \/ q.s \in 1..(InfoSector - 1)
    BY <1>1, <2>1, <2>2
  <2> QED BY <1>4, <2>1, <2>3 DEF CountAt
<1> QED BY <1>3, <1>6, <1>7

LEMMA Counts ==
  ASSUME NEW c, NEW ch, NEW x, NEW g, Base(c, ch, x, g), c.res = "OK", NEW p, FpOK(c, p, ch),
         NEW v, c = ForReading(v), NEW w, w = FreeCounted(v)
  PROVE  Later(c, w) /\ Settles(w, p, x, g)
<1>1. Sane(c) /\ Dir(ch) \in Seq(Clusters) /\ IsVol(c)
  BY BaseFacts, DirFacts
<1>2. CASE c.free_clust <= n_fatent - 2
  <2>1. w = c
    BY <1>2, Zenon DEF ForReading, FreeCounted, OnOk
  <2>2. Reads(c, w, Dir(ch))
    BY <1>1, <2>1, ReadsSelf
  <2> QED BY <2>2, ReadsSettles
<1>3. CASE ~(c.free_clust <= n_fatent - 2)
  <2> DEFINE s == [v |-> c, s |-> 1, n |-> 0, done |-> FALSE]
  <2>1. PICK f : /\ Rows(f, "count", 0, s, InfoSector)
                 /\ w = Counted(f[InfoSector].v, f[InfoSector].n)
    BY <1>3, CountRows, ZenonT(60) DEF ForReading, Counted
  <2> DEFINE I == {i \in 0..InfoSector : CountAt(f[i], c, Dir(ch))}
  <2>2. InfoSector \in Nat /\ 1 \in 1..(InfoSector - 1)
    BY Sectors
  <2>3. 0 \in I
    <3>1. f[0] = s
      BY <2>1 DEF Rows
    <3>2. Reads(c, c, Dir(ch))
      BY <1>1, ReadsSelf
    <3>3. DOMAIN f[0] = {"v", "s", "n", "done"} /\ f[0].v = c /\ f[0].s = 1
      BY <3>1
    <3> QED BY <2>2, <3>2, <3>3 DEF CountAt
  <2>4. ASSUME NEW i \in 1..InfoSector, i - 1 \in I PROVE i \in I
    <3> DEFINE r == f[i - 1]
    <3>1. f[i] = IF r.done THEN r ELSE CountStep(r)
      BY <2>1 DEF Rows, StepOf
    <3>2. CountAt(r, c, Dir(ch))
      BY <2>4
    <3> HIDE DEF r
    <3>3. CountAt(f[i], c, Dir(ch))
      <4>1. CASE r.done
        BY <3>1, <3>2, <4>1
      <4>2. CASE ~r.done
        <5>1. f[i] = CountStep(r)
          BY <3>1, <4>2
        <5> QED BY <1>1, <3>2, <4>2, <5>1, CountStepIs
      <4> QED BY <4>1, <4>2
    <3> QED BY <2>2, <3>3
  <2>5. 0..InfoSector \subseteq I
    <3> HIDE DEF I
    <3> QED BY <2>2, <2>3, <2>4, UpTo
  <2>6. Reads(c, f[InfoSector].v, Dir(ch))
    BY <2>2, <2>5 DEF CountAt
  <2>7. PICK q : q = f[InfoSector].v
    OBVIOUS
  <2>8. PICK n : n = f[InfoSector].n
    OBVIOUS
  <2>9. Reads(c, q, Dir(ch)) /\ w = Counted(q, n) /\ Sane(q) /\ IsVol(q)
    BY <2>1, <2>6, <2>7, <2>8 DEF Reads, Sane
  <2>10. Core(q, w) /\ Later(q, w) /\ (w.stretched <=> q.stretched)
    BY <2>9, CountedFacts DEF Still
  <2>11. Reads(q, w, Dir(ch))
    BY <2>9, <2>10, CoreReads
  <2>12. Reads(c, w, Dir(ch))
    BY <2>9, <2>11, ReadsTrans
  <2> QED BY <2>12, ReadsSettles
<1> QED BY <1>2, <1>3

ListAt(p, v, ch) ==
  /\ DOMAIN p = {"v", "list", "done"}
  /\ Reads(v, p.v, Dir(ch))
  /\ ~p.done => \E k : DirAt(ch, p.v.dj, k)

AdvanceOf(p, x, fno) ==
  CASE x.res = "OK" -> [v |-> x, list |-> Append(p.list, fno), done |-> FALSE]
    [] x.res = "NO_FILE" -> [v |-> Ok(x), list |-> Append(p.list, fno), done |-> TRUE]
    [] OTHER -> Stop(p, x)

LEMMA ListStepGives ==
  ASSUME NEW p, NEW r, r = dir_read(p.v), NEW x, x = dir_next(r), NEW q, q = ListStep(p)
  PROVE  /\ r.res = "OK" => q = AdvanceOf(p, x, get_fileinfo(r))
         /\ r.res = "NO_FILE" => q = Stop(p, Ok(r))
         /\ r.res \notin {"OK", "NO_FILE"} => q = Stop(p, r)
BY DEF ListStep, AdvanceOf

LEMMA StopIs ==
  ASSUME NEW p, DOMAIN p = {"v", "list", "done"}, NEW w, NEW q, q = Stop(p, w)
  PROVE  DOMAIN q = {"v", "list", "done"} /\ q.v = w /\ q.done
<1>1. DOMAIN q = {"v", "list", "done"} /\ q.v = w /\ q.done = TRUE
  BY DEF Stop
<1> QED BY <1>1

LEMMA ListStepIs ==
  ASSUME NEW v, NEW ch, NEW x, NEW g, Base(v, ch, x, g), NEW p, ListAt(p, v, ch), ~p.done, NEW q, q = ListStep(p)
  PROVE  ListAt(q, v, ch)
<1>1. PICK k : DirAt(ch, p.v.dj, k)
  BY DEF ListAt
<1>2. PICK pv : pv = p.v
  OBVIOUS
<1>3. Reads(v, pv, Dir(ch)) /\ Base(pv, ch, x, g) /\ DirAt(ch, pv.dj, k)
  BY <1>1, <1>2, BaseReads DEF ListAt, Dir
<1>4. PICK r : r = dir_read(pv)
  OBVIOUS
<1>5. PICK a : a = "any"
  OBVIOUS
<1>6. r = Scan(pv, a) /\ a \in Names \cup {"any", "blank"}
  BY <1>4, <1>5 DEF dir_read
<1>7. Reads(pv, r, Dir(ch)) /\ Scanned(pv, r, ch, a, k, pv.dj.at)
  BY <1>3, <1>6, Scans
<1>8. Reads(v, r, Dir(ch)) /\ Sane(r)
  BY <1>3, <1>7, ReadsTrans DEF Reads
<1>9. Base(r, ch, x, g)
  BY <1>8, BaseReads DEF Dir
<1>10. PICK n : n = dir_next(r)
  OBVIOUS
<1>11. DOMAIN p = {"v", "list", "done"}
  BY DEF ListAt
<1>12. ASSUME NEW u, Reads(v, u, Dir(ch)) PROVE Reads(v, Ok(u), Dir(ch))
  <2>1. Sane(u) /\ IsVol(u)
    BY <1>12 DEF Reads, Sane
  <2>2. Core(u, Ok(u)) /\ Later(u, Ok(u)) /\ (Ok(u).stretched <=> u.stretched)
    BY <2>1, Results DEF Still
  <2>3. Reads(u, Ok(u), Dir(ch))
    BY <2>1, <2>2, CoreReads
  <2> QED BY <1>12, <2>3, ReadsTrans
<1>13. CASE r.res = "OK"
  <2>1. PICK i : DirAt(ch, r.dj, i)
    BY <1>7, <1>13 DEF Scanned, Hits
  <2>2. /\ Reads(r, n, Dir(ch)) /\ n.res \in {"OK", "NO_FILE", "DISK_ERR", "INT_ERR"}
        /\ n.res = "OK" => DirAt(ch, n.dj, i) \/ DirAt(ch, n.dj, i + 1)
    BY <1>9, <1>10, <2>1, DirNext, Zenon
  <2>3. Reads(v, n, Dir(ch))
    BY <1>8, <2>2, ReadsTrans
  <2>4. PICK fno : fno = get_fileinfo(r)
    OBVIOUS
  <2>5. q = AdvanceOf(p, n, fno)
    BY <1>2, <1>4, <1>10, <1>13, <2>4, ListStepGives
  <2>6. CASE n.res = "OK"
    <3>1. q = [v |-> n, list |-> Append(p.list, fno), done |-> FALSE]
      BY <2>5, <2>6 DEF AdvanceOf
    <3>2. DOMAIN q = {"v", "list", "done"} /\ q.v = n
      BY <3>1
    <3> QED BY <2>2, <2>3, <2>6, <3>2 DEF ListAt
  <2>7. CASE n.res = "NO_FILE"
    <3>1. q = [v |-> Ok(n), list |-> Append(p.list, fno), done |-> TRUE]
      BY <2>5, <2>7 DEF AdvanceOf
    <3>2. DOMAIN q = {"v", "list", "done"} /\ q.v = Ok(n) /\ q.done = TRUE
      BY <3>1
    <3>3. Reads(v, Ok(n), Dir(ch))
      BY <2>3, <1>12
    <3> QED BY <3>2, <3>3 DEF ListAt
  <2>8. CASE n.res \notin {"OK", "NO_FILE"}
    <3>1. q = Stop(p, n)
      BY <2>5, <2>8 DEF AdvanceOf
    <3>2. DOMAIN q = {"v", "list", "done"} /\ q.v = n /\ q.done
      BY <1>11, <3>1, StopIs
    <3> QED BY <2>3, <3>2 DEF ListAt
  <2> QED BY <2>6, <2>7, <2>8
<1>14. CASE r.res = "NO_FILE"
  <2>1. PICK u : u = Ok(r)
    OBVIOUS
  <2>2. q = Stop(p, u)
    BY <1>2, <1>4, <1>10, <1>14, <2>1, ListStepGives
  <2>3. DOMAIN q = {"v", "list", "done"} /\ q.v = u /\ q.done
    BY <1>11, <2>2, StopIs
  <2>4. Reads(v, u, Dir(ch))
    BY <1>8, <1>12, <2>1
  <2> QED BY <2>3, <2>4 DEF ListAt
<1>15. CASE r.res \notin {"OK", "NO_FILE"}
  <2>1. q = Stop(p, r)
    BY <1>2, <1>4, <1>10, <1>15, ListStepGives
  <2>2. DOMAIN q = {"v", "list", "done"} /\ q.v = r /\ q.done
    BY <1>11, <2>1, StopIs
  <2> QED BY <1>8, <2>2 DEF ListAt
<1> QED BY <1>13, <1>14, <1>15

LEMMA Lists ==
  ASSUME NEW c, NEW ch, NEW x, NEW g, Base(c, ch, x, g), c.res = "OK", NEW p, FpOK(c, p, ch),
         NEW v, c = ForReading(v), NEW w, w = Listed(v).v
  PROVE  Later(c, w) /\ Settles(w, p, x, g)
<1> DEFINE N == LastCluster * TableEntries
<1>1. PICK e : e = Rewound(c)
  OBVIOUS
<1>2. Base(e, ch, x, g) /\ Reads(c, e, Dir(ch)) /\ e.res = "OK" /\ DirAt(ch, e.dj, 1)
  BY <1>1, RewoundFacts
<1>3. PICK s : s = [v |-> e, list |-> <<>>, done |-> e.res # "OK"]
  BY Zenon
<1>4. PICK f : Rows(f, "list", 0, s, N) /\ w = f[N].v
  BY <1>1, <1>3, ListRows DEF ForReading
<1> DEFINE I == {i \in 0..N : ListAt(f[i], e, ch)}
<1>5. N \in Nat /\ Sane(e)
  BY <1>2, VolumeAssumption, BaseFacts
<1>6. 0 \in I
  <2>1. DOMAIN s = {"v", "list", "done"} /\ s.v = e
    BY <1>3
  <2>2. f[0] = s
    BY <1>4 DEF Rows
  <2>3. Reads(e, e, Dir(ch))
    BY <1>5, ReadsSelf
  <2>4. ListAt(f[0], e, ch)
    BY <1>2, <2>1, <2>2, <2>3 DEF ListAt
  <2> QED BY <1>5, <2>4
<1>7. ASSUME NEW i \in 1..N, i - 1 \in I PROVE i \in I
  <2> DEFINE r == f[i - 1]
  <2>1. f[i] = IF r.done THEN r ELSE ListStep(r)
    BY <1>4 DEF Rows, StepOf
  <2>2. ListAt(r, e, ch)
    BY <1>7
  <2> HIDE DEF r, N
  <2>3. CASE r.done
    BY <2>1, <2>2, <2>3
  <2>4. CASE ~r.done
    <3>1. f[i] = ListStep(r)
      BY <2>1, <2>4
    <3> QED BY <1>2, <2>2, <2>4, <3>1, ListStepIs
  <2> QED BY <2>3, <2>4
<1>8. 0..N \subseteq I
  <2> HIDE DEF I, N
  <2> QED BY <1>5, <1>6, <1>7, UpTo
<1>9. Reads(e, w, Dir(ch))
  <2> HIDE DEF N
  <2> QED BY <1>4, <1>5, <1>8 DEF ListAt
<1>10. Reads(c, w, Dir(ch))
  BY <1>2, <1>9, ReadsTrans
<1> QED BY <1>10, ReadsSettles
-----------------------------------------------------------------------------
(* f_read does not go past what it was asked for. *)
Paced(p, q) ==
  /\ IsRead(q) /\ IsFp(q.fp)
  /\ q.fp.fptr + q.n = p.fp.fptr + p.n

LEMMA PacedSame ==
  ASSUME NEW p, IsRead(p), NEW q, Rest(p, q), IsFp(q.fp), SamePlace(p.fp, q.fp)
  PROVE  Paced(p, q)
<1>1. IsRead(q) /\ q.n = p.n
  BY ReadLoopIn
<1> QED BY <1>1 DEF Paced, SamePlace

LEMMA PacedTrans ==
  ASSUME NEW p, NEW q, NEW r, Paced(p, q), Paced(q, r)
  PROVE  Paced(p, r)
BY DEF Paced

LEMMA TakePaced ==
  ASSUME NEW p, IsRead(p), IsFp(p.fp), NEW cnt \in Nat, cnt <= p.n, NEW at, NEW from, NEW q, q = RTake(p, at, cnt, from)
  PROVE  Paced(p, q)
<1>1. p.fp.fptr \in Nat /\ p.n \in Nat
  BY DEF IsFp, IsRead
<1>2. PICK c \in Nat : c = p.fp.fptr + cnt
  BY <1>1
<1>3. q.fp = FpAt(p.fp, c) /\ DOMAIN q = DOMAIN p /\ q.n = p.n - cnt
  BY <1>2 DEF RTake, IsRead, FpAt
<1>4. IsFp(q.fp) /\ q.fp.fptr = c
  BY <1>3, FpAtIs, SMTT(30) DEF Kin
<1>5. IsRead(q)
  BY <1>1, <1>3 DEF IsRead
<1> QED BY <1>1, <1>2, <1>3, <1>4, <1>5 DEF Paced

LEMMA PartPaced ==
  ASSUME NEW p, IsRead(p), IsFp(p.fp), NEW q, q = RPart(p)
  PROVE  Paced(p, q)
<1>1. PICK s \in Nat : s = SectorPieces /\ s > 0
  BY VolumeAssumption
<1>2. p.fp.fptr \in Nat /\ p.n \in Nat
  BY DEF IsFp, IsRead
<1>3. PICK at \in 0..(s - 1) : at = p.fp.fptr % SectorPieces
  BY <1>1, <1>2
<1>4. PICK cnt \in Nat : cnt = Lesser(SectorPieces - at, p.n) /\ cnt <= p.n
  <2>1. PICK l \in Nat : l = p.n
    BY <1>2
  <2>2. PICK m \in Nat : m = SectorPieces - at
    BY <1>1, <1>3
  <2>3. Lesser(m, l) \in Nat /\ Lesser(m, l) <= l
    BY DEF Lesser
  <2> QED BY <2>1, <2>2, <2>3
<1>5. q = RTake(p, at, cnt, p.fp.buf)
  BY <1>3, <1>4 DEF RPart
<1> QED BY <1>4, <1>5, TakePaced

LEMMA FlushFillPaced ==
  ASSUME NEW p, IsRead(p), IsFp(p.fp), NEW sect, NEW r, r = FlushFill(p, sect)
  PROVE  Paced(p, r)
<1> DEFINE w == FlushBuf(p.v, p.fp)
           a == SetV(p, w)
           b == SetFp(a, FpClean(a.fp))
           u == disk_read(b.v)
<1>1. InLoop(p)
  BY ReadLoopIn
<1>2. r = IF w.res = "OK" THEN Fill(b, sect, TRUE) ELSE Abort(a, "DISK_ERR")
  <2>1. r = IF w.res = "OK" THEN Fill(Cleaned(a), sect, TRUE) ELSE Abort(a, "DISK_ERR")
    BY DEF FlushFill, SetV
  <2>2. InLoop(a)
    <3> HIDE DEF w
    <3> QED BY <1>1, SetVIs
  <2>3. Cleaned(a) = b
    <3> HIDE DEF a
    <3> QED BY <2>2 DEF Cleaned, SetFp, FpClean, InLoop
  <2> QED BY <2>1, <2>3
<1> HIDE DEF w
<1>4. InLoop(a) /\ Rest(p, a) /\ a.fp = p.fp
  BY <1>1, SetVIs
<1> HIDE DEF a
<1>5. InLoop(b) /\ Rest(a, b) /\ b.fp = FpClean(a.fp)
  BY <1>4, SetFpIs
<1> HIDE DEF b
<1>6. IsFp(b.fp) /\ SamePlace(p.fp, b.fp)
  BY <1>4, <1>5, FpCleanIs DEF Kin
<1>7. CASE w.res # "OK"
  <2>1. r = Abort(a, "DISK_ERR")
    BY <1>2, <1>7
  <2>2. Rest(a, r) /\ r.fp = FpErr(p.fp)
    BY <1>4, <2>1, AbortIs
  <2>3. IsFp(r.fp) /\ SamePlace(p.fp, r.fp)
    BY <2>2, FpErrIs DEF Kin
  <2> QED BY <1>4, <2>2, <2>3, RestTrans, PacedSame
<1>8. CASE w.res = "OK"
  <2>1. r = Fill(b, sect, TRUE)
    BY <1>2, <1>8
  <2>2. /\ Rest(b, r)
        /\ \/ r.fp = FpSect(b.fp, sect)
           \/ \E y : r.fp = FpLoad(b.fp, sect, y)
           \/ r.fp = FpErr(b.fp)
    <3>1. PICK t : t = TRUE
      OBVIOUS
    <3>2. r = Fill(b, sect, t) /\ u = disk_read(b.v)
      BY <2>1, <3>1
    <3> HIDE DEF u
    <3> QED BY <1>5, <3>2, FillIs
  <2>3. CASE r.fp = FpErr(b.fp)
    <3>1. IsFp(r.fp) /\ SamePlace(b.fp, r.fp)
      BY <1>6, <2>3, FpErrIs DEF Kin
    <3>2. SamePlace(p.fp, r.fp)
      BY <1>6, <3>1 DEF SamePlace
    <3> QED BY <1>4, <1>5, <2>2, <3>1, <3>2, RestTrans, PacedSame
  <2>4. CASE r.fp # FpErr(b.fp)
    <3>1. PICK y : r.fp = FpSect(b.fp, sect) \/ r.fp = FpLoad(b.fp, sect, y)
      BY <2>2, <2>4
    <3>2. IsFp(r.fp) /\ SamePlace(b.fp, r.fp)
      BY <1>6, <3>1, FpLoadIs DEF Kin
    <3>3. SamePlace(p.fp, r.fp)
      BY <1>6, <3>2 DEF SamePlace
    <3> QED BY <1>4, <1>5, <2>2, <3>2, <3>3, RestTrans, PacedSame
  <2> QED BY <2>3, <2>4
<1> QED BY <1>7, <1>8

LEMMA InPaced ==
  ASSUME NEW p, IsRead(p), IsFp(p.fp), NEW sect, NEW q, q = RInSector(p, sect)
  PROVE  Paced(p, q)
<1>1. InLoop(p) /\ p.n \in Nat /\ SectorPieces \in Nat
  BY ReadLoopIn, VolumeAssumption DEF IsRead
<1>2. CASE p.n >= SectorPieces
  <2> DEFINE w == disk_read(p.v)
             a == SetV(p, w)
  <2>1. q = IF w.res = "OK" THEN RDirect(a, sect) ELSE Abort(a, "DISK_ERR")
    BY <1>2 DEF RInSector, SetV
  <2>2. InLoop(a) /\ Rest(p, a) /\ a.fp = p.fp
    <3> HIDE DEF w
    <3> QED BY <1>1, SetVIs
  <2> HIDE DEF w, a
  <2>3. Paced(p, a) /\ IsRead(a) /\ a.n = p.n
    BY <2>2, ReadLoopIn, PacedSame DEF SamePlace
  <2>4. CASE w.res = "OK"
    <3>1. PICK from : q = RTake(a, 0, SectorPieces, from)
      BY <2>1, <2>4 DEF RDirect
    <3>2. Paced(a, q)
      BY <1>1, <1>2, <2>2, <2>3, <3>1, TakePaced
    <3> QED BY <2>3, <3>2, PacedTrans
  <2>5. CASE w.res # "OK"
    <3>1. q = Abort(a, "DISK_ERR")
      BY <2>1, <2>5
    <3>2. Rest(a, q) /\ q.fp = FpErr(p.fp)
      BY <2>2, <3>1, AbortIs
    <3>3. IsFp(q.fp) /\ SamePlace(p.fp, q.fp)
      BY <3>2, FpErrIs DEF Kin
    <3> QED BY <2>2, <3>2, <3>3, RestTrans, PacedSame
  <2> QED BY <2>4, <2>5
<1>3. CASE ~(p.n >= SectorPieces)
  <2> DEFINE r == FlushFill(p, sect)
  <2>1. q = IF r.fp.error THEN r ELSE RPart(r)
    BY <1>3 DEF RInSector
  <2>2. Paced(p, r)
    BY FlushFillPaced
  <2> HIDE DEF r
  <2>3. CASE r.fp.error
    BY <2>1, <2>2, <2>3
  <2>4. CASE ~r.fp.error
    <3>1. Paced(r, q)
      BY <2>1, <2>2, <2>4, PartPaced DEF Paced
    <3> QED BY <2>2, <3>1, PacedTrans
  <2> QED BY <2>3, <2>4
<1> QED BY <1>2, <1>3

LEMMA StepPaced ==
  ASSUME NEW p, IsRead(p), IsFp(p.fp), NEW q, q = ReadStep(p)
  PROVE  Paced(p, q)
<1>1. InLoop(p)
  BY ReadLoopIn
<1>2. CASE p.fp.fptr % SectorPieces # 0
  BY <1>2, ReadStepIs, PartPaced
<1>3. CASE p.fp.fptr % SectorPieces = 0
  <2>1. PICK c : c = RCluster(p)
    OBVIOUS
  <2>2. q = RFollow(p, c)
    BY <1>3, <2>1, ReadStepIs
  <2>3. CASE clust2sect(c.val) = 0
    <3> DEFINE a == SetV(p, c)
    <3>1. q = Abort(a, ErrorOf(c.val))
      BY <2>2, <2>3 DEF RFollow, SetV
    <3>2. InLoop(a) /\ Rest(p, a) /\ a.fp = p.fp
      BY <1>1, SetVIs
    <3> HIDE DEF a
    <3>3. Rest(a, q) /\ q.fp = FpErr(p.fp)
      BY <3>1, <3>2, AbortIs
    <3>4. IsFp(q.fp) /\ SamePlace(p.fp, q.fp)
      BY <3>3, FpErrIs DEF Kin
    <3> QED BY <3>2, <3>3, <3>4, RestTrans, PacedSame
  <2>4. CASE clust2sect(c.val) # 0
    <3> DEFINE a == SetV(p, Ok(c))
               b == SetFp(a, FpCurr(p.fp, c.val))
    <3>1. q = RInSector(b, clust2sect(c.val))
      <4>1. [p EXCEPT !.v = Ok(c), !.fp.curr_clust = c.val] = b
        BY <1>1 DEF SetFp, SetV, FpCurr, InLoop
      <4> QED BY <2>2, <2>4, <4>1 DEF RFollow
    <3>2. InLoop(a) /\ Rest(p, a) /\ a.fp = p.fp
      BY <1>1, SetVIs
    <3> HIDE DEF a
    <3>3. Rest(a, b) /\ b.fp = FpCurr(p.fp, c.val)
      BY <3>2, SetFpIs
    <3> HIDE DEF b
    <3>4. IsFp(b.fp) /\ SamePlace(p.fp, b.fp)
      BY <3>3, FpCurrIs DEF Kin
    <3>5. Paced(p, b)
      BY <3>2, <3>3, <3>4, RestTrans, PacedSame
    <3>6. Paced(b, q)
      BY <3>1, <3>5, InPaced DEF Paced
    <3> QED BY <3>5, <3>6, PacedTrans
  <2> QED BY <2>3, <2>4
<1> QED BY <1>2, <1>3

LEMMA ReadsPaced ==
  ASSUME NEW v, NEW f, IsFp(f), NEW n \in Nat, NEW q, q = ReadLoop(v, f, n)
  PROVE  IsFp(q.fp) /\ q.fp.fptr <= f.fptr + n
<1>1. PICK s : s = [v |-> v, fp |-> f, n |-> n, got |-> <<>>, done |-> n = 0]
  BY Zenon
<1>2. PICK h : Rows(h, "read", 0, s, n) /\ q = h[n]
  BY <1>1, ReadRows
<1> DEFINE I == {i \in 0..n : Paced(s, h[i])}
<1>3. s.fp = f /\ s.n = n /\ DOMAIN s = {"v", "fp", "n", "got", "done"}
  BY <1>1
<1>4. Paced(s, s)
  BY <1>3 DEF Paced, IsRead, IsFp
<1>5. 0 \in I
  BY <1>2, <1>4 DEF Rows
<1>6. ASSUME NEW i \in 1..n, i - 1 \in I PROVE i \in I
  <2> DEFINE p == h[i - 1]
  <2>1. h[i] = IF p.done THEN p ELSE ReadStep(p)
    BY <1>2 DEF Rows, StepOf
  <2>2. Paced(s, p)
    BY <1>6
  <2> HIDE DEF p
  <2>3. CASE p.done
    BY <2>1, <2>2, <2>3
  <2>4. CASE ~p.done
    <3>1. Paced(p, h[i])
      BY <2>1, <2>2, <2>4, StepPaced DEF Paced
    <3>2. Paced(s, h[i])
      BY <2>2, <3>1, PacedTrans
    <3> QED BY <3>2
  <2> QED BY <2>3, <2>4
<1>7. 0..n \subseteq I
  <2> HIDE DEF I
  <2> QED BY <1>5, <1>6, UpTo
<1>8. Paced(s, q)
  BY <1>2, <1>7
<1> QED BY <1>3, <1>8 DEF Paced, IsRead, IsFp
-----------------------------------------------------------------------------
(* Between two calls. *)
(* The start and the end of a call leave the window and the card alone. *)
StartOf(v, a, b) == [v EXCEPT !.left = a, !.gone = b]
ResetOf(v) ==
  [v EXCEPT !.left = -1, !.gone = FALSE, !.hit = FALSE, !.stretched = FALSE, !.lost = FALSE, !.res = "OK",
            !.val = 0, !.dj = DirTop]

LEMMA StartFacts ==
  ASSUME NEW v, IsVol(v), NEW a \in Int, NEW b, NEW w, w = StartOf(v, a, b)
  PROVE  /\ IsVol(w) /\ Core(v, w) /\ (w.mounted <=> v.mounted) /\ (w.hit <=> v.hit) /\ (w.stretched <=> v.stretched)
         /\ w.left = a /\ w.gone = b
<1>1. /\ DOMAIN w = DOMAIN v /\ w.left = a /\ w.gone = b /\ w.mounted = v.mounted /\ w.hit = v.hit
      /\ w.stretched = v.stretched /\ w.card = v.card /\ w.winsect = v.winsect /\ w.win = v.win /\ w.wflag = v.wflag
  BY DEF StartOf, IsVol
<1> QED BY <1>1 DEF IsVol, Core

LEMMA ResetFacts ==
  ASSUME NEW v, IsVol(v), NEW w, w = ResetOf(v)
  PROVE  /\ IsVol(w) /\ Core(v, w) /\ (w.mounted <=> v.mounted) /\ ~w.hit /\ ~w.stretched /\ ~w.gone /\ w.left = -1
<1>1. /\ DOMAIN w = DOMAIN v /\ w.left = -1 /\ w.gone = FALSE /\ w.mounted = v.mounted /\ w.hit = FALSE
      /\ w.stretched = FALSE /\ w.card = v.card /\ w.winsect = v.winsect /\ w.win = v.win /\ w.wflag = v.wflag
  BY DEF ResetOf, IsVol
<1> QED BY <1>1 DEF IsVol, Core

LEMMA SaneCore ==
  ASSUME NEW v, Sane(v), NEW w, IsVol(w), Core(v, w)
  PROVE  Sane(w) /\ Flushed(w) = Flushed(v)
BY CoreFlushed DEF Sane, Core

LEMMA BaseAgain ==
  ASSUME NEW v, NEW ch, NEW x, NEW g, Base(v, ch, x, g), NEW w, IsVol(w), Core(v, w), w.mounted <=> v.mounted,
         NEW y, x \subseteq y, NEW g2, g2 => y = {} /\ Sound(w.card)
  PROVE  Base(w, ch, y, g2)
<1>1. Sane(w) /\ Flushed(w) = Flushed(v) /\ w.mounted
  BY SaneCore DEF Base
<1>2. Base(v, ch, y, FALSE)
  BY BaseMore, Zenon
<1>3. Tree(Flushed(w), ch, y) /\ Placed(w.winsect, ch["none"]) /\ WellTyped(w.card) /\ K(w.card)
  BY <1>1, <1>2 DEF Base, Core
<1> QED BY <1>1, <1>3 DEF Base

(* The power is off. *)
LEMMA UnmountedIdle ==
  ASSUME NEW card, WellTyped(card), K(card), NEW protect, NEW w, w = Unmounted(card, protect), NEW g, g => Sound(card)
  PROVE  Idle(w, g) /\ ~w.hit /\ ~w.stretched /\ ~w.gone /\ w.left = -1 /\ w.card = card
<1>1. /\ w.card = card /\ w.mounted = FALSE /\ w.winsect = 0 /\ w.wflag = FALSE /\ w.left = -1 /\ w.gone = FALSE
      /\ w.hit = FALSE /\ w.stretched = FALSE
      /\ DOMAIN w = {"card", "protect", "mounted", "winsect", "win", "wflag", "free_clust", "last_clust", "fsi_flag",
                     "left", "gone", "hit", "stretched", "lost", "res", "val", "dj"}
  BY DEF Unmounted
<1>2. IsVol(w) /\ True(w) /\ IsCard(w.card)
  BY <1>1, WellTypedFacts DEF IsVol, True
<1> QED BY <1>1, <1>2 DEF Idle, Sane
-----------------------------------------------------------------------------
(* What holds between two calls, ex saying what may have torn the volume:  *)
(* the volume is mounted and has a layout to which the open file fits, its *)
(* entry being out of date if the file was cut short; or it is not         *)
(* mounted, and its card in order; or it is torn, and exposed says so.  No *)
(* part of the directory is to be written over.                            *)
Settled(v, p, ex) ==
  v.mounted /\ \E x, g : /\ x = IF "file" \in ex THEN {p.name} ELSE {}
                         /\ g <=> ex = {}
                         /\ Settles(v, p, x, g)

Resting(v, p, ex) == ~p.open /\ Idle(v, FALSE) /\ ("call" \notin ex => Sound(v.card))
Broken(v, ex) == "call" \in ex /\ ~Sound(Flushed(v))
Exposures(p, ex) ==
  /\ ex \subseteq {"file", "call"}
  /\ "file" \in ex => p.open /\ p.written

Good(v, p, ex) ==
  /\ Sane(v) /\ ~v.hit /\ ~v.stretched /\ ~v.gone /\ v.left = -1
  /\ Exposures(p, ex)
  /\ p.open => InFile(p)
  /\ ~OverTable(p, Flushed(v))
  /\ Settled(v, p, ex) \/ Resting(v, p, ex) \/ Broken(v, ex)

(* What a call starts from. *)
Ready(s, p, ex) ==
  /\ Sane(s) /\ ~s.hit /\ ~s.stretched
  /\ Exposures(p, ex)
  /\ p.open => InFile(p)
  /\ ~OverTable(p, Flushed(s))
  /\ Settled(s, p, ex) \/ (Resting(s, p, ex) /\ Sound(s.card))

LEMMA SettledCore ==
  ASSUME NEW v, NEW p, NEW ex, Settled(v, p, ex), ~v.hit, NEW w, IsVol(w), Core(v, w), w.mounted <=> v.mounted
  PROVE  Settled(w, p, ex)
<1>1. PICK x, g : /\ x = (IF "file" \in ex THEN {p.name} ELSE {}) /\ (g <=> ex = {}) /\ Settles(v, p, x, g)
  BY DEF Settled
<1>2. PICK ch : Base(v, ch, x, g) /\ FpOK(v, p, ch)
  BY <1>1 DEF Settles
<1>3. g => x = {} /\ Sound(w.card)
  BY <1>2 DEF Base, Core
<1>4. Base(w, ch, x, g)
  BY <1>2, <1>3, BaseAgain
<1>5. Flushed(w) = Flushed(v)
  BY <1>2, SaneCore DEF Base
<1>6. FpOK(w, p, ch)
  BY <1>2, <1>5, FpReads
<1> QED BY <1>1, <1>4, <1>6 DEF Settled, Settles

LEMMA Starts ==
  ASSUME NEW v, NEW p, NEW ex, Good(v, p, ex), Sound(Flushed(v)) \/ ex = {"file"},
         NEW a \in Int, NEW b, NEW s, s = StartOf(v, a, b)
  PROVE  Ready(s, p, ex)
<1>1. Sane(v) /\ IsVol(v) /\ ~v.hit /\ ~v.stretched
  BY DEF Good, Sane
<1>2. IsVol(s) /\ Core(v, s) /\ (s.mounted <=> v.mounted) /\ ~s.hit /\ ~s.stretched
  BY <1>1, StartFacts
<1>3. Sane(s) /\ Flushed(s) = Flushed(v)
  BY <1>1, <1>2, SaneCore
<1>0. Exposures(p, ex) /\ (p.open => InFile(p)) /\ ~OverTable(p, Flushed(s))
  BY <1>3 DEF Good
<1>4. CASE Settled(v, p, ex)
  <2>1. Settled(s, p, ex)
    BY <1>1, <1>2, <1>4, SettledCore
  <2> QED BY <1>0, <1>2, <1>3, <2>1 DEF Ready
<1>5. CASE Resting(v, p, ex)
  <2>1. Sound(Flushed(v)) /\ Flushed(v) = v.card
    BY <1>5 DEF Resting, Idle, Flushed, Good, Exposures
  <2>2. Idle(s, FALSE) /\ Sound(s.card)
    BY <1>2, <1>3, <1>5, <2>1 DEF Resting, Idle, Core
  <2>3. Resting(s, p, ex)
    BY <1>5, <2>2, Zenon DEF Resting
  <2> QED BY <1>0, <1>2, <1>3, <2>2, <2>3 DEF Ready
<1>6. ~Broken(v, ex)
  BY DEF Broken
<1> QED BY <1>4, <1>5, <1>6 DEF Good

(* The volume is mounted if it was not. *)
Usable(c, p, ex) ==
  c.res = "OK" /\ \E x, g : /\ x = IF "file" \in ex THEN {p.name} ELSE {}
                            /\ g <=> ex = {}
                            /\ \E ch : Base(c, ch, x, g) /\ FpOK(c, p, ch)

(* It is not, because the card failed, or must not be written to.          *)
Refused(c, p, ex) ==
  /\ c.res \in {"DISK_ERR", "WRITE_PROTECTED"}
  /\ \/ c.hit /\ Resting(c, p, ex)
     \/ Ready(c, p, ex)

LEMMA Barred ==
  ASSUME NEW s, NEW p, NEW ex, Ready(s, p, ex), NEW c, c = Err(s, "WRITE_PROTECTED")
  PROVE  Refused(c, p, ex)
<1>1. Sane(s) /\ IsVol(s)
  BY DEF Ready, Sane
<1>2. /\ IsVol(c) /\ Core(s, c) /\ c.res = "WRITE_PROTECTED" /\ (c.mounted <=> s.mounted)
      /\ (c.hit <=> s.hit) /\ (c.stretched <=> s.stretched)
  BY <1>1 DEF Err, IsVol, Core
<1>3. Sane(c) /\ Flushed(c) = Flushed(s)
  BY <1>1, <1>2, SaneCore
<1>4. CASE Settled(s, p, ex)
  <2>1. Settled(c, p, ex)
    BY <1>2, <1>4, SettledCore DEF Ready
  <2> QED BY <1>2, <1>3, <2>1 DEF Refused, Ready
<1>5. CASE Resting(s, p, ex) /\ Sound(s.card)
  <2>1. Idle(c, FALSE) /\ Sound(c.card)
    BY <1>2, <1>3, <1>5 DEF Resting, Idle, Core
  <2>2. Resting(c, p, ex)
    BY <1>5, <2>1, Zenon DEF Resting
  <2> QED BY <1>2, <1>3, <2>1, <2>2 DEF Refused, Ready
<1> QED BY <1>4, <1>5 DEF Ready

LEMMA Usables ==
  ASSUME NEW s, NEW p, NEW ex, Ready(s, p, ex), NEW wp, NEW c, c = chk_mounted(s, wp)
  PROVE  Usable(c, p, ex) \/ Refused(c, p, ex)
<1>0. CASE wp /\ s.protect
  <2>1. c = Err(s, "WRITE_PROTECTED")
    BY <1>0 DEF chk_mounted
  <2> QED BY <2>1, Barred
<1>1. CASE Settled(s, p, ex) /\ ~(wp /\ s.protect)
  <2>1. PICK x, g : /\ x = (IF "file" \in ex THEN {p.name} ELSE {}) /\ (g <=> ex = {}) /\ Settles(s, p, x, g)
    BY <1>1 DEF Settled
  <2>2. PICK ch : Base(s, ch, x, g) /\ FpOK(s, p, ch)
    BY <2>1 DEF Settles
  <2>3. c = Ok(s)
    BY <1>1 DEF Settled, chk_mounted
  <2>4. Base(c, ch, x, g) /\ Same(s, c) /\ c.res = "OK"
    BY <2>2, <2>3, BaseResult, BaseFacts, Results
  <2>5. FpOK(c, p, ch)
    BY <2>2, <2>4, SameTabled, FpTabled
  <2> QED BY <2>1, <2>4, <2>5 DEF Usable
<1>2. CASE Resting(s, p, ex) /\ Sound(s.card) /\ ~(wp /\ s.protect)
  <2>1. PICK g : g <=> ex = {}
    BY Zenon
  <2>2. Idle(s, TRUE) /\ Formatted(s.card) /\ ~p.open
    BY <1>2 DEF Resting, Idle, K
  <2>3. PICK t : t = TRUE
    OBVIOUS
  <2>4. \/ c.res = "OK" /\ \E ch : Base(c, ch, {}, TRUE)
        \/ c.res = "DISK_ERR" /\ c.hit /\ Idle(c, t)
        \/ c = Err(s, "WRITE_PROTECTED")
    <3>1. Idle(s, t)
      BY <2>2, <2>3, Zenon
    <3>2. \/ c.res = "OK" /\ \E ch : Base(c, ch, {}, TRUE)
          \/ c.res = "DISK_ERR" /\ c.hit /\ Idle(c, t)
          \/ c = Err(s, "WRITE_PROTECTED")
      BY <2>2, <3>1, Mounts
    <3> QED BY <3>2
  <2>5. CASE c.res = "OK"
    <3>1. PICK ch : Base(c, ch, {}, TRUE)
      <4>1. c # Err(s, "WRITE_PROTECTED")
        BY <2>2, <2>5 DEF Err, Idle, Sane, IsVol
      <4> QED BY <2>4, <2>5, <4>1, Zenon
    <3>2. PICK x : x = {}
      BY Zenon
    <3>3. Base(c, ch, x, t)
      BY <2>3, <3>1, <3>2, Zenon
    <3>4. Base(c, ch, x, g)
      <4>1. CASE g
        BY <2>3, <3>3, <4>1 DEF Base
      <4>2. CASE ~g
        BY <3>3, <4>2 DEF Base
      <4> QED BY <4>1, <4>2
    <3>5. FpOK(c, p, ch)
      BY <2>2 DEF FpOK
    <3>6. x = IF "file" \in ex THEN {p.name} ELSE {}
      BY <2>2, <3>2 DEF Ready, Exposures
    <3> QED BY <2>1, <2>5, <3>4, <3>5, <3>6 DEF Usable
  <2>6. CASE c = Err(s, "WRITE_PROTECTED")
    BY <2>6, Barred
  <2>7. CASE c.res # "OK" /\ c # Err(s, "WRITE_PROTECTED")
    <3>1. c.res = "DISK_ERR" /\ c.hit /\ Idle(c, t)
      BY <2>4, <2>7, Zenon
    <3>2. Idle(c, FALSE) /\ Sound(c.card)
      BY <2>3, <3>1 DEF Idle
    <3> QED BY <2>2, <3>1, <3>2, Zenon DEF Refused, Resting
  <2> QED BY <2>5, <2>6, <2>7
<1> QED BY <1>0, <1>1, <1>2 DEF Ready
-----------------------------------------------------------------------------
(* The end of a call that leaves v and p: of what it found, ex is kept.    *)
Unsynced(ex, risk) == risk = "file" \/ "file" \in ex
Kept(p, ex, risk) == Unsynced(ex, risk) /\ p.open /\ p.written
Tears(v, p, ex, risk) ==
  \/ v.hit /\ (risk = "call" \/ v.stretched)
  \/ v.hit /\ Unsynced(ex, risk) /\ ~Kept(p, ex, risk)
  \/ (v.hit \/ v.wflag) /\ "call" \in ex

Ends(v, p, risk, ex, v2, p2, ex2) ==
  /\ v2 = IF Cutoff(v) THEN Unmounted(v.card, v.protect) ELSE ResetOf(v)
  /\ p2 = IF Cutoff(v) THEN Closed ELSE p
  /\ ex2 \subseteq {"file", "call"}
  /\ "file" \in ex2 <=> Kept(p2, ex, risk)
  /\ "call" \in ex2 <=> Tears(v, p2, ex, risk)
  /\ v.lost => Cutoff(v)
  /\ p2.org_clust \in {0} \cup Clusters
  /\ ~OverTable(p2, Flushed(v2))

(* Once an error was passed over, or a buffer outlived its cluster, what   *)
(* becomes of the volume is not known.                                     *)
Stray(ex) == ex \cap {"lost", "buffer"} # {}

LEMMA StrayStays ==
  ASSUME NEW v, NEW p, NEW names, NEW content, NEW risk, Finish(v, p, names, content, risk), Stray(exposed)
  PROVE  Stray(exposed')
BY DEF Finish, Stray

LEMMA FinishIs ==
  ASSUME NEW v, NEW p, NEW names, NEW content, NEW risk, Finish(v, p, names, content, risk), ~Stray(exposed')
  PROVE  Ends(v, p, risk, exposed, vol', fp', exposed')
<1>1. vol' = IF Cutoff(v) THEN Unmounted(v.card, v.protect) ELSE ResetOf(v)
  BY DEF Finish, ResetOf
<1>2. fp' = IF Cutoff(v) THEN Closed ELSE p
  BY DEF Finish
<1>3. PICK lost : lost <=> (v.lost /\ ~Cutoff(v)) \/ fp'.org_clust \notin {0} \cup Clusters
  BY Zenon
<1>4. exposed' = (exposed \cap {"lost", "buffer"})
                   \cup {k \in {"file"} : Kept(fp', exposed, risk)} \cup {k \in {"call"} : Tears(v, fp', exposed, risk)}
                   \cup {k \in {"lost"} : lost} \cup {k \in {"buffer"} : OverTable(fp', Flushed(vol'))}
  BY <1>3 DEF Finish, Kept, Tears, Unsynced, View
<1>5. exposed \cap {"lost", "buffer"} = {} /\ ~lost /\ ~OverTable(fp', Flushed(vol'))
  BY <1>4 DEF Stray
<1>6. exposed' \subseteq {"file", "call"}
  BY <1>4, <1>5
<1>7. "file" \in exposed' <=> Kept(fp', exposed, risk)
  BY <1>4
<1>8. "call" \in exposed' <=> Tears(v, fp', exposed, risk)
  BY <1>4
<1> QED BY <1>1, <1>2, <1>3, <1>5, <1>6, <1>7, <1>8 DEF Ends

(* What it is to have ended well. *)
GoodEnd(v, p, ex2) ==
  /\ Sane(v) /\ WellTyped(v.card) /\ K(v.card)
  /\ Cutoff(v) => ("call" \notin ex2 => Sound(v.card))
  /\ ~Cutoff(v) =>
       /\ p.open => InFile(p)
       /\ \/ v.mounted /\ (ex2 = {} => Sound(v.card)) /\ \E x : /\ x = IF "file" \in ex2 THEN {p.name} ELSE {}
                                                               /\ Settles(v, p, x, FALSE)
          \/ Resting(v, p, ex2)
          \/ Broken(v, ex2)

LEMMA EndsGood ==
  ASSUME NEW v, NEW p, NEW risk, NEW ex, NEW v2, NEW p2, NEW ex2, Ends(v, p, risk, ex, v2, p2, ex2), GoodEnd(v, p, ex2)
  PROVE  Good(v2, p2, ex2)
<1>1. Exposures(p2, ex2) /\ ~OverTable(p2, Flushed(v2))
  BY DEF Ends, Kept, Exposures
<1>2. CASE Cutoff(v)
  <2>1. v2 = Unmounted(v.card, v.protect) /\ p2 = Closed /\ WellTyped(v.card) /\ K(v.card) /\ ("call" \notin ex2 => Sound(v.card))
    BY <1>2 DEF Ends, GoodEnd
  <2>2. PICK g : g = FALSE
    BY Zenon
  <2>3. Idle(v2, g) /\ ~v2.hit /\ ~v2.stretched /\ ~v2.gone /\ v2.left = -1 /\ v2.card = v.card
    BY <2>1, <2>2, UnmountedIdle
  <2>4. ~p2.open
    BY <2>1, ClosedIs
  <2>5. Resting(v2, p2, ex2) /\ Sane(v2)
    BY <2>1, <2>2, <2>3, <2>4 DEF Resting, Idle
  <2> QED BY <1>1, <2>3, <2>4, <2>5 DEF Good
<1>3. CASE ~Cutoff(v)
  <2>1. v2 = ResetOf(v) /\ p2 = p /\ Sane(v) /\ (p.open => InFile(p))
    BY <1>3 DEF Ends, GoodEnd
  <2>2. IsVol(v)
    BY <2>1 DEF Sane
  <2>3. IsVol(v2) /\ Core(v, v2) /\ (v2.mounted <=> v.mounted) /\ ~v2.hit /\ ~v2.stretched /\ ~v2.gone /\ v2.left = -1
    BY <2>1, <2>2, ResetFacts
  <2>4. Sane(v2) /\ Flushed(v2) = Flushed(v)
    BY <2>1, <2>3, SaneCore
  <2>5. Settled(v2, p2, ex2) \/ Resting(v2, p2, ex2) \/ Broken(v2, ex2)
    <3>1. CASE v.mounted /\ (ex2 = {} => Sound(v.card)) /\ \E x : /\ x = IF "file" \in ex2 THEN {p.name} ELSE {}
                                                                 /\ Settles(v, p, x, FALSE)
      <4>1. PICK x : x = (IF "file" \in ex2 THEN {p.name} ELSE {}) /\ Settles(v, p, x, FALSE)
        BY <3>1, Zenon
      <4>2. PICK h : h = FALSE
        BY Zenon
      <4>3. PICK ch : Base(v, ch, x, h) /\ FpOK(v, p, ch)
        BY <4>1, <4>2, Zenon DEF Settles
      <4>4. PICK g : g <=> ex2 = {}
        BY Zenon
      <4>5. g => x = {} /\ Sound(v2.card)
        BY <2>3, <3>1, <4>1, <4>4 DEF Core
      <4>6. Base(v2, ch, x, g)
        BY <2>3, <4>3, <4>5, BaseAgain
      <4>7. FpOK(v2, p, ch)
        BY <2>4, <4>3, FpReads
      <4>8. Settles(v2, p, x, g)
        BY <4>6, <4>7 DEF Settles
      <4> QED BY <2>1, <2>3, <3>1, <4>1, <4>4, <4>8 DEF Settled
    <3>2. CASE Resting(v, p, ex2)
      BY <2>1, <2>3, <2>4, <3>2 DEF Resting, Idle, Core
    <3>3. CASE Broken(v, ex2)
      BY <2>4, <3>3 DEF Broken
    <3> QED BY <1>3, <3>1, <3>2, <3>3, Zenon DEF GoodEnd
  <2> QED BY <1>1, <2>1, <2>3, <2>4, <2>5 DEF Good
<1> QED BY <1>2, <1>3

(* A volume and a file that fit. *)
LEMMA SettlesGood ==
  ASSUME NEW v, NEW p, NEW x, NEW g, Settles(v, p, x, g), NEW ex2,
         p.open => InFile(p),
         ~Cutoff(v) => x = IF "file" \in ex2 THEN {p.name} ELSE {},
         v.hit /\ v.stretched => "call" \in ex2,
         Cutoff(v) /\ "call" \notin ex2 => g,
         ~Cutoff(v) /\ ex2 = {} => g \/ ~v.wflag
  PROVE  GoodEnd(v, p, ex2)
<1>1. PICK ch : Base(v, ch, x, g) /\ FpOK(v, p, ch)
  BY DEF Settles
<1>2. Sane(v) /\ WellTyped(v.card) /\ K(v.card) /\ v.mounted
  BY <1>1 DEF Base
<1>3. ASSUME Cutoff(v), "call" \notin ex2 PROVE Sound(v.card)
  BY <1>1, <1>3 DEF Base
<1>4. ASSUME ~Cutoff(v)
      PROVE  (ex2 = {} => Sound(v.card)) /\ \E y : /\ y = IF "file" \in ex2 THEN {p.name} ELSE {}
                                                  /\ Settles(v, p, y, FALSE)
  <2>1. x = IF "file" \in ex2 THEN {p.name} ELSE {}
    BY <1>4
  <2>2. Settles(v, p, x, FALSE)
    BY <1>1, BaseWeaker, Zenon DEF Settles
  <2>3. ASSUME ex2 = {} PROVE Sound(v.card)
    <3>1. CASE g
      BY <1>1, <2>3, <3>1 DEF Base
    <3>2. CASE ~v.wflag
      <4>1. x = {}
        BY <2>1, <2>3
      <4>2. Sound(Flushed(v))
        BY <1>1, <4>1, TreeK DEF Base
      <4> QED BY <3>2, <4>2 DEF Flushed
    <3> QED BY <1>4, <2>3, <3>1, <3>2
  <2> QED BY <2>1, <2>2, <2>3, Zenon
<1> QED BY <1>2, <1>3, <1>4, Zenon DEF GoodEnd

(* Others. *)
LEMMA WreckGood ==
  ASSUME NEW w, Wreck(w) \/ Ruined(w), NEW p, p.open => InFile(p), NEW ex2, "call" \in ex2
  PROVE  GoodEnd(w, p, ex2)
BY Zenon DEF Wreck, Ruined, GoodEnd, Broken

LEMMA LostGood ==
  ASSUME NEW w, NEW g, Lost(w, g), NEW p, NEW ex2, w.stretched \/ ~g => "call" \in ex2
  PROVE  GoodEnd(w, p, ex2)
BY DEF Lost, GoodEnd, Dead, Cutoff

LEMMA RestingGood ==
  ASSUME NEW c, NEW p, NEW ex, Resting(c, p, ex), NEW ex2, "call" \notin ex2 => "call" \notin ex \/ Sound(c.card),
         NEW q, ~q.open
  PROVE  GoodEnd(c, q, ex2)
BY Zenon DEF Resting, Idle, GoodEnd
-----------------------------------------------------------------------------
(* The ends of the calls. *)
LEMMA PlainGood ==
  ASSUME NEW ex \in SUBSET {"file", "call"}, NEW risk \in {"no", "call"}, NEW w, NEW q,
         NEW x, x = IF "file" \in ex THEN {q.name} ELSE {}, NEW g, g <=> ex = {}, Settles(w, q, x, g),
         "file" \in ex => q.open /\ q.written, q.open => InFile(q),
         NEW v2, NEW p2, NEW ex2, Ends(w, q, risk, ex, v2, p2, ex2)
  PROVE  Good(v2, p2, ex2)
<1>1. ASSUME ~Cutoff(w) PROVE x = IF "file" \in ex2 THEN {q.name} ELSE {}
  BY <1>1 DEF Ends, Kept, Unsynced
<1>2. w.hit /\ w.stretched => "call" \in ex2
  BY DEF Ends, Tears
<1>3. ASSUME Cutoff(w), "call" \notin ex2 PROVE g
  <2>1. w.hit /\ p2 = Closed /\ ~Kept(p2, ex, risk)
    BY <1>3, ClosedIs DEF Cutoff, Ends, Kept
  <2>2. "file" \notin ex /\ "call" \notin ex
    BY <1>3, <2>1 DEF Ends, Tears, Unsynced
  <2> QED BY <2>2
<1>4. ASSUME ~Cutoff(w), ex2 = {} PROVE g \/ ~w.wflag
  <2>1. "file" \notin ex
    BY <1>4 DEF Ends, Kept, Unsynced
  <2>2. "call" \notin ex \/ ~w.wflag
    BY <1>4 DEF Ends, Tears
  <2> QED BY <2>1, <2>2
<1>5. GoodEnd(w, q, ex2)
  BY <1>1, <1>2, <1>3, <1>4, SettlesGood
<1> QED BY <1>5, EndsGood

(* The file was saved. *)
LEMMA SavedGood ==
  ASSUME NEW ex \in SUBSET {"file", "call"}, NEW risk, risk = "no", NEW w, NEW q,
         NEW x, x = {}, NEW g, g <=> ex = {}, Settles(w, q, x, g),
         ~q.written, w.hit \/ ~w.wflag, q.open => InFile(q),
         NEW v2, NEW p2, NEW ex2, Ends(w, q, risk, ex, v2, p2, ex2)
  PROVE  Good(v2, p2, ex2)
<1>0. ~Kept(p2, ex, risk)
  BY ClosedIs DEF Ends, Kept
<1>1. ASSUME ~Cutoff(w) PROVE x = IF "file" \in ex2 THEN {q.name} ELSE {}
  BY <1>0 DEF Ends
<1>2. w.hit /\ w.stretched => "call" \in ex2
  BY DEF Ends, Tears
<1>3. ASSUME w.hit, "call" \notin ex2 PROVE g
  <2>2. "file" \notin ex /\ "call" \notin ex
    BY <1>0, <1>3 DEF Ends, Tears, Unsynced
  <2> QED BY <2>2
<1>4. ASSUME ~Cutoff(w), ex2 = {} PROVE g \/ ~w.wflag
  BY <1>3, <1>4
<1>5. Cutoff(w) /\ "call" \notin ex2 => g
  BY <1>3 DEF Cutoff
<1>6. GoodEnd(w, q, ex2)
  BY <1>1, <1>2, <1>4, <1>5, SettlesGood
<1> QED BY <1>6, EndsGood

(* The file was cut short. *)
LEMMA CutGood ==
  ASSUME NEW ex \in SUBSET {"file", "call"}, NEW risk, risk = "file", NEW w, NEW q,
         NEW x, x = {q.name}, NEW g, g = FALSE, Settles(w, q, x, g),
         q.open /\ q.written, InFile(q),
         NEW v2, NEW p2, NEW ex2, Ends(w, q, risk, ex, v2, p2, ex2)
  PROVE  Good(v2, p2, ex2)
<1>1. ASSUME ~Cutoff(w) PROVE "file" \in ex2 /\ x = IF "file" \in ex2 THEN {q.name} ELSE {}
  BY <1>1 DEF Ends, Kept, Unsynced
<1>2. w.hit /\ w.stretched => "call" \in ex2
  BY DEF Ends, Tears
<1>3. ASSUME Cutoff(w) PROVE "call" \in ex2
  <2>1. w.hit /\ p2 = Closed /\ ~Kept(p2, ex, risk)
    BY <1>3, ClosedIs DEF Cutoff, Ends, Kept
  <2> QED BY <2>1 DEF Ends, Tears, Unsynced
<1>4. GoodEnd(w, q, ex2)
  BY <1>1, <1>2, <1>3, SettlesGood
<1> QED BY <1>4, EndsGood

(* An entry was renamed. *)
LEMMA RenamedGood ==
  ASSUME NEW ex \in SUBSET {"file", "call"}, NEW risk, risk = "call", NEW w, NEW q,
         NEW x, x = IF "file" \in ex THEN {q.name} ELSE {}, NEW g, g <=> ex = {}, RenameEnds(w, q, x, g),
         "file" \in ex => q.open /\ q.written, q.open => InFile(q),
         NEW v2, NEW p2, NEW ex2, Ends(w, q, risk, ex, v2, p2, ex2)
  PROVE  Good(v2, p2, ex2)
<1>1. w.hit => "call" \in ex2
  BY DEF Ends, Tears
<1>2. CASE Settles(w, q, x, g)
  BY <1>2, PlainGood, Zenon
<1>3. CASE Settles(w, q, x, FALSE) /\ (w.hit \/ ~w.wflag)
  <2>1. PICK h : h = FALSE
    BY Zenon
  <2>2. Settles(w, q, x, h)
    BY <1>3, <2>1, Zenon
  <2>3. ASSUME ~Cutoff(w) PROVE x = IF "file" \in ex2 THEN {q.name} ELSE {}
    BY <2>3 DEF Ends, Kept, Unsynced
  <2>4. ASSUME ex2 = {} PROVE ~w.wflag
    BY <1>1, <1>3, <2>4
  <2>5. Cutoff(w) /\ "call" \notin ex2 => h
    BY <1>1 DEF Cutoff
  <2>6. GoodEnd(w, q, ex2)
    BY <1>1, <2>2, <2>3, <2>4, <2>5, SettlesGood
  <2> QED BY <2>6, EndsGood
<1>4. CASE Wreck(w) \/ Ruined(w)
  <2>1. "call" \in ex2
    BY <1>1, <1>4 DEF Wreck, Ruined
  <2>2. GoodEnd(w, q, ex2)
    BY <1>4, <2>1, WreckGood
  <2> QED BY <2>2, EndsGood
<1> QED BY <1>2, <1>3, <1>4, Zenon DEF RenameEnds

(* The directory was not stretched to the end. *)
LEMMA WreckedGood ==
  ASSUME NEW ex, NEW risk, NEW w, NEW q, Wreck(w), q.open => InFile(q),
         NEW v2, NEW p2, NEW ex2, Ends(w, q, risk, ex, v2, p2, ex2)
  PROVE  Good(v2, p2, ex2)
<1>1. "call" \in ex2
  BY DEF Wreck, Ends, Tears
<1>2. GoodEnd(w, q, ex2)
  BY <1>1, WreckGood
<1> QED BY <1>2, EndsGood

(* The card was cut off. *)
LEMMA LostAtEnd ==
  ASSUME NEW ex \in SUBSET {"file", "call"}, NEW risk, NEW w, NEW q, NEW g, g <=> ex = {}, Lost(w, g),
         NEW v2, NEW p2, NEW ex2, Ends(w, q, risk, ex, v2, p2, ex2)
  PROVE  Good(v2, p2, ex2)
<1>1. Cutoff(w) /\ w.hit
  BY DEF Lost, Dead, Cutoff
<1>2. ~Kept(p2, ex, risk)
  BY <1>1, ClosedIs DEF Ends, Kept
<1>3. ASSUME w.stretched \/ ~g PROVE "call" \in ex2
  <2>1. CASE w.stretched
    BY <1>1, <2>1 DEF Ends, Tears
  <2>2. CASE ~g
    <3>1. "file" \in ex \/ "call" \in ex
      BY <2>2
    <3> QED BY <1>1, <1>2, <3>1 DEF Ends, Tears, Unsynced
  <2> QED BY <1>3, <2>1, <2>2
<1>4. GoodEnd(w, q, ex2)
  BY <1>3, LostGood
<1> QED BY <1>4, EndsGood

-----------------------------------------------------------------------------
(* Every call ends well.  First those that mount the volume. *)

(* On a volume that is there, such a call has the layout to go on. *)
LEMMA UsableIs ==
  ASSUME NEW c, NEW p, NEW ex, Usable(c, p, ex), Exposures(p, ex)
  PROVE  /\ c.res = "OK" /\ ex \in SUBSET {"file", "call"}
         /\ \E x, g, ch : /\ x = IF "file" \in ex THEN {p.name} ELSE {}
                          /\ g <=> ex = {}
                          /\ Base(c, ch, x, g) /\ FpOK(c, p, ch)
                          /\ x \subseteq {p.name}
BY DEF Usable, Exposures

(* A call that could tear nothing. *)
LEMMA PlainEnds ==
  ASSUME NEW q, NEW ex, Exposures(q, ex), q.open => InFile(q), NEW x, x = IF "file" \in ex THEN {q.name} ELSE {},
         NEW g, g <=> ex = {}, NEW w, Settles(w, q, x, g),
         NEW risk, risk = "no", NEW v2, NEW p2, NEW ex2, Ends(w, q, risk, ex, v2, p2, ex2)
  PROVE  Good(v2, p2, ex2)
<1>1. ex \in SUBSET {"file", "call"} /\ ("file" \in ex => q.open /\ q.written)
  BY DEF Exposures
<1>2. risk \in {"no", "call"}
  OBVIOUS
<1> QED BY <1>1, <1>2, PlainGood, Zenon

(* The volume could not be mounted, or is not written to; the file, if there *)
(* is one, is as it was.                                                     *)
LEMMA RefusedAtEnd ==
  ASSUME NEW ex, NEW risk \in {"no", "call"}, NEW p, NEW w, Refused(w, p, ex), NEW q, q = p \/ (~p.open /\ ~q.open),
         NEW v2, NEW p2, NEW ex2, Ends(w, q, risk, ex, v2, p2, ex2)
  PROVE  Good(v2, p2, ex2)
<1>1. CASE w.hit /\ Resting(w, p, ex)
  <2>1. "call" \in ex => "call" \in ex2
    BY <1>1 DEF Ends, Tears
  <2>2. ~q.open
    BY <1>1 DEF Resting
  <2>3. GoodEnd(w, q, ex2)
    BY <1>1, <2>1, <2>2, RestingGood
  <2> QED BY <2>3, EndsGood
<1>2. CASE Resting(w, p, ex) /\ Sound(w.card)
  <2>1. ~q.open
    BY <1>2 DEF Resting
  <2>2. GoodEnd(w, q, ex2)
    BY <1>2, <2>1, RestingGood
  <2> QED BY <2>2, EndsGood
<1>3. CASE Settled(w, p, ex) /\ Ready(w, p, ex)
  <2>1. PICK x, g : /\ x = (IF "file" \in ex THEN {p.name} ELSE {}) /\ (g <=> ex = {}) /\ Settles(w, p, x, g)
    BY <1>3 DEF Settled
  <2>2. Exposures(p, ex) /\ (p.open => InFile(p)) /\ ex \in SUBSET {"file", "call"}
    BY <1>3 DEF Ready, Exposures
  <2>3. Settles(w, q, x, g)
    BY <2>1 DEF Settles, FpOK
  <2>4. x = IF "file" \in ex THEN {q.name} ELSE {}
    BY <2>1, <2>2 DEF Exposures
  <2>5. ("file" \in ex => q.open /\ q.written) /\ (q.open => InFile(q))
    BY <2>2 DEF Exposures
  <2> QED BY <2>1, <2>2, <2>3, <2>4, <2>5, PlainGood
<1> QED BY <1>1, <1>2, <1>3 DEF Refused, Ready

LEMMA ReadingChecks ==
  ASSUME NEW v, NEW c, c = ForReading(v)
  PROVE  \E wp : c = chk_mounted(v, wp)
BY Zenon DEF ForReading

LEMMA WritingChecks ==
  ASSUME NEW v, NEW c, c = ForWriting(v)
  PROVE  \E wp : c = chk_mounted(v, wp)
BY Zenon DEF ForWriting

LEMMA ModeChecks ==
  ASSUME NEW v, NEW m, NEW c, c = ForMode(v, m)
  PROVE  \E wp : c = chk_mounted(v, wp)
BY Zenon DEF ForMode

LEMMA StatGood ==
  ASSUME NEW s, NEW p, NEW ex, Ready(s, p, ex), NEW n \in Names, NEW w, w = StatOf(s, n),
         NEW risk, risk = "no", NEW v2, NEW p2, NEW ex2, Ends(w, p, risk, ex, v2, p2, ex2)
  PROVE  Good(v2, p2, ex2)
<1>1. Exposures(p, ex) /\ (p.open => InFile(p))
  BY DEF Ready
<1>2. PICK c : c = ForReading(s)
  OBVIOUS
<1>3. CASE Usable(c, p, ex)
  <2>1. PICK x, g, ch : /\ x = (IF "file" \in ex THEN {p.name} ELSE {}) /\ (g <=> ex = {})
                        /\ Base(c, ch, x, g) /\ FpOK(c, p, ch)
    BY <1>1, <1>3, UsableIs
  <2>2. Settles(w, p, x, g)
    BY <1>2, <1>3, <2>1, Stats DEF Usable
  <2> QED BY <1>1, <2>1, <2>2, PlainEnds
<1>4. CASE Refused(c, p, ex)
  <2>1. w = c
    BY <1>2, <1>4, StatIs DEF Refused
  <2>2. risk \in {"no", "call"} /\ (p = p \/ (~p.open /\ ~p.open))
    OBVIOUS
  <2> QED BY <1>4, <2>1, <2>2, RefusedAtEnd
<1>5. PICK wp : c = chk_mounted(s, wp)
  BY <1>2, ReadingChecks
<1> QED BY <1>3, <1>4, <1>5, Usables

LEMMA FreeGood ==
  ASSUME NEW s, NEW p, NEW ex, Ready(s, p, ex), NEW w, w = FreeCounted(s),
         NEW risk, risk = "no", NEW v2, NEW p2, NEW ex2, Ends(w, p, risk, ex, v2, p2, ex2)
  PROVE  Good(v2, p2, ex2)
<1>1. Exposures(p, ex) /\ (p.open => InFile(p))
  BY DEF Ready
<1>2. PICK c : c = ForReading(s)
  OBVIOUS
<1>3. CASE Usable(c, p, ex)
  <2>1. PICK x, g, ch : /\ x = (IF "file" \in ex THEN {p.name} ELSE {}) /\ (g <=> ex = {})
                        /\ Base(c, ch, x, g) /\ FpOK(c, p, ch)
    BY <1>1, <1>3, UsableIs
  <2>2. Settles(w, p, x, g)
    BY <1>2, <1>3, <2>1, Counts DEF Usable
  <2> QED BY <1>1, <2>1, <2>2, PlainEnds
<1>4. CASE Refused(c, p, ex)
  <2>1. w = c
    BY <1>2, <1>4, Zenon DEF Refused, ForReading, FreeCounted, OnOk
  <2>2. risk \in {"no", "call"} /\ (p = p \/ (~p.open /\ ~p.open))
    OBVIOUS
  <2> QED BY <1>4, <2>1, <2>2, RefusedAtEnd
<1>5. PICK wp : c = chk_mounted(s, wp)
  BY <1>2, ReadingChecks
<1> QED BY <1>3, <1>4, <1>5, Usables

LEMMA UnlinkGood ==
  ASSUME NEW s, NEW p, NEW ex, Ready(s, p, ex), NEW n \in Names, n # p.name, NEW w, w = Unlinked(s, n),
         NEW risk, risk = "no", NEW v2, NEW p2, NEW ex2, Ends(w, p, risk, ex, v2, p2, ex2)
  PROVE  Good(v2, p2, ex2)
<1>1. Exposures(p, ex) /\ (p.open => InFile(p))
  BY DEF Ready
<1>2. PICK c : c = ForWriting(s)
  OBVIOUS
<1>3. CASE Usable(c, p, ex)
  <2>1. PICK x, g, ch : /\ x = (IF "file" \in ex THEN {p.name} ELSE {}) /\ (g <=> ex = {})
                        /\ Base(c, ch, x, g) /\ FpOK(c, p, ch) /\ x \subseteq {p.name}
    BY <1>1, <1>3, UsableIs
  <2>2. Settles(w, p, x, g)
    BY <1>2, <1>3, <2>1, Unlinks DEF Usable
  <2> QED BY <1>1, <2>1, <2>2, PlainEnds
<1>4. CASE Refused(c, p, ex)
  <2>1. w = c
    BY <1>2, <1>4, UnlinkIs DEF Refused
  <2>2. risk \in {"no", "call"} /\ (p = p \/ (~p.open /\ ~p.open))
    OBVIOUS
  <2> QED BY <1>4, <2>1, <2>2, RefusedAtEnd
<1>5. PICK wp : c = chk_mounted(s, wp)
  BY <1>2, WritingChecks
<1> QED BY <1>3, <1>4, <1>5, Usables

LEMMA RenameGood ==
  ASSUME NEW s, NEW p, NEW ex, Ready(s, p, ex), NEW n \in Names, n # p.name, NEW m \in Names, m # p.name,
         NEW w, w = Renamed(s, n, m),
         NEW risk, risk = "call", NEW v2, NEW p2, NEW ex2, Ends(w, p, risk, ex, v2, p2, ex2)
  PROVE  Good(v2, p2, ex2)
<1>1. Exposures(p, ex) /\ (p.open => InFile(p))
  BY DEF Ready
<1>2. PICK c : c = ForWriting(s)
  OBVIOUS
<1>3. CASE Usable(c, p, ex)
  <2>1. PICK x, g, ch : /\ x = (IF "file" \in ex THEN {p.name} ELSE {}) /\ (g <=> ex = {})
                        /\ Base(c, ch, x, g) /\ FpOK(c, p, ch) /\ x \subseteq {p.name}
    BY <1>1, <1>3, UsableIs
  <2>2. RenameEnds(w, p, x, g)
    BY <1>2, <1>3, <2>1, Renames DEF Usable
  <2>3. ex \in SUBSET {"file", "call"} /\ ("file" \in ex => p.open /\ p.written)
    BY <1>1 DEF Exposures
  <2> QED BY <1>1, <2>1, <2>2, <2>3, RenamedGood
<1>4. CASE Refused(c, p, ex)
  <2>1. w = c
    BY <1>2, <1>4, RenameIs DEF Refused
  <2>2. risk \in {"no", "call"} /\ (p = p \/ (~p.open /\ ~p.open))
    OBVIOUS
  <2> QED BY <1>4, <2>1, <2>2, RefusedAtEnd
<1>5. PICK wp : c = chk_mounted(s, wp)
  BY <1>2, WritingChecks
<1> QED BY <1>3, <1>4, <1>5, Usables

LEMMA OpenGood ==
  ASSUME NEW s, NEW p, NEW ex, Ready(s, p, ex), ~p.open, NEW n \in Names, NEW m, NEW r, r = Opened(s, n, m),
         NEW risk, risk = "no", NEW v2, NEW p2, NEW ex2, Ends(r.v, r.fp, risk, ex, v2, p2, ex2)
  PROVE  Good(v2, p2, ex2)
<1>1. Exposures(p, ex)
  BY DEF Ready
<1>2. PICK c : c = ForMode(s, m)
  OBVIOUS
<1>3. CASE Usable(c, p, ex)
  <2>1. PICK x, g, ch : /\ x = (IF "file" \in ex THEN {p.name} ELSE {}) /\ (g <=> ex = {})
                        /\ Base(c, ch, x, g) /\ FpOK(c, p, ch)
    BY <1>1, <1>3, UsableIs
  <2>2. "file" \notin ex /\ x = {}
    BY <1>1, <2>1 DEF Exposures
  <2>3. r.fp.fptr = 0 /\ (Settles(r.v, r.fp, x, g) \/ (Wreck(r.v) /\ ~r.fp.open))
    BY <1>2, <1>3, <2>1, <2>2, OpensFile DEF Usable
  <2>4. CASE Settles(r.v, r.fp, x, g)
    <3>1. ASSUME r.fp.open PROVE InFile(r.fp)
      <4>1. IsFp(r.fp)
        BY <2>4, <3>1 DEF Settles, FpOK, FileIn
      <4> QED BY <2>3, <4>1 DEF IsFp, InFile
    <3>2. Exposures(r.fp, ex) /\ x = IF "file" \in ex THEN {r.fp.name} ELSE {}
      BY <1>1, <2>2 DEF Exposures
    <3> QED BY <2>1, <2>4, <3>1, <3>2, PlainEnds
  <2>5. CASE Wreck(r.v) /\ ~r.fp.open
    BY <2>5, WreckedGood
  <2> QED BY <2>3, <2>4, <2>5
<1>4. CASE Refused(c, p, ex)
  <2>1. c.res \notin {"OK", "NO_FILE"}
    BY <1>4 DEF Refused
  <2>2. Handed(r, c, n, m)
    BY <1>2, <2>1, OpenIs
  <2>3. r.v = c /\ ~r.fp.open
    BY <2>1, <2>2, ClosedIs DEF Handed
  <2>4. risk \in {"no", "call"}
    OBVIOUS
  <2> QED BY <1>4, <2>3, <2>4, RefusedAtEnd
<1>5. PICK wp : c = chk_mounted(s, wp)
  BY <1>2, ModeChecks
<1> QED BY <1>3, <1>4, <1>5, Usables

LEMMA RewoundRefused ==
  ASSUME NEW c, NEW p, NEW ex, Refused(c, p, ex), NEW e, e = Rewound(c)
  PROVE  Refused(e, p, ex)
<1>1. Sane(c) /\ IsVol(c)
  BY DEF Refused, Ready, Resting, Idle, Sane
<1>2. /\ IsVol(e) /\ Core(c, e) /\ (e.mounted <=> c.mounted) /\ (e.hit <=> c.hit) /\ (e.stretched <=> c.stretched)
      /\ e.res = c.res
  BY <1>1 DEF Rewound, IsVol, Core
<1>3. Sane(e) /\ Flushed(e) = Flushed(c)
  BY <1>1, <1>2, SaneCore
<1>4. ASSUME Resting(c, p, ex) PROVE Resting(e, p, ex) /\ e.card = c.card
  BY <1>2, <1>3, <1>4 DEF Resting, Idle, Core
<1>5. ASSUME Ready(c, p, ex) PROVE Ready(e, p, ex)
  <2>1. Settled(c, p, ex) => Settled(e, p, ex)
    BY <1>2, <1>3, <1>5, SettledCore DEF Ready
  <2> QED BY <1>2, <1>3, <1>4, <1>5, <2>1 DEF Ready
<1> QED BY <1>2, <1>4, <1>5 DEF Refused

LEMMA ListGood ==
  ASSUME NEW s, NEW p, NEW ex, Ready(s, p, ex), NEW w, w = Listed(s).v,
         NEW risk, risk = "no", NEW v2, NEW p2, NEW ex2, Ends(w, p, risk, ex, v2, p2, ex2)
  PROVE  Good(v2, p2, ex2)
<1>1. Exposures(p, ex) /\ (p.open => InFile(p))
  BY DEF Ready
<1>2. PICK c : c = ForReading(s)
  OBVIOUS
<1>3. CASE Usable(c, p, ex)
  <2>1. PICK x, g, ch : /\ x = (IF "file" \in ex THEN {p.name} ELSE {}) /\ (g <=> ex = {})
                        /\ Base(c, ch, x, g) /\ FpOK(c, p, ch)
    BY <1>1, <1>3, UsableIs
  <2>2. Settles(w, p, x, g)
    BY <1>2, <1>3, <2>1, Lists DEF Usable
  <2> QED BY <1>1, <2>1, <2>2, PlainEnds
<1>4. CASE Refused(c, p, ex)
  <2> DEFINE N == LastCluster * TableEntries
  <2>1. PICK e : e = Rewound(c)
    OBVIOUS
  <2>6. Refused(e, p, ex)
    BY <1>4, <2>1, RewoundRefused
  <2>7. PICK q : q = [v |-> e, list |-> <<>>, done |-> e.res # "OK"]
    BY Zenon
  <2>8. q.v = e /\ q.done = TRUE
    BY <2>6, <2>7, Zenon DEF Refused
  <2>9. PICK f : Rows(f, "list", 0, q, N) /\ w = f[N].v
    BY <1>2, <2>1, <2>7, ListRows DEF ForReading
  <2>10. f[0] = q
    BY <2>9 DEF Rows
  <2>11. N \in Nat /\ N > 0
    BY VolumeAssumption
  <2>12. w = e
    <3> DEFINE I == {i \in 0..N : f[i] = q}
    <3>1. 0 \in I
      BY <2>10, <2>11
    <3>2. ASSUME NEW i \in 1..N, i - 1 \in I PROVE i \in I
      BY <2>8, <2>9, <3>2 DEF Rows, StepOf
    <3>3. 0..N \subseteq I
      <4> HIDE DEF I, N
      <4> QED BY <2>11, <3>1, <3>2, UpTo
    <3> HIDE DEF N
    <3> QED BY <2>8, <2>9, <2>11, <3>3
  <2>13. risk \in {"no", "call"} /\ (p = p \/ (~p.open /\ ~p.open))
    OBVIOUS
  <2> QED BY <2>6, <2>12, <2>13, RefusedAtEnd
<1>5. PICK wp : c = chk_mounted(s, wp)
  BY <1>2, ReadingChecks
<1> QED BY <1>3, <1>4, <1>5, Usables

(* The calls on the open file. *)
LEMMA FileIs ==
  ASSUME NEW s, NEW p, NEW ex, Ready(s, p, ex), p.open
  PROVE  /\ Exposures(p, ex) /\ ex \in SUBSET {"file", "call"} /\ InFile(p)
         /\ \E x, g, ch : /\ x = IF "file" \in ex THEN {p.name} ELSE {}
                          /\ g <=> ex = {}
                          /\ Base(s, ch, x, g) /\ FileOf(s, p, ch) /\ Position(p, ch[p.name])
                          /\ x \subseteq {p.name}
<1>1. Settled(s, p, ex) /\ Exposures(p, ex) /\ InFile(p)
  BY DEF Ready, Resting
<1>2. PICK x, g : /\ x = (IF "file" \in ex THEN {p.name} ELSE {}) /\ (g <=> ex = {}) /\ Settles(s, p, x, g)
  BY <1>1 DEF Settled
<1>5. PICK ch : Base(s, ch, x, g) /\ FileIn(s, p, ch) /\ Position(p, ch[p.name])
  BY <1>2 DEF Settles, FpOK
<1>6. OffTable(p, ch)
  <2>1. InOrder(Flushed(s), Dir(ch))
    BY <1>5, TreeFacts DEF Base, Dir
  <2>2. ASSUME p.dirty, NEW c \in Clusters, p.dsect = clust2sect(c) PROVE \A k \in 1..Len(Dir(ch)) : Dir(ch)[k] # c
    <3>1. ~IsTable(Flushed(s), c)
      BY <2>2 DEF Ready, OverTable
    <3> QED BY <2>1, <2>2, <3>1 DEF InOrder
  <2> QED BY <1>5, <2>2 DEF FileIn, DirtyIn, OffTable
<1>3. FileOf(s, p, ch)
  BY <1>5, <1>6 DEF FileIn, FileOf, Extent
<1>4. x \subseteq {p.name} /\ ex \in SUBSET {"file", "call"}
  BY <1>1, <1>2 DEF Exposures
<1> QED BY <1>1, <1>2, <1>3, <1>4, <1>5

LEMMA FineSettles ==
  ASSUME NEW v, NEW f, NEW x, NEW g, Fine(v, f, x, g), NEW w, w \in {v, Ok(v)}
  PROVE  Settles(w, f, x, g) /\ Settles(w, Closed, x, g)
<1>1. PICK ch : Base(v, ch, x, g) /\ FileOf(v, f, ch) /\ Position(f, ch[f.name])
  BY DEF Fine
<1>2. Base(Ok(v), ch, x, g) /\ Same(v, Ok(v))
  BY <1>1, BaseResult
<1>3. FpOK(v, f, ch)
  BY <1>1, FileOfIn DEF FpOK
<1>4. FpOK(Ok(v), f, ch)
  BY <1>1, <1>2, <1>3, SameTabled, FpTabled
<1>5. FpOK(v, Closed, ch) /\ FpOK(Ok(v), Closed, ch)
  BY ClosedIs DEF FpOK
<1> QED BY <1>1, <1>2, <1>3, <1>4, <1>5 DEF Settles

(* The file is still the same, and may have grown. *)
LEMMA GrewEnds ==
  ASSUME NEW p, NEW ex, Exposures(p, ex), p.open, NEW x, x = IF "file" \in ex THEN {p.name} ELSE {},
         NEW g, g <=> ex = {}, NEW v, NEW q, Fine(v, q, x, g), Grew(p, q), InFile(q), NEW w, w \in {v, Ok(v)},
         NEW risk, risk = "no", NEW v2, NEW p2, NEW ex2, Ends(w, q, risk, ex, v2, p2, ex2)
  PROVE  Good(v2, p2, ex2)
<1>1. Settles(w, q, x, g)
  BY FineSettles
<1>2. q.name = p.name /\ q.open /\ Exposures(q, ex)
  BY DEF Grew, Exposures
<1>3. x = IF "file" \in ex THEN {q.name} ELSE {}
  BY <1>2
<1> QED BY <1>1, <1>2, <1>3, PlainEnds

LEMMA LostEnds ==
  ASSUME NEW v, NEW ex \in SUBSET {"file", "call"}, NEW g, g <=> ex = {}, Lost(v, g), NEW w, w \in {v, Ok(v)},
         NEW risk, NEW q, NEW v2, NEW p2, NEW ex2, Ends(w, q, risk, ex, v2, p2, ex2)
  PROVE  Good(v2, p2, ex2)
<1>1. Lost(w, g)
  <2>1. Lost(Ok(v), g)
    BY LostResult
  <2> QED BY <2>1
<1> QED BY <1>1, LostAtEnd

LEMMA OkAstray ==
  ASSUME NEW v, IsVol(v)
  PROVE  IsVol(Ok(v)) /\ (Ok(v).lost <=> v.lost) /\ (Ok(v).gone <=> v.gone)
BY DEF Ok, IsVol

LEMMA SeekGood ==
  ASSUME NEW s, NEW p, NEW ex, Ready(s, p, ex), p.open, ~p.error, Cutting(s), NEW ofs \in Nat,
         NEW r, r = SeekTo(s, p, ofs), NEW w, w = IF r.fp.error THEN r.v ELSE Ok(r.v),
         NEW risk, risk = "no", NEW v2, NEW p2, NEW ex2, Ends(w, r.fp, risk, ex, v2, p2, ex2)
  PROVE  Good(v2, p2, ex2)
<1>1. Exposures(p, ex) /\ ex \in SUBSET {"file", "call"}
  BY FileIs
<1>2. PICK x, g, ch : /\ x = (IF "file" \in ex THEN {p.name} ELSE {}) /\ (g <=> ex = {})
                      /\ Base(s, ch, x, g) /\ FileOf(s, p, ch) /\ Position(p, ch[p.name])
  BY FileIs
<1>3. (Fine(r.v, r.fp, x, g) /\ Grew(p, r.fp) /\ InFile(r.fp)) \/ Lost(r.v, g) \/ Astray(r.v)
  BY <1>2, SeeksTo
<1>4. w \in {r.v, Ok(r.v)}
  OBVIOUS
<1>5. CASE Fine(r.v, r.fp, x, g) /\ Grew(p, r.fp) /\ InFile(r.fp)
  BY <1>1, <1>2, <1>4, <1>5, GrewEnds, Zenon
<1>6. CASE Lost(r.v, g)
  BY <1>1, <1>2, <1>4, <1>6, LostEnds
<1>7. ~Astray(r.v)
  <2>1. Astray(r.v) => Astray(w)
    BY OkAstray DEF Astray
  <2> QED BY <2>1 DEF Astray, Ends, Cutoff
<1> QED BY <1>3, <1>5, <1>6, <1>7

LEMMA WriteGood ==
  ASSUME NEW s, NEW p, NEW ex, Ready(s, p, ex), p.open, ~p.error, Cutting(s), NEW n \in Nat, NEW d,
         NEW r, r = WriteLoop(s, p, n, d), NEW w, w = IF r.fp.error THEN r.v ELSE Ok(r.v),
         NEW h, h = IF r.fp.error THEN r.fp
                    ELSE [r.fp EXCEPT !.written = TRUE, !.fsize = IF r.fp.fptr > @ THEN r.fp.fptr ELSE @],
         NEW risk, risk = "no", NEW v2, NEW p2, NEW ex2, Ends(w, h, risk, ex, v2, p2, ex2)
  PROVE  Good(v2, p2, ex2)
<1>1. Exposures(p, ex) /\ ex \in SUBSET {"file", "call"}
  BY FileIs
<1>2. PICK x, g, ch : /\ x = (IF "file" \in ex THEN {p.name} ELSE {}) /\ (g <=> ex = {})
                      /\ Base(s, ch, x, g) /\ FileOf(s, p, ch) /\ Position(p, ch[p.name])
  BY FileIs
<1>3. (Fine(r.v, h, x, g) /\ Grew(p, h) /\ InFile(h)) \/ Lost(r.v, g) \/ Strayed(r.v, h)
  BY <1>2, WriteEnds, ZenonT(60)
<1>4. w \in {r.v, Ok(r.v)}
  OBVIOUS
<1>5. CASE Fine(r.v, h, x, g) /\ Grew(p, h) /\ InFile(h)
  BY <1>1, <1>2, <1>4, <1>5, GrewEnds
<1>6. CASE Lost(r.v, g)
  BY <1>1, <1>2, <1>4, <1>6, LostEnds
<1>7. ~Strayed(r.v, h)
  <2>1. Strayed(r.v, h) => ~w.gone /\ (w.lost \/ h.org_clust \notin {0} \cup Clusters)
    BY OkAstray DEF Strayed
  <2> QED BY <2>1 DEF Ends, Cutoff
<1> QED BY <1>3, <1>5, <1>6, <1>7

(* What is left of the file, or what was asked for if that is less. *)
LEMMA ReadGood ==
  ASSUME NEW s, NEW p, NEW ex, Ready(s, p, ex), p.open, ~p.error, NEW m \in Nat,
         NEW n, n = Lesser(m, p.fsize - p.fptr),
         NEW r, r = ReadLoop(s, p, n), NEW w, w = IF r.fp.error THEN r.v ELSE Ok(r.v),
         NEW risk, risk = "no", NEW v2, NEW p2, NEW ex2, Ends(w, r.fp, risk, ex, v2, p2, ex2)
  PROVE  Good(v2, p2, ex2)
<1>1. Exposures(p, ex) /\ ex \in SUBSET {"file", "call"} /\ InFile(p)
  BY FileIs
<1>2. PICK x, g, ch : /\ x = (IF "file" \in ex THEN {p.name} ELSE {}) /\ (g <=> ex = {})
                      /\ Base(s, ch, x, g) /\ FileOf(s, p, ch) /\ Position(p, ch[p.name])
  BY FileIs
<1>3. IsFp(p) /\ p.fptr \in Nat /\ p.fsize \in Nat /\ p.fptr <= p.fsize
  BY <1>1, <1>2 DEF FileOf, IsFp, InFile
<1>4. n \in Nat /\ p.fptr + n <= p.fsize
  BY <1>3 DEF Lesser
<1>5. Kin(p, r.fp) /\ SameSize(p, r.fp) /\ Fine(r.v, r.fp, x, g)
  BY <1>2, <1>4, ReadsFile
<1>6. IsFp(r.fp) /\ r.fp.fptr <= p.fptr + n
  BY <1>3, <1>4, ReadsPaced
<1>7. InFile(r.fp) /\ Grew(p, r.fp)
  <2>1. r.fp.fptr \in Nat
    BY <1>6 DEF IsFp
  <2> QED BY <1>3, <1>4, <1>5, <1>6, <2>1, KinGrew DEF InFile, SameSize
<1>8. w \in {r.v, Ok(r.v)}
  OBVIOUS
<1> QED BY <1>1, <1>2, <1>5, <1>7, <1>8, GrewEnds, Zenon

LEMMA SyncInFile ==
  ASSUME NEW v, NEW p, IsFp(p), InFile(p), NEW r, r = Synced(v, p)
  PROVE  InFile(r.fp) /\ IsFp(r.fp) /\ r.fp.name = p.name /\ (r.fp.open <=> p.open)
<1>1. PICK w : w = FlushBuf(v, p)
  OBVIOUS
<1>2. PICK m : m = move_window(w, clust2sect(p.dir.clust))
  OBVIOUS
<1>3. PICK s : s = Store(m, p.dir, EntryFor(p))
  OBVIOUS
<1>4. PICK c : c = FpClean(p)
  OBVIOUS
<1>5. PICK d : d = FpSaved(c)
  OBVIOUS
<1>6. r.fp = p \/ r.fp = c \/ r.fp = d
  BY <1>1, <1>2, <1>3, <1>4, <1>5, SyncedIs
<1>7. IsFp(c) /\ Kin(p, c) /\ SameSize(p, c) /\ SamePlace(p, c) /\ SameError(p, c)
  BY <1>4, FpCleanIs DEF Kin
<1>8. IsFp(d) /\ d.name = c.name /\ (d.open <=> c.open) /\ SamePlace(c, d) /\ SameError(c, d) /\ SameSize(c, d)
  BY <1>5, <1>7, FpSavedIs
<1>9. InFile(c) /\ c.name = p.name /\ (c.open <=> p.open)
  BY <1>7 DEF InFile, SameSize, SamePlace, SameError, Kin
<1>10. InFile(d) /\ d.name = p.name /\ (d.open <=> p.open)
  BY <1>8, <1>9 DEF InFile, SameSize, SamePlace, SameError
<1> QED BY <1>6, <1>7, <1>8, <1>9, <1>10

LEMMA KinEnds ==
  ASSUME NEW p, NEW ex, Exposures(p, ex), p.open, NEW x, x = IF "file" \in ex THEN {p.name} ELSE {},
         NEW g, g <=> ex = {}, NEW w, NEW q, Fine(w, q, x, g), Kin(p, q), InFile(q),
         NEW risk, risk = "no", NEW v2, NEW p2, NEW ex2, Ends(w, q, risk, ex, v2, p2, ex2)
  PROVE  Good(v2, p2, ex2)
<1>1. Grew(p, q)
  BY KinGrew
<1>2. w \in {w, Ok(w)}
  OBVIOUS
<1> QED BY <1>1, <1>2, GrewEnds

LEMMA SavedEnds ==
  ASSUME NEW p, NEW ex \in SUBSET {"file", "call"}, NEW g, g <=> ex = {}, NEW r, Saved(r, p, g), InFile(r.fp),
         NEW q, q = r.fp \/ q = Closed, NEW w, w = r.v,
         NEW risk, risk = "no", NEW v2, NEW p2, NEW ex2, Ends(w, q, risk, ex, v2, p2, ex2)
  PROVE  Good(v2, p2, ex2)
<1>1. PICK x : x = {}
  BY Zenon
<1>2. Fine(w, r.fp, x, g) /\ w \in {w, Ok(w)}
  BY <1>1 DEF Saved
<1>3. Settles(w, q, x, g)
  BY <1>2, FineSettles
<1>4. ~q.written /\ (w.hit \/ ~w.wflag)
  BY ClosedIs DEF Saved
<1>5. q.open => InFile(q)
  BY ClosedIs
<1> QED BY <1>1, <1>3, <1>4, <1>5, SavedGood

LEMMA SyncGood ==
  ASSUME NEW s, NEW p, NEW ex, Ready(s, p, ex), p.open, NEW r, r = Synced(s, p),
         NEW risk, risk = "no", NEW v2, NEW p2, NEW ex2, Ends(r.v, r.fp, risk, ex, v2, p2, ex2)
  PROVE  Good(v2, p2, ex2)
<1>1. Exposures(p, ex) /\ ex \in SUBSET {"file", "call"} /\ InFile(p)
  BY FileIs
<1>2. PICK x, g, ch : /\ x = (IF "file" \in ex THEN {p.name} ELSE {}) /\ (g <=> ex = {})
                      /\ Base(s, ch, x, g) /\ FileOf(s, p, ch) /\ Position(p, ch[p.name])
                      /\ x \subseteq {p.name}
  BY FileIs
<1>3. Unsaved(r, p, x, g) \/ Saved(r, p, g)
  BY <1>2, Syncing
<1>4. InFile(r.fp)
  BY <1>1, <1>2, SyncInFile DEF FileOf
<1>5. CASE Unsaved(r, p, x, g)
  <2>1. Fine(r.v, r.fp, x, g) /\ Kin(p, r.fp)
    BY <1>5 DEF Unsaved
  <2> QED BY <1>1, <1>2, <1>4, <2>1, KinEnds, Zenon
<1>6. CASE Saved(r, p, g)
  BY <1>1, <1>2, <1>4, <1>6, SavedEnds, Zenon
<1> QED BY <1>3, <1>5, <1>6

LEMMA CloseGood ==
  ASSUME NEW s, NEW p, NEW ex, Ready(s, p, ex), p.open, NEW r, r = Synced(s, p),
         NEW q, q = IF r.v.res = "OK" THEN Closed ELSE r.fp,
         NEW risk, risk = "no", NEW v2, NEW p2, NEW ex2, Ends(r.v, q, risk, ex, v2, p2, ex2)
  PROVE  Good(v2, p2, ex2)
<1>1. Exposures(p, ex) /\ ex \in SUBSET {"file", "call"} /\ InFile(p)
  BY FileIs
<1>2. PICK x, g, ch : /\ x = (IF "file" \in ex THEN {p.name} ELSE {}) /\ (g <=> ex = {})
                      /\ Base(s, ch, x, g) /\ FileOf(s, p, ch) /\ Position(p, ch[p.name])
                      /\ x \subseteq {p.name}
  BY FileIs
<1>3. Unsaved(r, p, x, g) \/ Saved(r, p, g)
  BY <1>2, Syncing
<1>4. InFile(r.fp)
  BY <1>1, <1>2, SyncInFile DEF FileOf
<1>5. CASE Unsaved(r, p, x, g)
  <2>1. Fine(r.v, r.fp, x, g) /\ Kin(p, r.fp) /\ (IF p.written THEN r.v.res = "DISK_ERR" ELSE r.v.res = "OK")
    BY <1>5 DEF Unsaved
  <2>2. CASE p.written
    <3>1. Fine(r.v, q, x, g) /\ Kin(p, q) /\ InFile(q)
      BY <1>4, <2>1, <2>2
    <3> QED BY <1>1, <1>2, <3>1, KinEnds, Zenon
  <2>3. CASE ~p.written
    <3>1. q = Closed /\ "file" \notin ex
      BY <1>1, <2>1, <2>3 DEF Exposures
    <3>2. Exposures(q, ex) /\ (q.open => InFile(q)) /\ x = IF "file" \in ex THEN {q.name} ELSE {}
      BY <1>1, <1>2, <3>1, ClosedIs DEF Exposures
    <3>3. PICK w : w = r.v
      OBVIOUS
    <3>4. Settles(w, q, x, g)
      BY <2>1, <3>1, <3>3, FineSettles
    <3> QED BY <1>2, <3>2, <3>3, <3>4, PlainEnds
  <2> QED BY <2>2, <2>3
<1>6. CASE Saved(r, p, g)
  BY <1>1, <1>2, <1>4, <1>6, SavedEnds, Zenon
<1> QED BY <1>3, <1>5, <1>6

LEMMA TruncateGood ==
  ASSUME NEW s, NEW p, NEW ex, Ready(s, p, ex), p.open, ~p.error, NEW r, r = Truncated(s, p),
         NEW risk, risk = IF p.fsize > p.fptr THEN "file" ELSE "no",
         NEW v2, NEW p2, NEW ex2, Ends(r.v, r.fp, risk, ex, v2, p2, ex2)
  PROVE  Good(v2, p2, ex2)
<1>1. Exposures(p, ex) /\ ex \in SUBSET {"file", "call"} /\ InFile(p)
  BY FileIs
<1>2. PICK x, g, ch : /\ x = (IF "file" \in ex THEN {p.name} ELSE {}) /\ (g <=> ex = {})
                      /\ Base(s, ch, x, g) /\ FileOf(s, p, ch) /\ Position(p, ch[p.name])
                      /\ x \subseteq {p.name}
  BY FileIs
<1>3. IF p.fsize > p.fptr THEN Cuts(s, p, r) ELSE r.v = Ok(s) /\ r.fp = p
  BY <1>2, Truncating
<1>4. CASE p.fsize > p.fptr
  <2>1. Cuts(s, p, r) /\ risk = "file"
    BY <1>3, <1>4
  <2>2. PICK y : y = {p.name}
    BY Zenon
  <2>3. PICK h \in BOOLEAN : h = FALSE
    BY Zenon
  <2>4. Fine(r.v, r.fp, y, h) /\ r.fp.name = p.name /\ r.fp.open /\ r.fp.written
    BY <2>1, <2>2, <2>3, Zenon DEF Cuts, Alias
  <2>5. r.v \in {r.v, Ok(r.v)}
    OBVIOUS
  <2>6. Settles(r.v, r.fp, y, h)
    BY <2>4, <2>5, FineSettles
  <2>7. InFile(r.fp)
    <3>1. IsFp(p)
      BY <1>2 DEF FileOf
    <3>2. PICK c : c = p.curr_clust
      OBVIOUS
    <3>3. PICK a : a = get_fat(s, c)
      OBVIOUS
    <3>4. PICK l : l = put_fat(a, c, LastLink)
      OBVIOUS
    <3>5. PICK o, er : r.fp = FpCut(p, o, er)
      BY <1>4, <3>1, <3>2, <3>3, <3>4, TruncatedIs
    <3>6. IsFp(r.fp) /\ r.fp.fptr = p.fptr /\ r.fp.fsize = p.fptr
      BY <3>1, <3>5, FpCutIs DEF SamePlace
    <3> QED BY <3>6 DEF IsFp, InFile
  <2> QED BY <1>1, <2>1, <2>2, <2>3, <2>4, <2>6, <2>7, CutGood, Zenon
<1>5. CASE ~(p.fsize > p.fptr)
  <2>1. r.v = Ok(s) /\ r.fp = p /\ risk = "no"
    BY <1>3, <1>5
  <2>2. Fine(s, r.fp, x, g) /\ InFile(r.fp)
    BY <1>1, <1>2, <2>1 DEF Fine
  <2>3. r.v \in {s, Ok(s)}
    BY <2>1
  <2>4. Settles(r.v, r.fp, x, g)
    BY <2>2, <2>3, FineSettles
  <2>5. Exposures(r.fp, ex) /\ x = IF "file" \in ex THEN {r.fp.name} ELSE {}
    BY <1>1, <1>2, <2>1
  <2>6. risk = "no" /\ (r.fp.open => InFile(r.fp))
    BY <1>5, <2>2
  <2> QED BY <1>2, <2>4, <2>5, <2>6, PlainEnds
<1> QED BY <1>4, <1>5
-----------------------------------------------------------------------------
(* The actions. *)

LEMMA FaultIs ==
  ASSUME NEW v, NEW f \in Faults(v)
  PROVE  Start(f) = StartOf(vol, f.left, f.gone) /\ f.left \in Int
<1>1. Start(f) = StartOf(vol, f.left, f.gone)
  BY DEF Start, StartOf
<1>2. CASE f = NoFault
  <2>1. f.left = -1
    BY <1>2 DEF NoFault
  <2> QED BY <1>1, <2>1
<1>3. CASE f # NoFault
  <2>1. f \in [left : 0..(vol.left - v.left - 1), gone : BOOLEAN]
    BY <1>3, Zenon DEF Faults
  <2>2. f.left \in 0..(vol.left - v.left - 1)
    BY <2>1, Zenon
  <2>3. f.left \in Int
    BY <2>2
  <2> QED BY <1>1, <2>3
<1> QED BY <1>2, <1>3, Zenon

LEMMA Begins ==
  ASSUME Good(vol, fp, exposed), Sound(View) \/ exposed = {"file"},
         NEW v, NEW f \in Faults(v), NEW s, s = Start(f)
  PROVE  Ready(s, fp, exposed) /\ Cutting(s)
<1>1. s = StartOf(vol, f.left, f.gone) /\ f.left \in Int
  BY FaultIs, Zenon
<1>2. Ready(s, fp, exposed)
  BY <1>1, Starts DEF View
<1>3. IsVol(vol) /\ ~vol.hit
  BY DEF Good, Sane
<1>4. ~s.hit
  BY <1>1, <1>3, StartFacts
<1> QED BY <1>2, <1>4 DEF Cutting

LEMMA StatKeeps ==
  ASSUME Good(vol, fp, exposed), Sound(View) \/ exposed = {"file"}, NEW n \in Names, f_stat(n),
         ~Stray(exposed')
  PROVE  Good(vol', fp', exposed')
<1>1. PICK risk : risk = "no"
  OBVIOUS
<1>2. PICK f, names, content :
        /\ f \in Faults(StatOf(vol, n))
        /\ Finish(StatOf(Start(f), n), fp, names, content, risk)
  BY <1>1, Zenon DEF f_stat, StatOf
<1>3. PICK s : s = Start(f)
  OBVIOUS
<1>4. Ready(s, fp, exposed)
  BY <1>2, <1>3, Begins
<1>5. PICK w : w = StatOf(s, n)
  OBVIOUS
<1>6. Ends(w, fp, risk, exposed, vol', fp', exposed')
  BY <1>2, <1>3, <1>5, FinishIs
<1> QED BY <1>1, <1>4, <1>5, <1>6, StatGood

LEMMA FreeKeeps ==
  ASSUME Good(vol, fp, exposed), Sound(View) \/ exposed = {"file"}, f_getfree,
         ~Stray(exposed')
  PROVE  Good(vol', fp', exposed')
<1>1. PICK risk : risk = "no"
  OBVIOUS
<1>2. PICK f, names, content :
        /\ f \in Faults(FreeCounted(vol))
        /\ Finish(FreeCounted(Start(f)), fp, names, content, risk)
  BY <1>1 DEF f_getfree
<1>3. PICK s : s = Start(f)
  OBVIOUS
<1>4. Ready(s, fp, exposed)
  BY <1>2, <1>3, Begins
<1>5. PICK w : w = FreeCounted(s)
  OBVIOUS
<1>6. Ends(w, fp, risk, exposed, vol', fp', exposed')
  BY <1>2, <1>3, <1>5, FinishIs
<1> QED BY <1>1, <1>4, <1>5, <1>6, FreeGood

LEMMA ListKeeps ==
  ASSUME Good(vol, fp, exposed), Sound(View) \/ exposed = {"file"}, f_readdir,
         ~Stray(exposed')
  PROVE  Good(vol', fp', exposed')
<1>1. PICK risk : risk = "no"
  OBVIOUS
<1>2. PICK f, names, content :
        /\ f \in Faults(Listed(vol).v)
        /\ Finish(Listed(Start(f)).v, fp, names, content, risk)
  BY <1>1 DEF f_readdir
<1>3. PICK s : s = Start(f)
  OBVIOUS
<1>4. Ready(s, fp, exposed)
  BY <1>2, <1>3, Begins
<1>5. PICK w : w = Listed(s).v
  OBVIOUS
<1>6. Ends(w, fp, risk, exposed, vol', fp', exposed')
  BY <1>2, <1>3, <1>5, FinishIs
<1> QED BY <1>1, <1>4, <1>5, <1>6, ListGood

LEMMA UnlinkKeeps ==
  ASSUME Good(vol, fp, exposed), Sound(View) \/ exposed = {"file"}, NEW n \in Names \ {fp.name}, f_unlink(n),
         ~Stray(exposed')
  PROVE  Good(vol', fp', exposed')
<1>1. PICK risk : risk = "no"
  OBVIOUS
<1>2. PICK f, names, content :
        /\ f \in Faults(Unlinked(vol, n))
        /\ Finish(Unlinked(Start(f), n), fp, names, content, risk)
  BY <1>1 DEF f_unlink
<1>3. PICK s : s = Start(f)
  OBVIOUS
<1>4. Ready(s, fp, exposed)
  BY <1>2, <1>3, Begins
<1>5. PICK w : w = Unlinked(s, n)
  OBVIOUS
<1>6. Ends(w, fp, risk, exposed, vol', fp', exposed')
  BY <1>2, <1>3, <1>5, FinishIs
<1> QED BY <1>1, <1>4, <1>5, <1>6, UnlinkGood

LEMMA RenameKeeps ==
  ASSUME Good(vol, fp, exposed), Sound(View) \/ exposed = {"file"}, NEW n \in Names \ {fp.name}, NEW m \in Names \ {fp.name}, f_rename(n, m),
         ~Stray(exposed')
  PROVE  Good(vol', fp', exposed')
<1>1. PICK risk : risk = "call"
  OBVIOUS
<1>2. PICK f, names, content :
        /\ f \in Faults(Renamed(vol, n, m))
        /\ Finish(Renamed(Start(f), n, m), fp, names, content, risk)
  BY <1>1 DEF f_rename
<1>3. PICK s : s = Start(f)
  OBVIOUS
<1>4. Ready(s, fp, exposed)
  BY <1>2, <1>3, Begins
<1>5. PICK w : w = Renamed(s, n, m)
  OBVIOUS
<1>6. Ends(w, fp, risk, exposed, vol', fp', exposed')
  BY <1>2, <1>3, <1>5, FinishIs
<1> QED BY <1>1, <1>4, <1>5, <1>6, RenameGood

LEMMA OpenKeeps ==
  ASSUME Good(vol, fp, exposed), Sound(View) \/ exposed = {"file"}, ~fp.open, NEW n \in Names, NEW m, f_open(n, m),
         ~Stray(exposed')
  PROVE  Good(vol', fp', exposed')
<1>1. PICK risk : risk = "no"
  OBVIOUS
<1>2. /\ ~fp.open
      /\ \E f, names, content :
        /\ f \in Faults(Opened(vol, n, m).v)
        /\ Finish(Opened(Start(f), n, m).v, Opened(Start(f), n, m).fp, names, content, risk)
  BY <1>1 DEF f_open
<1>3. PICK f, names, content :
        /\ f \in Faults(Opened(vol, n, m).v)
        /\ Finish(Opened(Start(f), n, m).v, Opened(Start(f), n, m).fp, names, content, risk)
  BY <1>2
<1>4. PICK s : s = Start(f)
  OBVIOUS
<1>5. Ready(s, fp, exposed)
  BY <1>3, <1>4, Begins
<1>6. PICK r : r = Opened(s, n, m)
  OBVIOUS
<1>7. PICK w : w = r.v
  OBVIOUS
<1>8. PICK q : q = r.fp
  OBVIOUS
<1>9. Ends(w, q, risk, exposed, vol', fp', exposed')
  BY <1>3, <1>4, <1>6, <1>7, <1>8, FinishIs
<1> QED BY <1>1, <1>2, <1>5, <1>6, <1>7, <1>8, <1>9, OpenGood

LEMMA SyncKeeps ==
  ASSUME Good(vol, fp, exposed), Sound(View) \/ exposed = {"file"}, f_sync,
         ~Stray(exposed')
  PROVE  Good(vol', fp', exposed')
<1>1. PICK risk : risk = "no"
  OBVIOUS
<1>2. /\ fp.open
      /\ \E f, names, content :
        /\ f \in Faults(Synced(vol, fp).v)
        /\ Finish(Synced(Start(f), fp).v, Synced(Start(f), fp).fp, names, content, risk)
  BY <1>1 DEF f_sync
<1>3. PICK f, names, content :
        /\ f \in Faults(Synced(vol, fp).v)
        /\ Finish(Synced(Start(f), fp).v, Synced(Start(f), fp).fp, names, content, risk)
  BY <1>2
<1>4. PICK s : s = Start(f)
  OBVIOUS
<1>5. Ready(s, fp, exposed)
  BY <1>3, <1>4, Begins
<1>6. PICK r : r = Synced(s, fp)
  OBVIOUS
<1>7. PICK w : w = r.v
  OBVIOUS
<1>8. PICK q : q = r.fp
  OBVIOUS
<1>9. Ends(w, q, risk, exposed, vol', fp', exposed')
  BY <1>3, <1>4, <1>6, <1>7, <1>8, FinishIs
<1> QED BY <1>1, <1>2, <1>5, <1>6, <1>7, <1>8, <1>9, SyncGood

LEMMA CloseKeeps ==
  ASSUME Good(vol, fp, exposed), Sound(View) \/ exposed = {"file"}, f_close,
         ~Stray(exposed')
  PROVE  Good(vol', fp', exposed')
<1>1. PICK risk : risk = "no"
  OBVIOUS
<1>2. /\ fp.open
      /\ \E f, names, content :
        /\ f \in Faults(Synced(vol, fp).v)
        /\ Finish(Synced(Start(f), fp).v, (IF Synced(Start(f), fp).v.res = "OK" THEN Closed ELSE Synced(Start(f), fp).fp), names, content, risk)
  BY <1>1 DEF f_close
<1>3. PICK f, names, content :
        /\ f \in Faults(Synced(vol, fp).v)
        /\ Finish(Synced(Start(f), fp).v, (IF Synced(Start(f), fp).v.res = "OK" THEN Closed ELSE Synced(Start(f), fp).fp), names, content, risk)
  BY <1>2
<1>4. PICK s : s = Start(f)
  OBVIOUS
<1>5. Ready(s, fp, exposed)
  BY <1>3, <1>4, Begins
<1>6. PICK r : r = Synced(s, fp)
  OBVIOUS
<1>7. PICK w : w = r.v
  OBVIOUS
<1>8. PICK q : q = (IF r.v.res = "OK" THEN Closed ELSE r.fp)
  OBVIOUS
<1>9. Ends(w, q, risk, exposed, vol', fp', exposed')
  BY <1>3, <1>4, <1>6, <1>7, <1>8, FinishIs
<1> QED BY <1>1, <1>2, <1>5, <1>6, <1>7, <1>8, <1>9, CloseGood

LEMMA ReadKeeps ==
  ASSUME Good(vol, fp, exposed), Sound(View) \/ exposed = {"file"}, NEW n \in Sizes, f_read(n),
         ~Stray(exposed')
  PROVE  Good(vol', fp', exposed')
<1>1. PICK risk : risk = "no"
  OBVIOUS
<1>2. /\ fp.open /\ ~fp.error
      /\ \E f, names, content :
        /\ f \in Faults(ReadLoop(vol, fp, Lesser(n, fp.fsize - fp.fptr)).v)
        /\ Finish((IF ReadLoop(Start(f), fp, Lesser(n, fp.fsize - fp.fptr)).fp.error THEN ReadLoop(Start(f), fp, Lesser(n, fp.fsize - fp.fptr)).v ELSE Ok(ReadLoop(Start(f), fp, Lesser(n, fp.fsize - fp.fptr)).v)), ReadLoop(Start(f), fp, Lesser(n, fp.fsize - fp.fptr)).fp, names, content, risk)
  BY <1>1, Zenon DEF f_read
<1>3. PICK f, names, content :
        /\ f \in Faults(ReadLoop(vol, fp, Lesser(n, fp.fsize - fp.fptr)).v)
        /\ Finish((IF ReadLoop(Start(f), fp, Lesser(n, fp.fsize - fp.fptr)).fp.error THEN ReadLoop(Start(f), fp, Lesser(n, fp.fsize - fp.fptr)).v ELSE Ok(ReadLoop(Start(f), fp, Lesser(n, fp.fsize - fp.fptr)).v)), ReadLoop(Start(f), fp, Lesser(n, fp.fsize - fp.fptr)).fp, names, content, risk)
  BY <1>2
<1>4. PICK s : s = Start(f)
  OBVIOUS
<1>5. Ready(s, fp, exposed)
  BY <1>3, <1>4, Begins
<1>6. PICK r : r = ReadLoop(s, fp, Lesser(n, fp.fsize - fp.fptr))
  OBVIOUS
<1>7. PICK w : w = (IF r.fp.error THEN r.v ELSE Ok(r.v))
  OBVIOUS
<1>8. PICK q : q = r.fp
  OBVIOUS
<1>9. Ends(w, q, risk, exposed, vol', fp', exposed')
  BY <1>3, <1>4, <1>6, <1>7, <1>8, FinishIs
<1>10. n \in Nat
  BY BoundsAssumption
<1>11. PICK k : k = Lesser(n, fp.fsize - fp.fptr)
  OBVIOUS
<1>12. r = ReadLoop(s, fp, k)
  BY <1>6, <1>11
<1>13. Ends(w, r.fp, risk, exposed, vol', fp', exposed')
  BY <1>8, <1>9
<1> QED BY <1>1, <1>2, <1>5, <1>7, <1>10, <1>11, <1>12, <1>13, ReadGood

LEMMA SeekKeeps ==
  ASSUME Good(vol, fp, exposed), Sound(View) \/ exposed = {"file"}, NEW ofs \in Places, f_lseek(ofs),
         ~Stray(exposed')
  PROVE  Good(vol', fp', exposed')
<1>1. PICK risk : risk = "no"
  OBVIOUS
<1>2. /\ fp.open /\ ~fp.error
      /\ \E f, names, content :
        /\ f \in Faults(SeekTo(vol, fp, IF fp.write THEN ofs ELSE Lesser(ofs, fp.fsize)).v)
        /\ Finish((IF SeekTo(Start(f), fp, IF fp.write THEN ofs ELSE Lesser(ofs, fp.fsize)).fp.error THEN SeekTo(Start(f), fp, IF fp.write THEN ofs ELSE Lesser(ofs, fp.fsize)).v ELSE Ok(SeekTo(Start(f), fp, IF fp.write THEN ofs ELSE Lesser(ofs, fp.fsize)).v)), SeekTo(Start(f), fp, IF fp.write THEN ofs ELSE Lesser(ofs, fp.fsize)).fp, names, content, risk)
  BY <1>1 DEF f_lseek
<1>3. PICK f, names, content :
        /\ f \in Faults(SeekTo(vol, fp, IF fp.write THEN ofs ELSE Lesser(ofs, fp.fsize)).v)
        /\ Finish((IF SeekTo(Start(f), fp, IF fp.write THEN ofs ELSE Lesser(ofs, fp.fsize)).fp.error THEN SeekTo(Start(f), fp, IF fp.write THEN ofs ELSE Lesser(ofs, fp.fsize)).v ELSE Ok(SeekTo(Start(f), fp, IF fp.write THEN ofs ELSE Lesser(ofs, fp.fsize)).v)), SeekTo(Start(f), fp, IF fp.write THEN ofs ELSE Lesser(ofs, fp.fsize)).fp, names, content, risk)
  BY <1>2
<1>4. PICK s : s = Start(f)
  OBVIOUS
<1>5. Ready(s, fp, exposed) /\ Cutting(s)
  BY <1>3, <1>4, Begins
<1>6. PICK r : r = SeekTo(s, fp, IF fp.write THEN ofs ELSE Lesser(ofs, fp.fsize))
  OBVIOUS
<1>7. PICK w : w = (IF r.fp.error THEN r.v ELSE Ok(r.v))
  OBVIOUS
<1>8. PICK q : q = r.fp
  OBVIOUS
<1>9. Ends(w, q, risk, exposed, vol', fp', exposed')
  BY <1>3, <1>4, <1>6, <1>7, <1>8, FinishIs
<1>10. ofs \in Nat
  BY BoundsAssumption
<1>11. PICK ex : ex = exposed
  OBVIOUS
<1>12. Ready(s, fp, ex)
  BY <1>5, <1>11
<1>13. IsFp(fp)
  BY <1>2, <1>12, FileIs DEF FileOf
<1>14. PICK k : k = IF fp.write THEN ofs ELSE Lesser(ofs, fp.fsize)
  OBVIOUS
<1>15. k \in Nat
  BY <1>10, <1>13, <1>14 DEF IsFp, Lesser
<1>16. r = SeekTo(s, fp, k)
  BY <1>6, <1>14
<1>17. Ends(w, r.fp, risk, exposed, vol', fp', exposed')
  BY <1>8, <1>9
<1> QED BY <1>1, <1>2, <1>5, <1>7, <1>15, <1>16, <1>17, SeekGood

LEMMA WriteKeeps ==
  ASSUME Good(vol, fp, exposed), Sound(View) \/ exposed = {"file"}, NEW n \in Sizes, NEW d, f_write(n, d),
         ~Stray(exposed')
  PROVE  Good(vol', fp', exposed')
<1>1. PICK risk : risk = "no"
  OBVIOUS
<1>2. /\ fp.open /\ ~fp.error
      /\ \E f, names, content :
        /\ f \in Faults(WriteLoop(vol, fp, n, d).v)
        /\ Finish((IF WriteLoop(Start(f), fp, n, d).fp.error THEN WriteLoop(Start(f), fp, n, d).v ELSE Ok(WriteLoop(Start(f), fp, n, d).v)), (IF WriteLoop(Start(f), fp, n, d).fp.error THEN WriteLoop(Start(f), fp, n, d).fp ELSE [WriteLoop(Start(f), fp, n, d).fp EXCEPT !.written = TRUE, !.fsize = IF WriteLoop(Start(f), fp, n, d).fp.fptr > @ THEN WriteLoop(Start(f), fp, n, d).fp.fptr ELSE @]), names, content, risk)
  BY <1>1, ZenonT(60) DEF f_write
<1>3. PICK f, names, content :
        /\ f \in Faults(WriteLoop(vol, fp, n, d).v)
        /\ Finish((IF WriteLoop(Start(f), fp, n, d).fp.error THEN WriteLoop(Start(f), fp, n, d).v ELSE Ok(WriteLoop(Start(f), fp, n, d).v)), (IF WriteLoop(Start(f), fp, n, d).fp.error THEN WriteLoop(Start(f), fp, n, d).fp ELSE [WriteLoop(Start(f), fp, n, d).fp EXCEPT !.written = TRUE, !.fsize = IF WriteLoop(Start(f), fp, n, d).fp.fptr > @ THEN WriteLoop(Start(f), fp, n, d).fp.fptr ELSE @]), names, content, risk)
  BY <1>2, Zenon
<1>4. PICK s : s = Start(f)
  OBVIOUS
<1>5. Ready(s, fp, exposed) /\ Cutting(s)
  BY <1>3, <1>4, Begins
<1>6. PICK r : r = WriteLoop(s, fp, n, d)
  OBVIOUS
<1>7. PICK w : w = (IF r.fp.error THEN r.v ELSE Ok(r.v))
  OBVIOUS
<1>8. PICK q : q = (IF r.fp.error THEN r.fp ELSE [r.fp EXCEPT !.written = TRUE, !.fsize = IF r.fp.fptr > @ THEN r.fp.fptr ELSE @])
  OBVIOUS
<1>9. Ends(w, q, risk, exposed, vol', fp', exposed')
  BY <1>3, <1>4, <1>6, <1>7, <1>8, FinishIs
<1>10. n \in Nat
  BY BoundsAssumption
<1> QED BY <1>1, <1>2, <1>5, <1>6, <1>7, <1>8, <1>9, <1>10, WriteGood, Zenon

LEMMA TruncateKeeps ==
  ASSUME Good(vol, fp, exposed), Sound(View) \/ exposed = {"file"}, f_truncate,
         ~Stray(exposed')
  PROVE  Good(vol', fp', exposed')
<1>1. PICK risk : risk = IF fp.fsize > fp.fptr THEN "file" ELSE "no"
  OBVIOUS
<1>2. /\ fp.open /\ ~fp.error
      /\ \E f, names, content :
        /\ f \in Faults(Truncated(vol, fp).v)
        /\ Finish(Truncated(Start(f), fp).v, Truncated(Start(f), fp).fp, names, content, risk)
  BY <1>1 DEF f_truncate
<1>3. PICK f, names, content :
        /\ f \in Faults(Truncated(vol, fp).v)
        /\ Finish(Truncated(Start(f), fp).v, Truncated(Start(f), fp).fp, names, content, risk)
  BY <1>2
<1>4. PICK s : s = Start(f)
  OBVIOUS
<1>5. Ready(s, fp, exposed)
  BY <1>3, <1>4, Begins
<1>6. PICK r : r = Truncated(s, fp)
  OBVIOUS
<1>7. PICK w : w = r.v
  OBVIOUS
<1>8. PICK q : q = r.fp
  OBVIOUS
<1>9. Ends(w, q, risk, exposed, vol', fp', exposed')
  BY <1>3, <1>4, <1>6, <1>7, <1>8, FinishIs
<1> QED BY <1>1, <1>2, <1>5, <1>6, <1>7, <1>8, <1>9, TruncateGood

LEMMA PowerKeeps ==
  ASSUME Good(vol, fp, exposed), Sound(View) \/ exposed = {"file"}, PowerCycle
  PROVE  Good(vol', fp', exposed')
<1>1. PICK protect : vol' = Unmounted(vol.card, protect)
  BY DEF PowerCycle
<1>2. fp' = Closed /\ exposed' = (exposed \ {"file"}) \cup {k \in {"call"} : "file" \in exposed}
  BY DEF PowerCycle
<1>3. Exposures(fp, exposed) /\ ~vol.hit
  BY DEF Good
<1>4. exposed' \subseteq {"call"} /\ ("call" \notin exposed' => exposed = {})
  BY <1>2, <1>3 DEF Exposures
<1>5. WellTyped(vol.card) /\ K(vol.card) /\ ("call" \notin exposed' => Sound(vol.card))
  <2>1. CASE Settled(vol, fp, exposed)
    <3>1. PICK x, g : (g <=> exposed = {}) /\ Settles(vol, fp, x, g)
      BY <2>1 DEF Settled
    <3>2. PICK ch : Base(vol, ch, x, g)
      BY <3>1 DEF Settles
    <3>3. WellTyped(vol.card) /\ K(vol.card) /\ (g => Sound(vol.card))
      BY <1>3, <3>2 DEF Base
    <3> QED BY <1>4, <3>1, <3>3
  <2>2. CASE Resting(vol, fp, exposed)
    BY <1>4, <2>2 DEF Resting, Idle
  <2>3. ~Broken(vol, exposed)
    BY DEF Broken, View
  <2> QED BY <2>1, <2>2, <2>3 DEF Good
<1>6. PICK w : w = vol'
  OBVIOUS
<1>7. PICK g : g = FALSE
  BY Zenon
<1>8. Idle(w, g) /\ ~w.hit /\ ~w.stretched /\ ~w.gone /\ w.left = -1 /\ w.card = vol.card
  BY <1>1, <1>5, <1>6, <1>7, UnmountedIdle
<1>9. Sane(w) /\ Idle(w, FALSE)
  BY <1>7, <1>8, Zenon DEF Idle
<1>10. PICK p : p = fp'
  OBVIOUS
<1>11. ~p.open /\ ~p.dirty
  BY <1>2, <1>10, ClosedIs
<1>12. PICK ex : ex = exposed'
  OBVIOUS
<1>13. Exposures(p, ex) /\ ("call" \notin ex => Sound(w.card))
  BY <1>4, <1>5, <1>8, <1>12 DEF Exposures
<1>14. Good(w, p, ex)
  BY <1>8, <1>9, <1>11, <1>13, Zenon DEF Good, Resting, OverTable
<1> QED BY <1>6, <1>10, <1>12, <1>14

LEMMA InitGood ==
  ASSUME Init
  PROVE  Good(vol, fp, exposed)
<1>1. PICK card \in Cards, protect \in BOOLEAN : vol = Unmounted(card, protect)
  BY DEF Init
<1>2. fp = Closed /\ exposed = {}
  BY DEF Init
<1>3. WellTyped(card) /\ K(card) /\ Sound(card)
  BY CardsAssumption DEF Formatted, K
<1>4. PICK g \in BOOLEAN : g = TRUE
  BY Zenon
<1>5. PICK w : w = vol
  OBVIOUS
<1>6. Idle(w, g) /\ ~w.hit /\ ~w.stretched /\ ~w.gone /\ w.left = -1 /\ w.card = card
  BY <1>1, <1>3, <1>5, UnmountedIdle
<1>7. Sane(w) /\ Idle(w, FALSE) /\ Sound(w.card)
  BY <1>3, <1>6 DEF Idle
<1>8. PICK p : p = fp
  OBVIOUS
<1>9. ~p.open /\ ~p.dirty
  BY <1>2, <1>8, ClosedIs
<1>10. PICK ex : ex = {}
  BY Zenon
<1>11. Exposures(p, ex)
  BY <1>10 DEF Exposures
<1>12. Good(w, p, ex)
  BY <1>6, <1>7, <1>9, <1>11, Zenon DEF Good, Resting, OverTable
<1> QED BY <1>2, <1>5, <1>8, <1>10, <1>12

(* Every call ends with Finish. *)
Finished == \E v, p, names, content, risk : Finish(v, p, names, content, risk)

LEMMA CallsFinish ==
  ASSUME Next, ~PowerCycle
  PROVE  Finished
<1>1. ASSUME NEW n, NEW m, f_open(n, m) PROVE Finished
  BY <1>1, Zenon DEF f_open, Finished
<1>2. ASSUME NEW n, NEW d, f_write(n, d) PROVE Finished
  <2>1. PICK s, r : r = WriteLoop(s, fp, n, d) /\ IF r.fp.error THEN Finish(r.v, r.fp, {fp.name}, <<"unknown">>, "no")
                                                  ELSE \E p, content : Finish(Ok(r.v), p, {}, content, "no")
    BY <1>2, Zenon DEF f_write
  <2> QED BY <2>1, Zenon DEF Finished
<1>3. ASSUME NEW n, f_read(n) PROVE Finished
  BY <1>3, Zenon DEF f_read, Finished
<1>4. ASSUME NEW ofs, f_lseek(ofs) PROVE Finished
  BY <1>4, Zenon DEF f_lseek, Finished
<1>5. ASSUME f_truncate PROVE Finished
  BY <1>5, Zenon DEF f_truncate, Finished
<1>6. ASSUME f_sync PROVE Finished
  BY <1>6, Zenon DEF f_sync, Finished
<1>7. ASSUME f_close PROVE Finished
  BY <1>7, Zenon DEF f_close, Finished
<1>8. ASSUME NEW n, f_unlink(n) PROVE Finished
  BY <1>8, Zenon DEF f_unlink, Finished
<1>9. ASSUME NEW n, NEW m, f_rename(n, m) PROVE Finished
  BY <1>9, Zenon DEF f_rename, Finished
<1>10. ASSUME f_getfree PROVE Finished
  BY <1>10, Zenon DEF f_getfree, Finished
<1>11. ASSUME f_readdir PROVE Finished
  BY <1>11, Zenon DEF f_readdir, Finished
<1>12. ASSUME NEW n, f_stat(n) PROVE Finished
  BY <1>12, Zenon DEF f_stat, Finished
<1> QED BY <1>1, <1>2, <1>3, <1>4, <1>5, <1>6, <1>7, <1>8, <1>9, <1>10, <1>11, <1>12, Zenon DEF Next

LEMMA NextStray ==
  ASSUME Next, Stray(exposed)
  PROVE  Stray(exposed')
<1>1. CASE PowerCycle
  BY <1>1 DEF PowerCycle, Stray
<1>2. CASE ~PowerCycle
  BY <1>2, CallsFinish, StrayStays DEF Finished
<1> QED BY <1>1, <1>2

(* The inductive invariant. *)
IInv == Stray(exposed) \/ Good(vol, fp, exposed)

LEMMA NextKeeps ==
  ASSUME IInv, Next
  PROVE  IInv'
<1> SUFFICES ASSUME ~Stray(exposed') PROVE Good(vol', fp', exposed')
  BY DEF IInv
<1>1. Good(vol, fp, exposed)
  BY NextStray DEF IInv
<1>2. Sound(View) \/ exposed = {"file"}
  <2>1. exposed \subseteq {"file", "call"}
    BY <1>1 DEF Good, Exposures
  <2> QED BY <2>1 DEF Next, Followed
<1>3. CASE ~fp.open /\ \E n \in Names, m \in Modes : f_open(n, m)
  BY <1>1, <1>2, <1>3, OpenKeeps
<1>4. CASE \E n \in Sizes, d \in Pieces : f_write(n, d)
  BY <1>1, <1>2, <1>4, WriteKeeps
<1>5. CASE \E n \in Sizes : f_read(n)
  BY <1>1, <1>2, <1>5, ReadKeeps
<1>6. CASE \E ofs \in Places : f_lseek(ofs)
  BY <1>1, <1>2, <1>6, SeekKeeps
<1>7. CASE f_truncate
  BY <1>1, <1>2, <1>7, TruncateKeeps
<1>8. CASE f_sync
  BY <1>1, <1>2, <1>8, SyncKeeps
<1>9. CASE f_close
  BY <1>1, <1>2, <1>9, CloseKeeps
<1>10. CASE \E n \in Names \ {fp.name} : f_unlink(n)
  BY <1>1, <1>2, <1>10, UnlinkKeeps
<1>11. CASE \E n, m \in Names \ {fp.name} : f_rename(n, m)
  BY <1>1, <1>2, <1>11, RenameKeeps
<1>12. CASE f_getfree
  BY <1>1, <1>2, <1>12, FreeKeeps
<1>13. CASE f_readdir
  BY <1>1, <1>2, <1>13, ListKeeps
<1>14. CASE \E n \in Names : f_stat(n)
  BY <1>1, <1>2, <1>14, StatKeeps
<1>15. CASE PowerCycle
  BY <1>1, <1>2, <1>15, PowerKeeps
<1> QED BY <1>3, <1>4, <1>5, <1>6, <1>7, <1>8, <1>9, <1>10, <1>11, <1>12, <1>13, <1>14, <1>15 DEF Next

LEMMA GoodSound ==
  ASSUME IInv
  PROVE  TornOnlyWhenExposed /\ WindowIsTrue
<1>1. ASSUME exposed = {} PROVE Sound(View)
  <2>0. Good(vol, fp, exposed)
    BY <1>1 DEF IInv, Stray
  <2>1. ~Broken(vol, exposed)
    BY <1>1 DEF Broken
  <2>2. CASE Settled(vol, fp, exposed)
    <3>1. PICK x, g : x = {} /\ Settles(vol, fp, x, g)
      BY <1>1, <2>2, Zenon DEF Settled
    <3>2. PICK ch : Base(vol, ch, x, g)
      BY <3>1 DEF Settles
    <3>3. Tree(Flushed(vol), ch, x)
      BY <3>2 DEF Base
    <3> QED BY <3>1, <3>3, TreeK DEF View
  <2>3. CASE Resting(vol, fp, exposed)
    BY <1>1, <2>3 DEF Resting, Idle, View, Flushed
  <2> QED BY <2>0, <2>1, <2>2, <2>3 DEF Good
<1>2. ASSUME exposed \cap {"lost", "buffer"} = {} PROVE Sane(vol)
  BY <1>2 DEF IInv, Stray, Good
<1>3. WindowIsTrue
  BY <1>2 DEF Sane, True, WindowIsTrue
<1> QED BY <1>1, <1>3 DEF TornOnlyWhenExposed

(* Every call, with any fault at any of its transfers, and the power switched *)
(* off or the card pulled between any two, keeps the inductive invariant,     *)
(* which says nothing once an error was passed over (ff.c:786-788, 2258) or a *)
(* buffer outlived its cluster (ff.c:2912).                                   *)
THEOREM Invariance == Spec => []IInv
<1>1. Init => IInv
  BY InitGood DEF IInv
<1>2. ASSUME IInv, [Next]_vars PROVE IInv'
  <2>1. CASE Next
    BY <1>2, <2>1, NextKeeps
  <2>2. CASE UNCHANGED vars
    BY <1>2, <2>2 DEF IInv, vars
  <2> QED BY <1>2, <2>1, <2>2
<1> QED BY <1>1, <1>2, PTL DEF Spec

(* A fault at any transfer of any call, refused or cut off, leaves a sound    *)
(* volume, but for the cases that exposed names: after f_truncate before the  *)
(* entry is saved, while the directory is stretched, in f_rename, and after   *)
(* create_chain or f_write passed over an error or f_truncate kept the buffer *)
(* of a cluster that it freed, and the directory took it.                     *)
THEOREM SoundUnlessExposed == Spec => []TornOnlyWhenExposed
BY Invariance, GoodSound, PTL

(* A clean window is what the card has in its sector, whatever failed before, *)
(* until create_chain or f_write passes over an error or a buffer is to be    *)
(* written over the directory: move_window, sync and the writers of the       *)
(* window never disagree with it.                                             *)
THEOREM WindowTrue == Spec => []WindowIsTrue
BY Invariance, GoodSound, PTL
=========================================================================
