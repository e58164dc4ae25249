-------------------------- MODULE FatLayout_proofs --------------------------
(***************************************************************************)
(* The layout of a volume, which clusters belong to which file and in      *)
(* which order (Tree), and what mounting, the window, the FAT, the         *)
(* directory, reading and writing do to it, for any files, volume and      *)
(* cards, and with a fault in any transfer. In this order: numbers and     *)
(* chains; cards with a layout, and what a change of a datum, a link or an *)
(* entry does to it; the operators of FatVolume and FatFs that work on a   *)
(* mounted volume (Base), from move_window to dir_register and sync;       *)
(* chk_mounted; the open file, and the loops of f_write and f_read.        *)
(***************************************************************************)
EXTENDS FatFs, SequenceTheorems, FiniteSetTheorems, WellFoundedInduction, TLAPS

-----------------------------------------------------------------------------
(* Numbers and sequences. *)

(* Every nonempty set of natural numbers has a least element. *)
LEMMA LeastElement ==
  ASSUME NEW T \in SUBSET Nat, T # {}
  PROVE  \E x \in T : \A y \in T : x <= y
<1>1. IsWellFoundedOn(OpToRel(<, Nat), Nat)
  BY NatLessThanWellFounded, Zenon
<1>2. PICK x \in T : \A y \in T : ~(<<y, x>> \in OpToRel(<, Nat))
  BY <1>1, WFMin, Zenon
<1>3. \A y \in T : ~(y < x)
  BY <1>2, Zenon DEF OpToRel
<1> QED BY <1>3

(* Induction up to n, for a set in place of a predicate. *)
LEMMA UpTo ==
  ASSUME NEW n \in Nat, NEW S, 0 \in S, \A i \in 1..n : i - 1 \in S => i \in S
  PROVE  0..n \subseteq S
<1> SUFFICES ASSUME ~(0..n \subseteq S) PROVE FALSE
  OBVIOUS
<1> DEFINE T == (0..n) \ S
<1>1. PICK x \in T : \A y \in T : x <= y
  <2>1. T \in SUBSET Nat /\ T # {}
    OBVIOUS
  <2> HIDE DEF T
  <2> QED BY <2>1, LeastElement
<1>2. x \in 1..n /\ x - 1 \in 0..n /\ x - 1 \notin T
  BY <1>1
<1> QED BY <1>1, <1>2

(* An injective sequence of clusters is no longer than there are clusters. *)
LEMMA ShortEnough ==
  ASSUME NEW q \in Seq(Clusters),
         \A i, j \in 1..Len(q) : q[i] = q[j] => i = j
  PROVE  Len(q) < LastCluster
<1>1. LastCluster \in Nat /\ LastCluster >= 3
  BY VolumeAssumption
<1>2. IsFiniteSet(2..LastCluster) /\ Cardinality(2..LastCluster) = LastCluster - 1
  <2>1. 2 \in Int /\ LastCluster \in Int /\ ~(2 > LastCluster)
    BY <1>1
  <2>2. LastCluster - 2 + 1 = LastCluster - 1
    BY <1>1
  <2> QED BY <2>1, <2>2, FS_Interval
<1>3. Len(q) \in Nat /\ q \in [1..Len(q) -> Clusters]
  BY LenProperties
<1>4. q \in Injection(1..Len(q), Clusters)
  BY <1>3 DEF Injection, IsInjective
<1>5. Cardinality(1..Len(q)) <= Cardinality(Clusters)
  BY <1>2, <1>4, FS_Injection DEF Clusters
<1>6. Cardinality(1..Len(q)) = Len(q)
  <2>1. 1 \in Int /\ Len(q) \in Int
    BY <1>3
  <2>2. Cardinality(1..Len(q)) = IF 1 > Len(q) THEN 0 ELSE Len(q) - 1 + 1
    BY <2>1, FS_Interval
  <2> QED BY <2>2, <1>3
<1> QED BY <1>1, <1>2, <1>3, <1>5, <1>6 DEF Clusters

-----------------------------------------------------------------------------
(* Chains of clusters. *)

(* A sequence that follows the links of a FAT to the mark of the end. *)
Linked(F, q) ==
  \A i \in 1..Len(q) : F[q[i]] = IF i < Len(q) THEN q[i + 1] ELSE LastLink

Distinct(q) == \A i, j \in 1..Len(q) : q[i] = q[j] => i = j

(* What the i-th step of Chain is, from the one before. *)
Walk(f, F, start, i) ==
  IF i = 0 THEN [c |-> start, seq |-> <<>>, done |-> start \notin Clusters]
  ELSE IF f[i - 1].done THEN f[i - 1]
  ELSE [c |-> F[f[i - 1].c], seq |-> Append(f[i - 1].seq, f[i - 1].c),
        done |-> F[f[i - 1].c] \notin Clusters]

(* The recursive function of Chain exists, up to every length. *)
LEMMA WalkExists ==
  ASSUME NEW F, NEW start, NEW n \in Nat
  PROVE  \E f : f = [i \in 0..n |-> Walk(f, F, start, i)]
<1> DEFINE Q(i) == \E f : f = [k \in 0..i |-> Walk(f, F, start, k)]
           I == {i \in 0..n : Q(i)}
<1>1. 0 \in I
  <2> DEFINE g == [k \in 0..0 |-> [c |-> start, seq |-> <<>>, done |-> start \notin Clusters]]
  <2>1. g = [k \in 0..0 |-> Walk(g, F, start, k)]
    BY DEF Walk
  <2>2. Q(0)
    <3> HIDE DEF g
    <3> QED BY <2>1
  <2> QED BY <2>2
<1>2. ASSUME NEW i \in 1..n, i - 1 \in I PROVE i \in I
  <2>1. PICK f : f = [k \in 0..(i - 1) |-> Walk(f, F, start, k)]
    BY <1>2
  <2> DEFINE g == [k \in 0..i |-> IF k = i THEN Walk(f, F, start, i) ELSE f[k]]
  <2>2. ASSUME NEW k \in 0..i PROVE g[k] = Walk(g, F, start, k)
    <3>1. k # 0 => k - 1 \in 0..(i - 1) /\ g[k - 1] = f[k - 1]
      OBVIOUS
    <3>2. k # i => f[k] = Walk(f, F, start, k)
      <4>1. k # i => k \in 0..(i - 1)
        OBVIOUS
      <4> QED BY <4>1, <2>1, SMTT(30)
    <3>3. Walk(f, F, start, k) = Walk(g, F, start, k)
      BY <3>1, Zenon DEF Walk
    <3>4. g[k] = Walk(f, F, start, k)
      BY <3>2
    <3> QED BY <3>3, <3>4
  <2>3. g = [k \in 0..i |-> Walk(g, F, start, k)]
    BY <2>2
  <2>4. Q(i)
    <3> HIDE DEF g
    <3> QED BY <2>3
  <2> QED BY <2>4
<1>3. 0..n \subseteq I
  <2> HIDE DEF I
  <2> QED BY <1>1, <1>2, UpTo
<1> QED BY <1>3

(* Chain is the last of those steps. *)
LEMMA ChainSteps ==
  ASSUME NEW F, NEW start
  PROVE  \E f : /\ f = [i \in 0..LastCluster |-> Walk(f, F, start, i)]
                /\ Chain(F, start) = f[LastCluster].seq
<1> DEFINE f == CHOOSE f : f = [i \in 0..LastCluster |-> Walk(f, F, start, i)]
<1>1. Chain(F, start) = f[LastCluster].seq
  BY DEF Chain, Repeat, Walk
<1>2. f = [i \in 0..LastCluster |-> Walk(f, F, start, i)]
  <2>1. LastCluster \in Nat
    BY VolumeAssumption
  <2> QED BY <2>1, WalkExists
<1> QED BY <1>1, <1>2, Zenon

(* A free start begins no chain. *)
LEMMA NoChain ==
  ASSUME NEW F, NEW start, start \notin Clusters
  PROVE  Chain(F, start) = <<>>
<1>1. PICK f : /\ f = [i \in 0..LastCluster |-> Walk(f, F, start, i)]
               /\ Chain(F, start) = f[LastCluster].seq
  BY ChainSteps
<1> DEFINE I == {i \in 0..LastCluster : f[i] = [c |-> start, seq |-> <<>>, done |-> TRUE]}
<1>2. LastCluster \in Nat
  BY VolumeAssumption
<1>3. 0 \in I
  <2>1. 0 \in 0..LastCluster
    BY <1>2
  <2>2. f[0] = Walk(f, F, start, 0)
    BY <1>1, <2>1, Zenon
  <2> QED BY <2>1, <2>2, Zenon DEF Walk
<1>4. ASSUME NEW i \in 1..LastCluster, i - 1 \in I PROVE i \in I
  <2>1. i \in 0..LastCluster /\ i # 0
    BY <1>2
  <2>2. f[i] = Walk(f, F, start, i)
    BY <1>1, <2>1, Zenon
  <2>3. f[i - 1] = [c |-> start, seq |-> <<>>, done |-> TRUE]
    BY <1>4
  <2> QED BY <2>1, <2>2, <2>3 DEF Walk
<1>5. 0..LastCluster \subseteq I
  <2> HIDE DEF I
  <2> QED BY <1>2, <1>3, <1>4, UpTo
<1> QED BY <1>1, <1>2, <1>5

(* What follows the links to the end does not meet itself. *)
LEMMA LinkedDistinct ==
  ASSUME NEW F, NEW q \in Seq(Clusters), Linked(F, q)
  PROVE  Distinct(q)
<1> DEFINE n == Len(q)
           T == {k \in 0..n : \E i \in 1..n : i < n - k /\ q[i] = q[n - k]}
<1>1. n \in Nat /\ q \in [1..n -> Clusters] /\ LastLink \notin Clusters
  BY LenProperties, VolumeAssumption DEF LastLink, n_fatent, Clusters
<1>a. \A i \in 1..n : F[q[i]] = IF i < n THEN q[i + 1] ELSE LastLink
  BY DEF Linked
<1> HIDE DEF n
<1>2. T = {}
  <2> SUFFICES ASSUME T # {} PROVE FALSE
    OBVIOUS
  <2>1. T \in SUBSET Nat
    BY <1>1
  <2>2. PICK k \in T : \A m \in T : k <= m
    <3> HIDE DEF T
    <3> QED BY <2>1, LeastElement
  <2>3. k \in 0..n
    OBVIOUS
  <2>4. PICK i \in 1..n : i < n - k /\ q[i] = q[n - k]
    OBVIOUS
  <2>5. F[q[i]] = q[i + 1] /\ q[i + 1] \in Clusters
    BY <1>1, <1>a, <2>3, <2>4
  <2>6. k # 0
    <3> SUFFICES ASSUME k = 0 PROVE FALSE
      OBVIOUS
    <3>1. n \in 1..n /\ n - k = n
      BY <1>1, <2>4
    <3>2. F[q[n]] = LastLink
      BY <1>1, <1>a, <3>1
    <3> QED BY <1>1, <2>4, <2>5, <3>1, <3>2
  <2>7. F[q[n - k]] = q[n - k + 1] /\ n - k + 1 = n - (k - 1)
    <3>1. n - k \in 1..n /\ n - k < n
      BY <1>1, <2>3, <2>4, <2>6
    <3> QED BY <1>1, <1>a, <2>3, <3>1
  <2>8. i + 1 \in 1..n /\ i + 1 < n - (k - 1) /\ k - 1 \in 0..n /\ q[i + 1] = q[n - (k - 1)]
    BY <1>1, <2>3, <2>4, <2>5, <2>6, <2>7
  <2>9. k - 1 \in T
    BY <2>8
  <2> QED BY <2>2, <2>3, <2>9
<1>3. ASSUME NEW i \in 1..n, NEW j \in 1..n, i < j, q[i] = q[j] PROVE FALSE
  <2>1. n - j \in 0..n /\ n - (n - j) = j
    BY <1>1
  <2>2. n - j \in T
    BY <1>3, <2>1
  <2> QED BY <1>2, <2>2
<1>4. \A i, j \in 1..n : q[i] = q[j] => i = j
  BY <1>1, <1>3
<1> QED BY <1>4 DEF Distinct, n

(* A sequence of clusters linked to its end is what Chain finds. *)
LEMMA ChainIs ==
  ASSUME NEW F, NEW q \in Seq(Clusters), q # <<>>, Linked(F, q)
  PROVE  Chain(F, q[1]) = q
<1> DEFINE n == Len(q)
<1>1. n \in Nat /\ n >= 1 /\ n < LastCluster /\ LastCluster \in Nat /\ q \in [1..n -> Clusters]
      /\ LastLink \notin Clusters
  <2>1. n \in Nat /\ q \in [1..n -> Clusters] /\ n # 0
    BY LenProperties, EmptySeq
  <2>2. n < LastCluster
    BY LinkedDistinct, ShortEnough DEF Distinct
  <2> QED BY <2>1, <2>2, VolumeAssumption DEF LastLink, n_fatent, Clusters
<1>2. PICK f : /\ f = [i \in 0..LastCluster |-> Walk(f, F, q[1], i)]
               /\ Chain(F, q[1]) = f[LastCluster].seq
  BY ChainSteps
<1>a. \A i \in 1..n : F[q[i]] = IF i < n THEN q[i + 1] ELSE LastLink
  BY DEF Linked
<1>b. \A i \in 1..n : Append(SubSeq(q, 1, i - 1), q[i]) = SubSeq(q, 1, i)
  <2>1. ASSUME NEW i \in 1..n PROVE Append(SubSeq(q, 1, i - 1), q[i]) = SubSeq(q, 1, i)
    BY <1>1
  <2> QED BY <2>1
<1>c. SubSeq(q, 1, 0) = <<>> /\ SubSeq(q, 1, n) = q
  BY <1>1
<1> HIDE DEF n
<1> DEFINE At(i) == IF i < n THEN f[i].c = q[i + 1] /\ ~f[i].done /\ f[i].seq = SubSeq(q, 1, i)
                    ELSE f[i].done /\ f[i].seq = q
           I == {i \in 0..LastCluster : At(i)}
<1>3. 0 \in I
  <2>1. 0 \in 0..LastCluster /\ 0 < n /\ 1 \in 1..n /\ q[1] \in Clusters
    BY <1>1
  <2>2. f[0] = Walk(f, F, q[1], 0)
    BY <1>2, <2>1, Zenon
  <2>4. f[0].c = q[1] /\ f[0].seq = <<>> /\ ~f[0].done
    <3>1. f[0] = [c |-> q[1], seq |-> <<>>, done |-> q[1] \notin Clusters]
      BY <2>2 DEF Walk
    <3>2. f[0].done = (q[1] \notin Clusters)
      BY <3>1
    <3>3. f[0].done <=> q[1] \notin Clusters
      BY <3>2, Zenon
    <3> QED BY <2>1, <3>1, <3>3
  <2>5. f[0].c = q[0 + 1]
    BY <2>4
  <2>6. At(0)
    BY <1>c, <2>1, <2>4, <2>5
  <2> QED BY <2>1, <2>6
<1>4. ASSUME NEW i \in 1..LastCluster, i - 1 \in I PROVE i \in I
  <2>1. i \in 0..LastCluster /\ i # 0 /\ i \in Nat
    BY <1>1
  <2>2. f[i] = Walk(f, F, q[1], i)
    BY <1>2, <2>1, Zenon
  <2>3. At(i - 1)
    BY <1>4
  <2>4. CASE i - 1 < n
    <3>1. f[i - 1].c = q[i] /\ ~f[i - 1].done /\ f[i - 1].seq = SubSeq(q, 1, i - 1)
      BY <2>1, <2>3, <2>4
    <3>2. i \in 1..n
      BY <1>1, <2>1, <2>4
    <3>5. f[i].c = F[q[i]] /\ f[i].seq = SubSeq(q, 1, i) /\ (f[i].done <=> F[q[i]] \notin Clusters)
      <4>1. f[i] = [c |-> F[q[i]], seq |-> Append(SubSeq(q, 1, i - 1), q[i]),
                    done |-> F[q[i]] \notin Clusters]
        BY <2>1, <2>2, <3>1 DEF Walk
      <4>2. f[i].done = (F[q[i]] \notin Clusters)
        BY <4>1
      <4>3. f[i].done <=> F[q[i]] \notin Clusters
        BY <4>2, Zenon
      <4>4. f[i].c = F[q[i]] /\ f[i].seq = SubSeq(q, 1, i)
        BY <1>b, <3>2, <4>1
      <4> QED BY <4>3, <4>4
    <3>6. CASE i < n
      <4>1. i + 1 \in 1..n /\ q[i + 1] \in Clusters /\ F[q[i]] = q[i + 1]
        BY <1>1, <1>a, <2>1, <3>2, <3>6
      <4> QED BY <2>1, <3>5, <3>6, <4>1
    <3>7. CASE ~(i < n)
      <4>1. i = n /\ F[q[i]] = LastLink
        BY <1>1, <1>a, <3>2, <3>7
      <4> QED BY <1>1, <1>c, <2>1, <3>5, <3>7, <4>1
    <3> QED BY <3>6, <3>7
  <2>5. CASE ~(i - 1 < n)
    <3>1. f[i - 1].done /\ f[i - 1].seq = q
      BY <2>3, <2>5
    <3>2. f[i] = f[i - 1] /\ ~(i < n)
      BY <1>1, <2>1, <2>2, <2>5, <3>1 DEF Walk
    <3> QED BY <2>1, <3>1, <3>2
  <2> QED BY <2>4, <2>5
<1>5. 0..LastCluster \subseteq I
  <2> HIDE DEF I
  <2> QED BY <1>1, <1>3, <1>4, UpTo, Zenon
<1>6. LastCluster \in I /\ ~(LastCluster < n)
  BY <1>1, <1>5
<1> QED BY <1>2, <1>6

(* A chain that ends with a mark of the end follows the links from its start. *)
LEMMA ChainGives ==
  ASSUME NEW F \in [Clusters -> Links], NEW start, NEW q, q = Chain(F, start),
         q # <<>>, F[q[Len(q)]] >= n_fatent
  PROVE  q \in Seq(Clusters) /\ q[1] = start /\ Linked(F, q)
<1>1. LastCluster \in Nat /\ LastLink \notin Clusters
  BY VolumeAssumption DEF LastLink, n_fatent, Clusters
<1>2. PICK f : /\ f = [i \in 0..LastCluster |-> Walk(f, F, start, i)]
               /\ q = f[LastCluster].seq
  BY ChainSteps
<1> DEFINE At(c, s, done) ==
             /\ s \in Seq(Clusters)
             /\ \A j \in 1..Len(s) : F[s[j]] = IF j < Len(s) THEN s[j + 1] ELSE c
             /\ start = IF s = <<>> THEN c ELSE s[1]
             /\ done <=> c \notin Clusters
           I == {i \in 0..LastCluster : At(f[i].c, f[i].seq, f[i].done)}
<1>3. 0 \in I
  <2>1. 0 \in 0..LastCluster
    BY <1>1
  <2>2. f[0] = Walk(f, F, start, 0)
    BY <1>2, <2>1, Zenon
  <2>3. f[0].c = start /\ f[0].seq = <<>> /\ (f[0].done <=> start \notin Clusters)
    <3>1. f[0] = [c |-> start, seq |-> <<>>, done |-> start \notin Clusters]
      BY <2>2 DEF Walk
    <3>2. f[0].done = (start \notin Clusters)
      BY <3>1
    <3>3. f[0].done <=> start \notin Clusters
      BY <3>2, Zenon
    <3>4. f[0].c = start /\ f[0].seq = <<>>
      BY <3>1
    <3> QED BY <3>3, <3>4
  <2>4. At(f[0].c, f[0].seq, f[0].done)
    BY <2>3
  <2> QED BY <2>1, <2>4
<1>4. ASSUME NEW i \in 1..LastCluster, i - 1 \in I PROVE i \in I
  <2>1. i \in 0..LastCluster /\ i # 0
    BY <1>1
  <2>2. f[i] = Walk(f, F, start, i)
    BY <1>2, <2>1, Zenon
  <2>3. CASE f[i - 1].done
    BY <1>4, <2>1, <2>2, <2>3 DEF Walk
  <2>4. CASE ~f[i - 1].done
    <3> DEFINE c == f[i - 1].c
               s == f[i - 1].seq
    <3>1. /\ f[i].c = F[c] /\ f[i].seq = Append(s, c)
          /\ f[i].done <=> F[c] \notin Clusters
      <4>1. f[i] = [c |-> F[c], seq |-> Append(s, c), done |-> F[c] \notin Clusters]
        BY <2>1, <2>2, <2>4 DEF Walk
      <4>2. f[i].done = (F[c] \notin Clusters)
        BY <4>1
      <4>3. f[i].done <=> F[c] \notin Clusters
        BY <4>2, Zenon
      <4>4. f[i].c = F[c] /\ f[i].seq = Append(s, c)
        BY <4>1
      <4> QED BY <4>3, <4>4
    <3>2. At(c, s, f[i - 1].done) /\ c \in Clusters
      BY <1>4, <2>4
    <3> HIDE DEF c, s
    <3>3. PICK n \in Nat : n = Len(s)
      BY <3>2, LenProperties
    <3>4. /\ Append(s, c) \in Seq(Clusters) /\ Len(Append(s, c)) = n + 1
          /\ Append(s, c)[n + 1] = c /\ Append(s, c) # <<>>
          /\ \A j \in 1..n : Append(s, c)[j] = s[j]
      BY <3>2, <3>3, AppendProperties
    <3>5. ASSUME NEW j \in 1..(n + 1)
          PROVE  F[Append(s, c)[j]] = IF j < n + 1 THEN Append(s, c)[j + 1] ELSE F[c]
      <4>1. CASE j = n + 1
        BY <3>4, <4>1
      <4>2. CASE j # n + 1
        <5>1. j \in 1..n /\ j < n + 1 /\ (j < n => j + 1 \in 1..n) /\ (~(j < n) => j = n)
          BY <4>2
        <5>2. F[s[j]] = IF j < n THEN s[j + 1] ELSE c
          BY <3>2, <3>3, <5>1
        <5> QED BY <3>4, <5>1, <5>2
      <4> QED BY <4>1, <4>2, Zenon
    <3>6. start = Append(s, c)[1]
      <4>1. CASE s = <<>>
        BY <3>2, <3>4, <4>1
      <4>2. CASE s # <<>>
        <5>1. 1 \in 1..n
          BY <3>2, <3>3, <4>2, EmptySeq
        <5> QED BY <3>2, <3>4, <4>2, <5>1
      <4> QED BY <4>1, <4>2
    <3>7. At(f[i].c, f[i].seq, f[i].done)
      BY <3>1, <3>4, <3>5, <3>6
    <3> QED BY <2>1, <3>7
  <2> QED BY <2>3, <2>4
<1>5. 0..LastCluster \subseteq I
  <2> HIDE DEF I
  <2> QED BY <1>1, <1>3, <1>4, UpTo, Zenon
<1>6. LastCluster \in I
  BY <1>1, <1>5
<1> DEFINE c == f[LastCluster].c
<1>7. /\ q \in Seq(Clusters) /\ start = q[1]
      /\ \A j \in 1..Len(q) : F[q[j]] = IF j < Len(q) THEN q[j + 1] ELSE c
  BY <1>2, <1>6
<1>8. PICK n \in Nat : n = Len(q) /\ n \in 1..n
  BY <1>7, LenProperties, EmptySeq
<1>9. F[q[n]] = c /\ q[n] \in Clusters
  <2>1. q \in [1..n -> Clusters]
    BY <1>7, <1>8, LenProperties, Zenon
  <2> QED BY <1>7, <1>8, <2>1
<1>10. c = LastLink
  BY <1>1, <1>8, <1>9, VolumeAssumption DEF Links, Clusters, n_fatent
<1> QED BY <1>7, <1>10 DEF Linked

-----------------------------------------------------------------------------
(* Where the clusters, the links and the entries of a card are. *)

LEMMA DivMono ==
  ASSUME NEW a \in Nat, NEW b \in Nat, NEW m \in Nat \ {0}, a <= b
  PROVE  a \div m \in Nat /\ a \div m <= b \div m
<1>1. PICK q \in Nat : q = a \div m
  OBVIOUS
<1>2. PICK r \in Nat : r = b \div m
  OBVIOUS
<1>3. m * q <= a /\ b < m * r + m
  BY <1>1, <1>2
<1>4. m * q < m * (r + 1)
  BY <1>3
<1>5. q < r + 1
  BY <1>4
<1> QED BY <1>1, <1>2, <1>5

(* The FAT, FSInfo and the clusters are in different sectors. *)
LEMMA Sectors ==
  /\ dirbase \in Clusters /\ LastCluster \in Clusters /\ LastLink \notin Clusters /\ 0 \notin Clusters
  /\ InfoSector \in Nat /\ 1 \in 1..(InfoSector - 1) /\ clust2sect(LastCluster) \in Nat
  /\ InfoSector \in 1..clust2sect(LastCluster)
  /\ \A c \in Clusters :
       /\ FatSector(c) \in 1..(InfoSector - 1)
       /\ clust2sect(c) \in (InfoSector + 1)..clust2sect(LastCluster)
  /\ \A c, d \in Clusters : clust2sect(c) = clust2sect(d) => c = d
<1>1. LastCluster \in Nat /\ LastCluster >= 3 /\ FatEntries \in Nat \ {0} /\ Clusters = 2..LastCluster
  BY VolumeAssumption DEF Clusters
<1>2. dirbase \in Clusters /\ LastCluster \in Clusters /\ LastLink \notin Clusters /\ 0 \notin Clusters
  BY <1>1 DEF dirbase, LastLink, n_fatent
<1>3. PICK q \in Nat : q = LastCluster \div FatEntries
  BY <1>1, DivMono, SMTT(30)
<1>4. InfoSector = q + 2
  BY <1>1, <1>3 DEF InfoSector, FatSector
<1>5. \A c \in Clusters : c \div FatEntries \in 0..q
  <2>1. ASSUME NEW c \in Clusters PROVE c \div FatEntries \in 0..q
    <3>1. c \in Nat /\ c <= LastCluster
      BY <1>1
    <3>2. c \div FatEntries \in Nat /\ c \div FatEntries <= q
      BY <1>1, <1>3, <3>1, DivMono
    <3> QED BY <3>2
  <2> QED BY <2>1
<1>6. \A c \in Clusters : FatSector(c) \in 1..(q + 1)
  BY <1>1, <1>5, SMTT(30) DEF FatSector
<1>7. \A c \in Clusters : clust2sect(c) = q + 2 + c - 1
  BY <1>4 DEF clust2sect
<1> QED BY <1>1, <1>2, <1>4, <1>6, <1>7, SMTT(30)

(* A card is a function of its sectors, and stays one. *)
IsCard(card) == card = [s \in 1..clust2sect(LastCluster) |-> card[s]]

LEMMA CardSet ==
  ASSUME NEW card, IsCard(card), NEW s, NEW y
  PROVE  /\ IsCard([card EXCEPT ![s] = y])
         /\ s \in DOMAIN card /\ y = card[s] => [card EXCEPT ![s] = y] = card
<1>1. card = [t \in 1..clust2sect(LastCluster) |-> card[t]]
  BY DEF IsCard
<1>2. [card EXCEPT ![s] = y] = [t \in 1..clust2sect(LastCluster) |-> IF t = s THEN y ELSE card[t]]
  BY <1>1, Zenon
<1>3. IsCard([card EXCEPT ![s] = y])
  BY <1>2, Zenon DEF IsCard
<1> QED BY <1>1, <1>2, <1>3, Zenon

EntryOf(card, c, i) == card[clust2sect(c)].table[i]

(* What an entry can be. *)
LEMMA EntryFacts ==
  ASSUME NEW e \in Entries
  PROVE  /\ IsBlank(e) <=> e \in {Blank, Deleted}
         /\ e.start \in {0} \cup Clusters /\ e.size \in Nat
         /\ IsBlank(e) => e.start = 0 /\ e.size = 0
         /\ IsBlank(e) \/ e.name \in Names
         /\ e.name \in Names => ~IsBlank(e)
<1>1. CASE e \in {Blank, Deleted}
  BY <1>1, NamesAssumption DEF Blank, Deleted, IsBlank
<1>2. CASE e \in [name : Names, start : {0} \cup Clusters, size : Nat]
  <2>1. e.name \in Names /\ e.start \in {0} \cup Clusters /\ e.size \in Nat
    BY <1>2
  <2>2. e.name # "blank" /\ e.name # "deleted"
    BY <2>1, NamesAssumption
  <2> QED BY <2>1, <2>2 DEF Blank, Deleted, IsBlank
<1> QED BY <1>1, <1>2 DEF Entries

LEMMA WellTypedFacts ==
  ASSUME NEW card, WellTyped(card)
  PROVE  /\ DOMAIN card = 1..clust2sect(LastCluster) /\ IsCard(card)
         /\ FatOf(card) \in [Clusters -> Links]
         /\ \A c \in Clusters : IsTable(card, c) =>
              /\ card[clust2sect(c)].table \in [1..TableEntries -> Entries]
              /\ \A i \in 1..TableEntries : EntryOf(card, c, i) \in Entries
         /\ \A c \in Clusters : ~IsTable(card, c) => "data" \in DOMAIN card[clust2sect(c)]
<1>1. \A c \in Clusters : card[FatSector(c)][c] \in Links
  BY Zenon DEF WellTyped
<1>2. FatOf(card) \in [Clusters -> Links]
  BY <1>1 DEF FatOf
<1> QED BY <1>2, Zenon DEF WellTyped, EntryOf, IsCard

-----------------------------------------------------------------------------
(* The layout of a card: ch gives the clusters of each file, and of the    *)
(* directory under "none".  It says what is meant, where the chains that   *)
(* start at the entries only say what can be read from the card.           *)

Layouts == [Names \cup {"none"} -> Seq(Clusters)]
Apart(ch) ==
  \A n, m \in Names \cup {"none"} : \A i \in 1..Len(ch[n]), j \in 1..Len(ch[m]) :
    ch[n][i] = ch[m][j] => n = m /\ i = j

Owned(ch, c) == \E n \in Names \cup {"none"} : \E i \in 1..Len(ch[n]) : ch[n][i] = c

Shape(F, ch) ==
  /\ ch \in Layouts
  /\ \A n \in Names \cup {"none"} : Linked(F, ch[n])
  /\ Apart(ch)
  /\ ch["none"] # <<>> /\ ch["none"][1] = dirbase

(* An entry says where its file starts, and not more than there is.  A     *)
(* file that has clusters the entry does not know of yet may have none in  *)
(* it.  Entries of names in x are out of date.                             *)
Fits(e, ch) ==
  /\ e.start # 0 => ch[e.name] # <<>> /\ ch[e.name][1] = e.start
  /\ e.size <= IF e.start = 0 THEN 0 ELSE Len(ch[e.name]) * SectorPieces

Match(card, ch, x) ==
  \A k \in 1..Len(ch["none"]), i \in 1..TableEntries :
    LET e == EntryOf(card, ch["none"][k], i)
    IN e.name \in Names /\ e.name \notin x => Fits(e, ch)

Tree(card, ch, x) ==
  /\ WellTyped(card)
  /\ Shape(FatOf(card), ch)
  /\ Orderly(card, ch["none"])
  /\ Match(card, ch, x)

(* Orderly with the ranges spelled out. *)
InOrder(card, d) ==
  /\ \A c \in Clusters : IsTable(card, c) <=> \E k \in 1..Len(d) : d[k] = c
  /\ \A k, l \in 1..Len(d) : \A i, j \in 1..TableEntries :
       /\ EntryOf(card, d[k], i).name = EntryOf(card, d[l], j).name /\ ~IsBlank(EntryOf(card, d[k], i))
            => k = l /\ i = j
       /\ EntryOf(card, d[k], i) = Blank /\ (k < l \/ (k = l /\ i < j)) => EntryOf(card, d[l], j) = Blank

LEMMA OrderlyIs ==
  ASSUME NEW card, NEW d \in Seq(Clusters)
  PROVE  Orderly(card, d) <=> InOrder(card, d)
<1>1. DOMAIN d = 1..Len(d)
  BY LenProperties
<1> QED BY <1>1 DEF Orderly, InOrder, EntryOf

(* The parts of a layout. *)
LEMMA LayoutFacts ==
  ASSUME NEW ch \in Layouts
  PROVE  \A n \in Names \cup {"none"} :
           /\ ch[n] \in Seq(Clusters) /\ Len(ch[n]) \in Nat
           /\ \A i \in 1..Len(ch[n]) : ch[n][i] \in Clusters
           /\ ch[n] # <<>> => 1 \in 1..Len(ch[n]) /\ Len(ch[n]) \in 1..Len(ch[n])
<1> SUFFICES ASSUME NEW n \in Names \cup {"none"}
             PROVE  /\ ch[n] \in Seq(Clusters) /\ Len(ch[n]) \in Nat
                    /\ \A i \in 1..Len(ch[n]) : ch[n][i] \in Clusters
                    /\ ch[n] # <<>> => 1 \in 1..Len(ch[n]) /\ Len(ch[n]) \in 1..Len(ch[n])
  OBVIOUS
<1>1. ch[n] \in Seq(Clusters)
  BY DEF Layouts
<1>2. Len(ch[n]) \in Nat /\ ch[n] \in [1..Len(ch[n]) -> Clusters]
  BY <1>1, LenProperties
<1>3. ch[n] # <<>> => Len(ch[n]) # 0
  BY <1>1, EmptySeq
<1> QED BY <1>1, <1>2, <1>3

(* What a layout says of the directory. *)
LEMMA TreeFacts ==
  ASSUME NEW card, NEW ch, NEW x, Tree(card, ch, x)
  PROVE  /\ InOrder(card, ch["none"])
         /\ ch["none"] \in Seq(Clusters) /\ Len(ch["none"]) \in Nat /\ 1 \in 1..Len(ch["none"])
         /\ \A k \in 1..Len(ch["none"]) :
              /\ ch["none"][k] \in Clusters /\ IsTable(card, ch["none"][k])
              /\ \A i \in 1..TableEntries : EntryOf(card, ch["none"][k], i) \in Entries
         /\ Chain(FatOf(card), dirbase) = ch["none"]
<1>1. ch \in Layouts /\ "none" \in Names \cup {"none"} /\ ch["none"] # <<>>
  BY DEF Tree, Shape
<1>2. ch["none"] \in Seq(Clusters) /\ Len(ch["none"]) \in Nat /\ 1 \in 1..Len(ch["none"])
  BY <1>1, LayoutFacts
<1>3. InOrder(card, ch["none"])
  BY <1>2, OrderlyIs DEF Tree
<1>4. \A k \in 1..Len(ch["none"]) :
        /\ ch["none"][k] \in Clusters /\ IsTable(card, ch["none"][k])
        /\ \A i \in 1..TableEntries : EntryOf(card, ch["none"][k], i) \in Entries
  <2>1. \A k \in 1..Len(ch["none"]) : ch["none"][k] \in Clusters
    BY <1>1, LayoutFacts
  <2>2. \A k \in 1..Len(ch["none"]) : IsTable(card, ch["none"][k])
    BY <1>3, <2>1 DEF InOrder
  <2> QED BY <2>1, <2>2, WellTypedFacts DEF Tree
<1>5. Chain(FatOf(card), dirbase) = ch["none"]
  <2>1. Linked(FatOf(card), ch["none"]) /\ ch["none"][1] = dirbase
    BY <1>1 DEF Tree, Shape
  <2> QED BY <1>1, <1>2, <2>1, ChainIs
<1> QED BY <1>2, <1>3, <1>4, <1>5

(* The entries another computer would find. *)
LEMMA EntriesAre ==
  ASSUME NEW card, NEW d, d = Chain(FatOf(card), dirbase), d \in Seq(Clusters),
         \A k \in 1..Len(d) : IsTable(card, d[k])
  PROVE  \A e : e \in EntriesOf(card) <=>
           /\ \E k \in 1..Len(d), i \in 1..TableEntries : e = EntryOf(card, d[k], i)
           /\ ~IsBlank(e)
<1>1. DOMAIN d = 1..Len(d)
  BY LenProperties
<1>2. {i \in DOMAIN d : "table" \in DOMAIN card[clust2sect(d[i])]} = 1..Len(d)
  BY <1>1 DEF IsTable
<1>3. EntriesOf(card) =
        {e \in {card[clust2sect(d[i])].table[j] : i \in 1..Len(d), j \in 1..TableEntries} : ~IsBlank(e)}
  BY <1>2 DEF EntriesOf
<1> QED BY <1>3 DEF EntryOf

-----------------------------------------------------------------------------
(* Layouts, and what can be read from a card. *)

(* The chain of an entry that fits is the one of its layout. *)
LEMMA FitsChain ==
  ASSUME NEW F \in [Clusters -> Links], NEW ch, Shape(F, ch), NEW e, e.name \in Names, Fits(e, ch),
         e.start \in {0} \cup Clusters
  PROVE  /\ e.start # 0 => Chain(F, e.start) = ch[e.name] /\ ch[e.name] # <<>>
         /\ e.start = 0 => Chain(F, e.start) = <<>>
<1>1. 0 \notin Clusters
  BY Sectors
<1>2. CASE e.start = 0
  BY <1>1, <1>2, NoChain
<1>3. CASE e.start # 0
  <2>1. ch[e.name] # <<>> /\ ch[e.name][1] = e.start
    BY <1>3 DEF Fits
  <2>2. ch[e.name] \in Seq(Clusters) /\ Linked(F, ch[e.name])
    BY LayoutFacts DEF Shape
  <2> QED BY <1>3, <2>1, <2>2, ChainIs
<1> QED BY <1>2, <1>3

(* A chain of the layout ends. *)
LEMMA ChainEnds ==
  ASSUME NEW F, NEW ch, Shape(F, ch), NEW n \in Names \cup {"none"}, ch[n] # <<>>
  PROVE  F[ch[n][Len(ch[n])]] = LastLink /\ LastLink >= n_fatent
<1>1. Len(ch[n]) \in 1..Len(ch[n]) /\ Len(ch[n]) \in Nat
  BY LayoutFacts DEF Shape
<1>2. Linked(F, ch[n])
  BY DEF Shape
<1>3. F[ch[n][Len(ch[n])]] = LastLink
  BY <1>1, <1>2 DEF Linked
<1> QED BY <1>3, VolumeAssumption DEF LastLink, n_fatent

(* The clusters of a file hold data. *)
LEMMA FilesHoldData ==
  ASSUME NEW card, NEW ch, NEW x, Tree(card, ch, x), NEW n \in Names, NEW i \in 1..Len(ch[n])
  PROVE  ch[n][i] \in Clusters /\ ~IsTable(card, ch[n][i]) /\ "data" \in DOMAIN card[clust2sect(ch[n][i])]
<1>1. ch \in Layouts /\ Apart(ch) /\ n # "none" /\ WellTyped(card)
  BY NamesAssumption DEF Tree, Shape
<1>2. ch[n][i] \in Clusters
  BY <1>1, LayoutFacts
<1>3. ~IsTable(card, ch[n][i])
  <2> SUFFICES ASSUME IsTable(card, ch[n][i]) PROVE FALSE
    OBVIOUS
  <2>1. PICK k \in 1..Len(ch["none"]) : ch["none"][k] = ch[n][i]
    BY <1>2, TreeFacts DEF InOrder
  <2> QED BY <1>1, <2>1 DEF Apart
<1> QED BY <1>1, <1>2, <1>3, WellTypedFacts

(* With no entry out of date, what is read from a card with a layout is   *)
(* sound: no cluster in two files, no entry that says more than its chain *)
(* holds.                                                                 *)
LEMMA TreeSound ==
  ASSUME NEW card, NEW ch, Tree(card, ch, {})
  PROVE  Sound(card)
<1> DEFINE F == FatOf(card)
           d == ch["none"]
           Own(s) == {Chain(F, s)[i] : i \in DOMAIN Chain(F, s)}
<1>1. /\ ch \in Layouts /\ Apart(ch) /\ Shape(F, ch) /\ F \in [Clusters -> Links]
      /\ "none" \in Names \cup {"none"} /\ "none" \notin Names /\ WellTyped(card)
  BY WellTypedFacts, NamesAssumption DEF Tree, Shape
<1>2. /\ d \in Seq(Clusters) /\ 1 \in 1..Len(d) /\ Chain(F, dirbase) = d /\ InOrder(card, d)
      /\ \A k \in 1..Len(d) :
           /\ d[k] \in Clusters /\ IsTable(card, d[k])
           /\ \A i \in 1..TableEntries : EntryOf(card, d[k], i) \in Entries
  BY TreeFacts
<1>3. DOMAIN d = 1..Len(d) /\ d # <<>>
  BY <1>2, LenProperties
<1>4. SoundChain(F, dirbase, "table", card)
  <2>1. F[d[Len(d)]] >= n_fatent
    BY <1>1, <1>3, ChainEnds
  <2> QED BY <1>2, <1>3, <2>1 DEF SoundChain, IsTable
<1>5. \A e : e \in EntriesOf(card) <=>
           /\ \E k \in 1..Len(d), i \in 1..TableEntries : e = EntryOf(card, d[k], i)
           /\ ~IsBlank(e)
  BY <1>2, EntriesAre
<1>6. ASSUME NEW e \in EntriesOf(card)
      PROVE  /\ e.name \in Names /\ Fits(e, ch) /\ e.start \in {0} \cup Clusters /\ e.size \in Nat
             /\ e.start # 0 => Chain(F, e.start) = ch[e.name] /\ ch[e.name] # <<>>
             /\ e.start = 0 => Chain(F, e.start) = <<>>
  <2>1. PICK k \in 1..Len(d), i \in 1..TableEntries : e = EntryOf(card, d[k], i)
    BY <1>5
  <2>2. ~IsBlank(e) /\ e \in Entries
    BY <1>2, <1>5, <2>1
  <2>3. e.name \in Names /\ e.start \in {0} \cup Clusters /\ e.size \in Nat
    BY <2>2, EntryFacts
  <2>4. Fits(e, ch)
    BY <2>1, <2>3 DEF Tree, Match
  <2> QED BY <1>1, <2>3, <2>4, FitsChain
<1>7. ASSUME NEW e \in EntriesOf(card)
      PROVE  \A c \in Own(e.start) : \E i \in 1..Len(ch[e.name]) : ch[e.name][i] = c
  <2>1. CASE e.start = 0
    BY <1>6, <2>1
  <2>2. CASE e.start # 0
    <3>1. Chain(F, e.start) = ch[e.name] /\ ch[e.name] \in Seq(Clusters)
      BY <1>1, <1>6, <2>2, LayoutFacts
    <3> QED BY <3>1, LenProperties
  <2> QED BY <2>1, <2>2, Zenon
<1>8. ASSUME NEW e \in EntriesOf(card) PROVE e.start # 0 => SoundChain(F, e.start, "data", card)
  <2> SUFFICES ASSUME e.start # 0 PROVE SoundChain(F, e.start, "data", card)
    OBVIOUS
  <2>1. Chain(F, e.start) = ch[e.name] /\ ch[e.name] # <<>> /\ e.name \in Names /\ ch[e.name] \in Seq(Clusters)
    BY <1>1, <1>6, LayoutFacts
  <2>2. F[ch[e.name][Len(ch[e.name])]] >= n_fatent
    BY <1>1, <2>1, ChainEnds
  <2>3. DOMAIN ch[e.name] = 1..Len(ch[e.name])
    BY <2>1, LenProperties
  <2>4. \A i \in 1..Len(ch[e.name]) : "data" \in DOMAIN card[clust2sect(ch[e.name][i])]
    BY <2>1, FilesHoldData
  <2> QED BY <2>1, <2>2, <2>3, <2>4 DEF SoundChain
<1>9. ASSUME NEW e \in EntriesOf(card) PROVE Len(Chain(F, e.start)) * SectorPieces >= e.size
  <2>1. CASE e.start = 0
    <3>1. Len(Chain(F, e.start)) = 0 /\ e.size <= 0 /\ e.size \in Nat
      BY <1>6, <2>1 DEF Fits
    <3> QED BY <3>1, VolumeAssumption
  <2>2. CASE e.start # 0
    <3>1. e.size <= Len(Chain(F, e.start)) * SectorPieces
      BY <1>6, <2>2 DEF Fits
    <3>2. Len(Chain(F, e.start)) \in Nat /\ e.size \in Nat /\ SectorPieces \in Nat
      BY <1>1, <1>6, <2>2, LayoutFacts, VolumeAssumption
    <3> QED BY <3>1, <3>2
  <2> QED BY <2>1, <2>2
<1>10. ASSUME NEW e \in EntriesOf(card) PROVE Own(e.start) \cap Own(dirbase) = {}
  <2> SUFFICES ASSUME NEW c \in Own(e.start), c \in Own(dirbase) PROVE FALSE
    OBVIOUS
  <2>1. PICK i \in 1..Len(ch[e.name]) : ch[e.name][i] = c
    BY <1>7, Zenon
  <2>2. PICK k \in 1..Len(d) : d[k] = c
    BY <1>2, <1>3
  <2>3. e.name \in Names
    BY <1>6
  <2> QED BY <1>1, <2>1, <2>2, <2>3 DEF Apart
<1>11. ASSUME NEW e \in EntriesOf(card), NEW f \in EntriesOf(card) \ {e}
       PROVE  Own(e.start) \cap Own(f.start) = {}
  <2> SUFFICES ASSUME NEW c \in Own(e.start), c \in Own(f.start) PROVE FALSE
    OBVIOUS
  <2>1. PICK i \in 1..Len(ch[e.name]) : ch[e.name][i] = c
    BY <1>7, Zenon
  <2>2. PICK j \in 1..Len(ch[f.name]) : ch[f.name][j] = c
    BY <1>7, Zenon
  <2>3. e.name = f.name
    BY <1>1, <1>6, <2>1, <2>2 DEF Apart
  <2>4. PICK k \in 1..Len(d), m \in 1..TableEntries : e = EntryOf(card, d[k], m) /\ ~IsBlank(e)
    BY <1>5, Zenon
  <2>5. PICK l \in 1..Len(d), o \in 1..TableEntries : f = EntryOf(card, d[l], o)
    BY <1>5
  <2>6. k = l /\ m = o
    BY <1>2, <2>3, <2>4, <2>5 DEF InOrder
  <2> QED BY <2>4, <2>5, <2>6
<1> QED BY <1>4, <1>8, <1>9, <1>10, <1>11, Zenon DEF Sound

(* With any, it is at least orderly. *)
LEMMA TreeOrderly ==
  ASSUME NEW card, NEW ch, NEW x, Tree(card, ch, x), Sound(card)
  PROVE  Formatted(card)
BY TreeFacts DEF Tree, Formatted

(* An orderly card has a layout: what f_mount and chk_mounted may rely on. *)
LEMMA FormattedTree ==
  ASSUME NEW card, Formatted(card)
  PROVE  \E ch : Tree(card, ch, {})
<1> DEFINE F == FatOf(card)
           d == Chain(F, dirbase)
           E == EntriesOf(card)
           First(n) == IF n = "none" THEN dirbase
                       ELSE IF \E e \in E : e.name = n THEN (CHOOSE e \in E : e.name = n).start ELSE 0
           ch == [n \in Names \cup {"none"} |-> Chain(F, First(n))]
           Own(s) == {Chain(F, s)[i] : i \in DOMAIN Chain(F, s)}
<1>1. WellTyped(card) /\ Sound(card) /\ Orderly(card, d) /\ F \in [Clusters -> Links] /\ "none" \notin Names
  BY WellTypedFacts, NamesAssumption DEF Formatted
<1>2. d \in Seq(Clusters) /\ d[1] = dirbase /\ Linked(F, d) /\ d # <<>>
  <2>1. SoundChain(F, dirbase, "table", card)
    BY <1>1 DEF Sound
  <2>2. d # <<>> /\ F[d[Len(d)]] >= n_fatent
    BY <2>1 DEF SoundChain
  <2> HIDE DEF F
  <2> QED BY <1>1, <2>2, ChainGives
<1>3. /\ InOrder(card, d)
      /\ \A k \in 1..Len(d) : d[k] \in Clusters /\ IsTable(card, d[k])
      /\ \A k \in 1..Len(d) : \A i \in 1..TableEntries : EntryOf(card, d[k], i) \in Entries
  <2>1. InOrder(card, d)
    BY <1>1, <1>2, OrderlyIs
  <2>2. \A k \in 1..Len(d) : d[k] \in Clusters
    BY <1>2, LenProperties
  <2>3. \A k \in 1..Len(d) : IsTable(card, d[k])
    BY <2>1, <2>2 DEF InOrder
  <2> QED BY <1>1, <2>1, <2>2, <2>3, WellTypedFacts
<1>4. \A e : e \in E <=>
           /\ \E k \in 1..Len(d), i \in 1..TableEntries : e = EntryOf(card, d[k], i)
           /\ ~IsBlank(e)
  BY <1>2, <1>3, EntriesAre
<1>5. ASSUME NEW e \in E
      PROVE  e.name \in Names /\ e.start \in {0} \cup Clusters /\ e.size \in Nat
  <2>1. ~IsBlank(e) /\ e \in Entries
    BY <1>3, <1>4
  <2> QED BY <2>1, EntryFacts
<1>6. ASSUME NEW e \in E, NEW f \in E, e.name = f.name PROVE e = f
  <2>4. PICK k \in 1..Len(d), m \in 1..TableEntries : e = EntryOf(card, d[k], m) /\ ~IsBlank(e)
    BY <1>4
  <2>5. PICK l \in 1..Len(d), o \in 1..TableEntries : f = EntryOf(card, d[l], o)
    BY <1>4
  <2>6. k = l /\ m = o
    BY <1>3, <1>6, <2>4, <2>5 DEF InOrder
  <2> QED BY <2>4, <2>5, <2>6
<1>7. ASSUME NEW e \in E PROVE First(e.name) = e.start
  <2>1. e.name # "none"
    BY <1>1, <1>5
  <2>2. (CHOOSE f \in E : f.name = e.name) = e
    BY <1>6
  <2> QED BY <2>1, <2>2, Zenon
<1>8. ASSUME NEW n \in Names
      PROVE  \/ First(n) = 0
             \/ \E e \in E : e.name = n /\ First(n) = e.start /\ e.start # 0
  BY <1>1, Zenon
<1>9. \A n \in Names \cup {"none"} : ch[n] = Chain(F, First(n))
  OBVIOUS
<1>a. First("none") = dirbase
  OBVIOUS
<1> HIDE DEF ch, First
<1>10. ASSUME NEW n \in Names \cup {"none"}
       PROVE  ch[n] \in Seq(Clusters) /\ Linked(F, ch[n])
  <2>1. CASE n = "none"
    BY <1>2, <1>9, <1>a, <2>1
  <2>2. CASE n # "none" /\ First(n) = 0
    <3>1. 0 \notin Clusters
      BY Sectors
    <3>2. ch[n] = <<>>
      BY <1>9, <2>2, <3>1, NoChain
    <3> QED BY <3>2 DEF Linked
  <2>3. CASE n # "none" /\ First(n) # 0
    <3>1. PICK e \in E : e.name = n /\ First(n) = e.start /\ e.start # 0
      BY <1>8, <2>3
    <3>2. SoundChain(F, e.start, "data", card)
      BY <1>1, <3>1 DEF Sound
    <3>3. ch[n] # <<>> /\ F[ch[n][Len(ch[n])]] >= n_fatent /\ ch[n] = Chain(F, e.start)
      BY <1>9, <3>1, <3>2 DEF SoundChain
    <3> HIDE DEF F
    <3> QED BY <1>1, <3>3, ChainGives
  <2> QED BY <2>1, <2>2, <2>3
<1>11. ch \in Layouts
  BY <1>10, Zenon DEF Layouts, ch
<1>12. ASSUME NEW n \in Names \cup {"none"}, NEW i \in 1..Len(ch[n]) PROVE ch[n][i] \in Own(First(n))
  BY <1>9, <1>10, LenProperties
<1>13. ASSUME NEW n \in Names, ch[n] # <<>> PROVE \E e \in E : e.name = n /\ First(n) = e.start
  <2>1. First(n) # 0
    <3> SUFFICES ASSUME First(n) = 0 PROVE ch[n] = <<>>
      BY <1>13
    <3>1. 0 \notin Clusters
      BY Sectors
    <3> QED BY <1>9, <3>1, NoChain
  <2> QED BY <1>8, <2>1
<1>14. Apart(ch)
  <2> SUFFICES ASSUME NEW n \in Names \cup {"none"}, NEW m \in Names \cup {"none"},
                      NEW i \in 1..Len(ch[n]), NEW j \in 1..Len(ch[m]), ch[n][i] = ch[m][j]
               PROVE  n = m /\ i = j
    BY DEF Apart
  <2>1. ch[n][i] \in Own(First(n)) /\ ch[n][i] \in Own(First(m)) /\ ch[n] # <<>> /\ ch[m] # <<>>
    BY <1>12
  <2>2. CASE n = m
    BY <1>10, <2>2, LinkedDistinct DEF Distinct
  <2>3. CASE n # m /\ n # "none" /\ m # "none"
    <3>1. PICK e \in E : e.name = n /\ First(n) = e.start
      BY <1>13, <2>1, <2>3
    <3>2. PICK f \in E : f.name = m /\ First(m) = f.start
      BY <1>13, <2>1, <2>3
    <3>3. f \in E \ {e}
      BY <2>3, <3>1, <3>2
    <3>4. Own(e.start) \cap Own(f.start) = {}
      BY <1>1, <3>3, Zenon DEF Sound
    <3> QED BY <2>1, <3>1, <3>2, <3>4, SMTT(30)
  <2>4. CASE n # m /\ m = "none"
    <3>1. PICK e \in E : e.name = n /\ First(n) = e.start
      BY <1>13, <2>1, <2>4, Zenon
    <3>2. Own(e.start) \cap Own(dirbase) = {}
      BY <1>1, Zenon DEF Sound
    <3> QED BY <1>a, <2>1, <2>4, <3>1, <3>2
  <2>5. CASE n # m /\ n = "none"
    <3>1. PICK e \in E : e.name = m /\ First(m) = e.start
      BY <1>13, <2>1, <2>5
    <3>2. Own(e.start) \cap Own(dirbase) = {}
      BY <1>1, Zenon DEF Sound
    <3> QED BY <1>a, <2>1, <2>5, <3>1, <3>2, ZenonT(60)
  <2> QED BY <2>2, <2>3, <2>4, <2>5
<1>15. ch["none"] = d
  BY <1>9, <1>a
<1>16. Match(card, ch, {})
  <2> SUFFICES ASSUME NEW k \in 1..Len(d), NEW i \in 1..TableEntries, NEW e,
                      e = EntryOf(card, d[k], i), e.name \in Names
               PROVE  Fits(e, ch)
    BY <1>15 DEF Match
  <2>1. e \in Entries /\ ~IsBlank(e)
    BY <1>3, EntryFacts
  <2>2. e \in E
    BY <1>4, <2>1
  <2>3. ch[e.name] = Chain(F, e.start) /\ e.size \in Nat /\ e.start \in {0} \cup Clusters
    BY <1>5, <1>7, <1>9, <2>2
  <2>4. e.size <= Len(ch[e.name]) * SectorPieces
    <3>1. Len(Chain(F, e.start)) * SectorPieces >= e.size
      BY <1>1, <2>2 DEF Sound
    <3>2. Len(ch[e.name]) \in Nat /\ SectorPieces \in Nat
      BY <1>11, LayoutFacts, VolumeAssumption
    <3> QED BY <2>3, <3>1, <3>2
  <2>5. CASE e.start = 0
    <3>1. 0 \notin Clusters
      BY Sectors
    <3>2. ch[e.name] = <<>>
      BY <2>3, <2>5, <3>1, NoChain
    <3>3. Len(ch[e.name]) = 0
      BY <3>2
    <3>4. e.size <= 0
      BY <2>4, <3>3, VolumeAssumption
    <3> QED BY <2>5, <3>4 DEF Fits
  <2>6. CASE e.start # 0
    <3>1. SoundChain(F, e.start, "data", card)
      BY <1>1, <2>2, <2>6 DEF Sound
    <3>2. ch[e.name] # <<>> /\ F[ch[e.name][Len(ch[e.name])]] >= n_fatent
      BY <2>3, <3>1 DEF SoundChain
    <3>3. ch[e.name][1] = e.start
      <4> HIDE DEF F
      <4> QED BY <1>1, <2>3, <3>2, ChainGives
    <3> QED BY <2>4, <2>6, <3>2, <3>3 DEF Fits
  <2> QED BY <2>5, <2>6
<1>17. Shape(F, ch)
  BY <1>2, <1>10, <1>11, <1>14, <1>15 DEF Shape
<1>18. Tree(card, ch, {})
  BY <1>1, <1>15, <1>16, <1>17 DEF Tree
<1> QED BY <1>18

-----------------------------------------------------------------------------
(* Cards that differ in data, in a link, in an entry. *)

(* The same tables in the same clusters. *)
Alike(card, card2) ==
  \A c \in Clusters : /\ IsTable(card2, c) <=> IsTable(card, c)
                      /\ IsTable(card, c) => card2[clust2sect(c)] = card[clust2sect(c)]

LEMMA AlikeOrderly ==
  ASSUME NEW card, NEW card2, Alike(card, card2), NEW d \in Seq(Clusters), InOrder(card, d)
  PROVE  /\ InOrder(card2, d)
         /\ \A k \in 1..Len(d) : \A i \in 1..TableEntries :
              EntryOf(card2, d[k], i) = EntryOf(card, d[k], i)
<1>1. \A k \in 1..Len(d) : d[k] \in Clusters
  BY LenProperties
<1>2. \A k \in 1..Len(d) : IsTable(card, d[k])
  BY <1>1 DEF InOrder
<1>3. \A k \in 1..Len(d) : \A i \in 1..TableEntries : EntryOf(card2, d[k], i) = EntryOf(card, d[k], i)
  BY <1>1, <1>2 DEF Alike, EntryOf
<1>4. \A c \in Clusters : IsTable(card2, c) <=> \E k \in 1..Len(d) : d[k] = c
  BY DEF Alike, InOrder
<1>5. ASSUME NEW k \in 1..Len(d), NEW l \in 1..Len(d), NEW i \in 1..TableEntries, NEW j \in 1..TableEntries
      PROVE /\ EntryOf(card2, d[k], i).name = EntryOf(card2, d[l], j).name /\ ~IsBlank(EntryOf(card2, d[k], i))
                 => k = l /\ i = j
            /\ EntryOf(card2, d[k], i) = Blank /\ (k < l \/ (k = l /\ i < j)) => EntryOf(card2, d[l], j) = Blank
  <2>1. EntryOf(card2, d[k], i) = EntryOf(card, d[k], i) /\ EntryOf(card2, d[l], j) = EntryOf(card, d[l], j)
    BY <1>3
  <2> QED BY <2>1 DEF InOrder
<1> QED BY <1>3, <1>4, <1>5 DEF InOrder

(* Sound, of a FAT and entries. *)
OwnedFrom(F, s) == {Chain(F, s)[i] : i \in DOMAIN Chain(F, s)}
SoundAs(F, E, card) ==
  /\ SoundChain(F, dirbase, "table", card)
  /\ \A e \in E :
       /\ e.start # 0 => SoundChain(F, e.start, "data", card)
       /\ Len(Chain(F, e.start)) * SectorPieces >= e.size
       /\ OwnedFrom(F, e.start) \cap OwnedFrom(F, dirbase) = {}
       /\ \A x \in E \ {e} : OwnedFrom(F, e.start) \cap OwnedFrom(F, x.start) = {}

LEMMA SoundIs ==
  ASSUME NEW card
  PROVE  Sound(card) <=> SoundAs(FatOf(card), EntriesOf(card), card)
BY DEF Sound, SoundAs, OwnedFrom

(* What is read from one is sound if what is read from the other is. *)
LEMMA AlikeSound ==
  ASSUME NEW card, NEW card2, WellTyped(card), WellTyped(card2), Alike(card, card2),
         FatOf(card2) = FatOf(card), Sound(card)
  PROVE  Sound(card2) /\ (Formatted(card) => Formatted(card2))
<1> DEFINE F == FatOf(card)
           d == Chain(F, dirbase)
<1>1. F \in [Clusters -> Links]
  BY WellTypedFacts
<1>2. ASSUME NEW s, NEW kind \in {"table", "data"}, SoundChain(F, s, kind, card)
      PROVE  SoundChain(F, s, kind, card2)
  <2>1. /\ Chain(F, s) # <<>> /\ F[Chain(F, s)[Len(Chain(F, s))]] >= n_fatent
        /\ \A i \in DOMAIN Chain(F, s) : kind \in DOMAIN card[clust2sect(Chain(F, s)[i])]
    BY <1>2 DEF SoundChain
  <2>2. Chain(F, s) \in Seq(Clusters)
    <3> HIDE DEF F
    <3> QED BY <1>1, <2>1, ChainGives
  <2>3. \A i \in DOMAIN Chain(F, s) : Chain(F, s)[i] \in Clusters
    BY <2>2
  <2>4. ASSUME NEW c \in Clusters, kind \in DOMAIN card[clust2sect(c)]
        PROVE  kind \in DOMAIN card2[clust2sect(c)]
    <3>1. CASE IsTable(card, c)
      BY <2>4, <3>1 DEF Alike
    <3>2. CASE ~IsTable(card, c)
      <4>1. kind = "data" /\ ~IsTable(card2, c)
        BY <1>2, <2>4, <3>2 DEF Alike, IsTable
      <4> QED BY <4>1, WellTypedFacts
    <3> QED BY <3>1, <3>2
  <2> QED BY <2>1, <2>3, <2>4 DEF SoundChain
<1>3. SoundChain(F, dirbase, "table", card)
  BY DEF Sound
<1>4. d \in Seq(Clusters) /\ \A k \in 1..Len(d) : d[k] \in Clusters /\ IsTable(card, d[k])
  <2>1. /\ d # <<>> /\ F[d[Len(d)]] >= n_fatent
        /\ \A i \in DOMAIN d : IsTable(card, d[i])
    BY <1>3 DEF SoundChain, IsTable
  <2>2. d \in Seq(Clusters)
    <3> HIDE DEF F
    <3> QED BY <1>1, <2>1, ChainGives
  <2> QED BY <2>1, <2>2, LenProperties
<1>5. \A k \in 1..Len(d) : IsTable(card2, d[k]) /\ card2[clust2sect(d[k])] = card[clust2sect(d[k])]
  BY <1>4 DEF Alike
<1>6. \A e : e \in EntriesOf(card2) <=> e \in EntriesOf(card)
  <2>1. \A e : e \in EntriesOf(card) <=>
             (\E k \in 1..Len(d), i \in 1..TableEntries : e = EntryOf(card, d[k], i)) /\ ~IsBlank(e)
    BY <1>4, EntriesAre
  <2>2. \A e : e \in EntriesOf(card2) <=>
             (\E k \in 1..Len(d), i \in 1..TableEntries : e = EntryOf(card2, d[k], i)) /\ ~IsBlank(e)
    BY <1>4, <1>5, EntriesAre
  <2> QED BY <1>5, <2>1, <2>2 DEF EntryOf
<1>7. EntriesOf(card2) = EntriesOf(card)
  BY <1>6
<1>8. Sound(card2)
  <2>1. SoundAs(F, EntriesOf(card), card)
    BY SoundIs
  <2>2. \A e \in EntriesOf(card) : e.start # 0 => SoundChain(F, e.start, "data", card2)
    BY <1>2, <2>1 DEF SoundAs
  <2>3. SoundChain(F, dirbase, "table", card2)
    BY <1>2, <1>3
  <2>4. SoundAs(F, EntriesOf(card), card2)
    BY <2>1, <2>2, <2>3, Zenon DEF SoundAs
  <2>5. SoundAs(FatOf(card2), EntriesOf(card2), card2)
    BY <1>7, <2>4
  <2> QED BY <2>5, SoundIs
<1>9. ASSUME Formatted(card) PROVE Formatted(card2)
  <2>1. InOrder(card, d)
    BY <1>4, <1>9, OrderlyIs DEF Formatted
  <2>2. Orderly(card2, d)
    BY <1>4, <2>1, AlikeOrderly, OrderlyIs
  <2> QED BY <1>8, <2>2 DEF Formatted
<1> QED BY <1>8, <1>9

(* q grows out of p. *)
Grows(p, q) == Len(p) <= Len(q) /\ (p # <<>> => q # <<>> /\ q[1] = p[1])

LEMMA FitsGrow ==
  ASSUME NEW ch \in Layouts, NEW ch2 \in Layouts, NEW e, e.name \in Names, e.size \in Nat, Fits(e, ch),
         ch2[e.name] = ch[e.name] \/ Grows(ch[e.name], ch2[e.name])
  PROVE  Fits(e, ch2)
<1>1. CASE ch2[e.name] = ch[e.name]
  BY <1>1 DEF Fits
<1>2. CASE Grows(ch[e.name], ch2[e.name])
  <2>1. PICK a \in Nat : a = Len(ch[e.name])
    BY LayoutFacts
  <2>2. PICK b \in Nat : b = Len(ch2[e.name])
    BY LayoutFacts
  <2>3. a <= b /\ SectorPieces \in Nat
    BY <1>2, <2>1, <2>2, VolumeAssumption DEF Grows
  <2>4. a * SectorPieces <= b * SectorPieces /\ a * SectorPieces \in Nat /\ b * SectorPieces \in Nat
    BY <2>3
  <2> QED BY <1>2, <2>1, <2>2, <2>4 DEF Fits, Grows
<1> QED BY <1>1, <1>2

(* The files that are not in x2 have only grown. *)
GrowsTo(ch, x, ch2, x2) ==
  \A n \in Names \ x2 : n \notin x /\ (ch2[n] = ch[n] \/ Grows(ch[n], ch2[n]))

(* A layout for a card with the same tables. *)
LEMMA AlikeMatch ==
  ASSUME NEW card, NEW ch, NEW x, Tree(card, ch, x),
         NEW card2, WellTyped(card2), Alike(card, card2),
         NEW ch2, Shape(FatOf(card2), ch2), ch2["none"] = ch["none"],
         NEW x2, Match(card, ch2, x2)
  PROVE  Tree(card2, ch2, x2)
<1>1. InOrder(card, ch["none"]) /\ ch["none"] \in Seq(Clusters)
  BY TreeFacts
<1>2. InOrder(card2, ch["none"])
  BY <1>1, AlikeOrderly
<1>3. Match(card2, ch2, x2)
  <2>1. \A k \in 1..Len(ch["none"]) : \A i \in 1..TableEntries :
          EntryOf(card2, ch["none"][k], i) = EntryOf(card, ch["none"][k], i)
    BY <1>1, AlikeOrderly
  <2> QED BY <2>1 DEF Match
<1> QED BY <1>1, <1>2, <1>3, OrderlyIs DEF Tree

LEMMA AlikeTree ==
  ASSUME NEW card, NEW ch, NEW x, Tree(card, ch, x),
         NEW card2, WellTyped(card2), Alike(card, card2),
         NEW ch2, Shape(FatOf(card2), ch2), ch2["none"] = ch["none"],
         NEW x2, GrowsTo(ch, x, ch2, x2)
  PROVE  Tree(card2, ch2, x2)
<1>1. /\ ch \in Layouts /\ ch2 \in Layouts
      /\ \A k \in 1..Len(ch["none"]), i \in 1..TableEntries : EntryOf(card, ch["none"][k], i) \in Entries
  BY TreeFacts DEF Tree, Shape
<1>3. Match(card, ch2, x2)
  <2> SUFFICES ASSUME NEW k \in 1..Len(ch["none"]), NEW i \in 1..TableEntries, NEW e,
                      e = EntryOf(card, ch["none"][k], i), e.name \in Names, e.name \notin x2
               PROVE  Fits(e, ch2)
    BY DEF Match
  <2>2. e.size \in Nat
    BY <1>1, EntryFacts
  <2>3. Fits(e, ch) /\ (ch2[e.name] = ch[e.name] \/ Grows(ch[e.name], ch2[e.name]))
    BY DEF Tree, Match, GrowsTo
  <2> QED BY <1>1, <2>2, <2>3, FitsGrow
<1> QED BY <1>3, AlikeMatch

(* A link is changed. *)
LinkSet(card, c, y) == [card EXCEPT ![FatSector(c)] = [card[FatSector(c)] EXCEPT ![c] = y]]

LEMMA LinkSetFacts ==
  ASSUME NEW card, WellTyped(card), NEW c \in Clusters, NEW y \in Links
  PROVE  /\ WellTyped(LinkSet(card, c, y)) /\ Alike(card, LinkSet(card, c, y))
         /\ FatOf(LinkSet(card, c, y)) = [FatOf(card) EXCEPT ![c] = y]
         /\ \A d \in Clusters : LinkSet(card, c, y)[clust2sect(d)] = card[clust2sect(d)]
<1> DEFINE card2 == LinkSet(card, c, y)
           s == FatSector(c)
           old == card[s]
           new == [old EXCEPT ![c] = y]
           dom == {d \in Clusters : FatSector(d) = s}
<1>1. DOMAIN card = 1..clust2sect(LastCluster) /\ s \in DOMAIN card
  BY Sectors DEF WellTyped
<1>2. DOMAIN card2 = DOMAIN card /\ card2[s] = new /\ \A t \in DOMAIN card : t # s => card2[t] = card[t]
  BY <1>1 DEF LinkSet
<1>f. IsCard(card2)
  BY CardSet, WellTypedFacts, Zenon DEF LinkSet
<1> HIDE DEF card2
<1>3. \A d \in Clusters : clust2sect(d) \in DOMAIN card /\ clust2sect(d) # s /\ FatSector(d) \in DOMAIN card
  BY <1>1, Sectors
<1>4. \A d \in Clusters : card2[clust2sect(d)] = card[clust2sect(d)]
  BY <1>2, <1>3
<1>5. old \in [dom -> Links] /\ c \in dom
  BY Zenon DEF WellTyped
<1> HIDE DEF old, s, dom
<1>6. new \in [dom -> Links] /\ new[c] = y /\ \A d \in dom : d # c => new[d] = old[d]
  BY <1>5
<1> HIDE DEF new
<1>7. ASSUME NEW d \in Clusters
      PROVE  /\ card2[FatSector(d)] \in [{f \in Clusters : FatSector(f) = FatSector(d)} -> Links]
             /\ card2[FatSector(d)][d] = IF d = c THEN y ELSE card[FatSector(d)][d]
  <2>1. CASE FatSector(d) = s
    BY <1>2, <1>6, <2>1 DEF dom, old, s
  <2>2. CASE FatSector(d) # s
    <3>1. card2[FatSector(d)] = card[FatSector(d)] /\ d # c
      BY <1>2, <1>3, <2>2 DEF s
    <3> QED BY <3>1, Zenon DEF WellTyped
  <2> QED BY <2>1, <2>2
<1>8. Alike(card, card2)
  BY <1>4 DEF Alike, IsTable
<1>9. WellTyped(card2)
  BY <1>f, <1>1, <1>2, <1>4, <1>7, Zenon DEF WellTyped, IsTable, IsCard
<1>10. FatOf(card2) = [FatOf(card) EXCEPT ![c] = y]
  BY <1>7, Zenon DEF FatOf
<1> QED BY <1>4, <1>8, <1>9, <1>10 DEF card2

(* A sector of data, or FSInfo, is written. *)
LEMMA DataSetFacts ==
  ASSUME NEW card, WellTyped(card), NEW s, NEW y,
         s = InfoSector \/ \E c \in Clusters : s = clust2sect(c) /\ ~IsTable(card, c) /\
                                               "data" \in DOMAIN y /\ "table" \notin DOMAIN y
  PROVE  /\ WellTyped([card EXCEPT ![s] = y]) /\ Alike(card, [card EXCEPT ![s] = y])
         /\ FatOf([card EXCEPT ![s] = y]) = FatOf(card)
<1> DEFINE card2 == [card EXCEPT ![s] = y]
<1>1. DOMAIN card = 1..clust2sect(LastCluster) /\ s \in DOMAIN card
  BY Sectors DEF WellTyped
<1>2. DOMAIN card2 = DOMAIN card /\ card2[s] = y /\ \A t \in DOMAIN card : t # s => card2[t] = card[t]
  BY <1>1
<1>f. IsCard(card2)
  BY CardSet, WellTypedFacts, Zenon
<1> HIDE DEF card2
<1>3. \A d \in Clusters : FatSector(d) \in DOMAIN card /\ FatSector(d) # s /\ clust2sect(d) \in DOMAIN card
  BY <1>1, Sectors
<1>4. \A d \in Clusters : card2[FatSector(d)] = card[FatSector(d)]
  BY <1>2, <1>3
<1>5. FatOf(card2) = FatOf(card)
  BY <1>4 DEF FatOf
<1>6. ASSUME NEW d \in Clusters
      PROVE  \/ card2[clust2sect(d)] = card[clust2sect(d)]
             \/ ~IsTable(card, d) /\ ~IsTable(card2, d) /\ "data" \in DOMAIN card2[clust2sect(d)]
  <2>1. CASE clust2sect(d) # s
    BY <1>2, <1>3, <2>1
  <2>2. CASE clust2sect(d) = s
    <3>1. clust2sect(d) # InfoSector
      BY Sectors
    <3>2. PICK c \in Clusters : s = clust2sect(c) /\ ~IsTable(card, c) /\ "data" \in DOMAIN y /\ "table" \notin DOMAIN y
      BY <2>2, <3>1
    <3>3. c = d
      BY <2>2, <3>2, Sectors
    <3> QED BY <1>2, <2>2, <3>2, <3>3 DEF IsTable
  <2> QED BY <2>1, <2>2
<1>7. Alike(card, card2)
  BY <1>6 DEF Alike, IsTable
<1>8. WellTyped(card2)
  BY <1>f, <1>1, <1>2, <1>4, <1>6, Zenon DEF WellTyped, IsTable, IsCard
<1> QED BY <1>5, <1>7, <1>8 DEF card2

(* An entry is changed. *)
EntrySet(card, c, i, e) ==
  [card EXCEPT ![clust2sect(c)] = [card[clust2sect(c)] EXCEPT !.table[i] = e]]

LEMMA EntrySetFacts ==
  ASSUME NEW card, WellTyped(card), NEW c \in Clusters, IsTable(card, c), NEW i \in 1..TableEntries,
         NEW e \in Entries
  PROVE  /\ WellTyped(EntrySet(card, c, i, e)) /\ FatOf(EntrySet(card, c, i, e)) = FatOf(card)
         /\ \A d \in Clusters : IsTable(EntrySet(card, c, i, e), d) <=> IsTable(card, d)
         /\ \A d \in Clusters : \A j \in 1..TableEntries : IsTable(card, d) =>
              EntryOf(EntrySet(card, c, i, e), d, j) = IF d = c /\ j = i THEN e ELSE EntryOf(card, d, j)
<1> DEFINE card2 == EntrySet(card, c, i, e)
           s == clust2sect(c)
           old == card[s]
           new == [old EXCEPT !.table[i] = e]
<1>1. DOMAIN card = 1..clust2sect(LastCluster) /\ s \in DOMAIN card
  BY Sectors DEF WellTyped
<1>2. DOMAIN card2 = DOMAIN card /\ card2[s] = new /\ \A t \in DOMAIN card : t # s => card2[t] = card[t]
  BY <1>1 DEF EntrySet
<1>f. IsCard(card2)
  BY CardSet, WellTypedFacts, Zenon DEF EntrySet
<1> HIDE DEF card2
<1>3. \A d \in Clusters : /\ FatSector(d) \in DOMAIN card /\ FatSector(d) # s
                          /\ clust2sect(d) \in DOMAIN card /\ (clust2sect(d) = s => d = c)
  BY <1>1, Sectors
<1>4. \A d \in Clusters : /\ card2[FatSector(d)] = card[FatSector(d)]
                          /\ d # c => card2[clust2sect(d)] = card[clust2sect(d)]
  BY <1>2, <1>3
<1>5. FatOf(card2) = FatOf(card)
  BY <1>4 DEF FatOf
<1>6. "table" \in DOMAIN old /\ old.table \in [1..TableEntries -> Entries]
  BY WellTypedFacts DEF IsTable
<1> HIDE DEF old
<1>7. /\ DOMAIN new = DOMAIN old /\ new.table \in [1..TableEntries -> Entries]
      /\ \A j \in 1..TableEntries : new.table[j] = IF j = i THEN e ELSE old.table[j]
  BY <1>6, Zenon
<1> HIDE DEF new
<1>8. \A d \in Clusters : IsTable(card2, d) <=> IsTable(card, d)
  BY <1>2, <1>4, <1>7 DEF IsTable, old
<1>9. \A d \in Clusters : \A j \in 1..TableEntries : IsTable(card, d) =>
              EntryOf(card2, d, j) = IF d = c /\ j = i THEN e ELSE EntryOf(card, d, j)
  BY <1>2, <1>4, <1>7 DEF EntryOf, old
<1>10. WellTyped(card2)
  BY <1>f, <1>1, <1>2, <1>4, <1>6, <1>7, <1>8, Zenon DEF WellTyped, IsTable, IsCard
<1> QED BY <1>5, <1>8, <1>9, <1>10 DEF card2

(* A table is cleared that is none of the directory yet. *)
LEMMA TableSetFacts ==
  ASSUME NEW card, WellTyped(card), NEW c \in Clusters, NEW card2,
         card2 = [card EXCEPT ![clust2sect(c)] = [table |-> EmptyTable]]
  PROVE  /\ WellTyped(card2) /\ FatOf(card2) = FatOf(card) /\ IsTable(card2, c)
         /\ \A d \in Clusters : d # c => card2[clust2sect(d)] = card[clust2sect(d)]
         /\ \A j \in 1..TableEntries : EntryOf(card2, c, j) = Blank
<1>1. DOMAIN card = 1..clust2sect(LastCluster) /\ clust2sect(c) \in DOMAIN card
  BY Sectors DEF WellTyped
<1>2. /\ DOMAIN card2 = DOMAIN card /\ card2[clust2sect(c)] = [table |-> EmptyTable]
      /\ \A t \in DOMAIN card : t # clust2sect(c) => card2[t] = card[t]
  BY <1>1
<1>3. \A d \in Clusters : /\ FatSector(d) \in DOMAIN card /\ FatSector(d) # clust2sect(c)
                          /\ clust2sect(d) \in DOMAIN card /\ (clust2sect(d) = clust2sect(c) => d = c)
  BY <1>1, Sectors, SMTT(30)
<1>4. \A d \in Clusters : /\ card2[FatSector(d)] = card[FatSector(d)]
                          /\ d # c => card2[clust2sect(d)] = card[clust2sect(d)]
  BY <1>2, <1>3
<1>5. FatOf(card2) = FatOf(card)
  BY <1>4 DEF FatOf
<1>6. EmptyTable \in [1..TableEntries -> Entries] /\ \A j \in 1..TableEntries : EmptyTable[j] = Blank
  BY DEF EmptyTable, Entries
<1>7. IsTable(card2, c) /\ card2[clust2sect(c)].table = EmptyTable
  BY <1>2 DEF IsTable
<1>8. \A d \in Clusters : d # c => (IsTable(card2, d) <=> IsTable(card, d))
  BY <1>4 DEF IsTable
<1>9. WellTyped(card2)
  <2> SUFFICES ASSUME NEW d \in Clusters
               PROVE  /\ card2[FatSector(d)] \in [{f \in Clusters : FatSector(f) = FatSector(d)} -> Links]
                      /\ IF IsTable(card2, d) THEN card2[clust2sect(d)].table \in [1..TableEntries -> Entries]
                         ELSE "data" \in DOMAIN card2[clust2sect(d)]
    BY <1>1, <1>2, Zenon DEF WellTyped
  <2>1. card2[FatSector(d)] \in [{f \in Clusters : FatSector(f) = FatSector(d)} -> Links]
    BY <1>4, Zenon DEF WellTyped
  <2>2. CASE d = c
    BY <1>6, <1>7, <2>1, <2>2
  <2>3. CASE d # c
    BY <1>4, <1>8, <2>1, <2>3, Zenon DEF WellTyped
  <2> QED BY <2>2, <2>3
<1> QED BY <1>4, <1>5, <1>6, <1>7, <1>9, Zenon DEF EntryOf

-----------------------------------------------------------------------------
(* Changes of a layout. *)

(* All files but n, and the directory, have kept their clusters. *)
OthersKept(ch, ch2, n) == \A m \in Names \cup {"none"} : m # n => ch2[m] = ch[m]
OthersLinked(F, ch, n) == \A m \in Names \cup {"none"} : m # n => Linked(F, ch[m])

(* q has none of their clusters. *)
NotOthers(q, ch, n) ==
  \A m \in Names \cup {"none"} : m # n =>
    \A i \in 1..Len(q), j \in 1..Len(ch[m]) : q[i] # ch[m][j]

LEMMA AlikeSelf ==
  ASSUME NEW card
  PROVE  Alike(card, card)
BY DEF Alike

(* The link of a cluster that nothing owns may change. *)
LEMMA LinkUnowned ==
  ASSUME NEW card, NEW ch, NEW x, Tree(card, ch, x), NEW c \in Clusters, ~Owned(ch, c), NEW y \in Links
  PROVE  Tree(LinkSet(card, c, y), ch, x)
<1>1. /\ WellTyped(card) /\ Shape(FatOf(card), ch)
      /\ FatOf(LinkSet(card, c, y)) = [FatOf(card) EXCEPT ![c] = y]
      /\ WellTyped(LinkSet(card, c, y)) /\ Alike(card, LinkSet(card, c, y))
      /\ FatOf(card) \in [Clusters -> Links]
  BY LinkSetFacts, WellTypedFacts DEF Tree
<1>2. ASSUME NEW n \in Names \cup {"none"} PROVE Linked([FatOf(card) EXCEPT ![c] = y], ch[n])
  <2>1. Linked(FatOf(card), ch[n]) /\ \A i \in 1..Len(ch[n]) : ch[n][i] \in Clusters /\ ch[n][i] # c
    BY <1>1, LayoutFacts DEF Shape, Owned
  <2> QED BY <1>1, <2>1 DEF Linked
<1>3. Shape(FatOf(LinkSet(card, c, y)), ch)
  BY <1>1, <1>2, Zenon DEF Shape
<1>4. GrowsTo(ch, x, ch, x)
  BY DEF GrowsTo
<1> QED BY <1>1, <1>3, <1>4, AlikeTree, Zenon

(* One more cluster for n. *)
LEMMA ShapeExtend ==
  ASSUME NEW F \in [Clusters -> Links], NEW ch, Shape(F, ch), NEW n \in Names \cup {"none"}, ch[n] # <<>>,
         NEW c \in Clusters, ~Owned(ch, c), F[c] = LastLink,
         NEW F2, F2 = [F EXCEPT ![ch[n][Len(ch[n])]] = c],
         NEW ch2, ch2 = [ch EXCEPT ![n] = Append(ch[n], c)]
  PROVE  /\ Shape(F2, ch2) /\ Grows(ch[n], ch2[n]) /\ ch2[n] = Append(ch[n], c)
         /\ Len(ch2[n]) = Len(ch[n]) + 1 /\ ch2[n][Len(ch[n]) + 1] = c
         /\ \A i \in 1..Len(ch[n]) : ch2[n][i] = ch[n][i]
         /\ OthersKept(ch, ch2, n)
<1> DEFINE q == ch[n]
<1>1. ch \in Layouts /\ Apart(ch) /\ q \in Seq(Clusters) /\ Linked(F, q)
  BY LayoutFacts DEF Shape
<1>2. PICK l \in Nat : l = Len(q) /\ l \in 1..l /\ \A i \in 1..l : q[i] \in Clusters
  BY <1>1, LayoutFacts
<1> HIDE DEF q
<1>3. /\ Append(q, c) \in Seq(Clusters) /\ Len(Append(q, c)) = l + 1 /\ Append(q, c)[l + 1] = c
      /\ \A i \in 1..l : Append(q, c)[i] = q[i]
      /\ Append(q, c) # <<>>
  BY <1>1, <1>2, AppendProperties
<1>4. ch2 \in Layouts /\ ch2[n] = Append(q, c) /\ \A m \in Names \cup {"none"} : m # n => ch2[m] = ch[m]
  BY <1>1, <1>3 DEF Layouts, q
<1>5. \A m \in Names \cup {"none"} : \A i \in 1..Len(ch[m]) : ch[m][i] # c /\ ch[m][i] \in Clusters
  BY <1>1, LayoutFacts DEF Owned
<1>6. \A a \in Clusters : F2[a] = IF a = q[l] THEN c ELSE F[a]
  BY <1>2 DEF q
<1>7. ASSUME NEW m \in Names \cup {"none"} PROVE Linked(F2, ch2[m])
  <2>1. CASE m = n
    <3> DEFINE r == Append(q, c)
               Next1(i) == IF i < l + 1 THEN r[i + 1] ELSE LastLink
    <3>a. /\ Len(r) = l + 1 /\ r[l + 1] = c /\ \A i \in 1..l : r[i] = q[i]
      BY <1>3
    <3> HIDE DEF r
    <3>b. ch2[m] = r
      BY <1>4, <2>1 DEF r
    <3> SUFFICES ASSUME NEW i \in 1..(l + 1) PROVE F2[r[i]] = Next1(i)
      <4>1. \A i \in 1..(l + 1) : F2[r[i]] = Next1(i)
        OBVIOUS
      <4>2. Linked(F2, r)
        BY <3>a, <4>1 DEF Linked
      <4> QED BY <3>b, <4>2, Zenon
    <3>1. CASE i = l + 1
      <4>1. c # q[l] /\ ~(i < l + 1)
        BY <1>2, <1>5, <3>1 DEF q
      <4>2. F[c] = LastLink
        OBVIOUS
      <4> QED BY <1>6, <3>1, <3>a, <4>1, <4>2
    <3>2. CASE i = l
      <4>1. l \in 1..l /\ l < l + 1 /\ q[l] \in Clusters
        BY <1>2
      <4> QED BY <1>6, <3>2, <3>a, <4>1
    <3>3. CASE i < l
      <4>1. i \in 1..l /\ i + 1 \in 1..l /\ i < l + 1
        BY <3>3
      <4>2. q[i] # q[l]
        BY <1>1, <1>2, <3>3, <4>1, LinkedDistinct DEF Distinct
      <4>3. F[q[i]] = q[i + 1]
        BY <1>1, <1>2, <3>3, <4>1, Zenon DEF Linked
      <4> QED BY <1>2, <1>6, <3>a, <4>1, <4>2, <4>3
    <3> QED BY <1>2, <3>1, <3>2, <3>3
  <2>2. CASE m # n
    <3>1. \A i \in 1..Len(ch[m]) : ch[m][i] # q[l] /\ ch[m][i] \in Clusters
      BY <1>1, <1>2, <1>5, <2>2 DEF Apart, q
    <3>2. Linked(F, ch[m])
      BY DEF Shape
    <3> QED BY <1>4, <1>6, <2>2, <3>1, <3>2 DEF Linked
  <2> QED BY <2>1, <2>2
<1>8. Apart(ch2)
  <2> SUFFICES ASSUME NEW a \in Names \cup {"none"}, NEW b \in Names \cup {"none"},
                      NEW i \in 1..Len(ch2[a]), NEW j \in 1..Len(ch2[b]), ch2[a][i] = ch2[b][j]
               PROVE  a = b /\ i = j
    BY Zenon DEF Apart
  <2>1. a # n => i \in 1..Len(ch[a]) /\ ch2[a][i] = ch[a][i]
    BY <1>4
  <2>2. b # n => j \in 1..Len(ch[b]) /\ ch2[b][j] = ch[b][j]
    BY <1>4
  <2>3. a = n => (i \in 1..Len(ch[a]) /\ ch2[a][i] = ch[a][i]) \/ (i = l + 1 /\ ch2[a][i] = c)
    BY <1>2, <1>3, <1>4 DEF q
  <2>4. b = n => (j \in 1..Len(ch[b]) /\ ch2[b][j] = ch[b][j]) \/ (j = l + 1 /\ ch2[b][j] = c)
    BY <1>2, <1>3, <1>4 DEF q
  <2>5. CASE i \in 1..Len(ch[a]) /\ ch2[a][i] = ch[a][i] /\ j \in 1..Len(ch[b]) /\ ch2[b][j] = ch[b][j]
    BY <1>1, <2>5 DEF Apart
  <2>6. CASE a = n /\ i = l + 1 /\ ch2[a][i] = c
    BY <1>5, <2>2, <2>4, <2>6
  <2>7. CASE b = n /\ j = l + 1 /\ ch2[b][j] = c
    BY <1>5, <2>1, <2>3, <2>7
  <2> QED BY <2>1, <2>2, <2>3, <2>4, <2>5, <2>6, <2>7
<1>9. ch2["none"] # <<>> /\ ch2["none"][1] = dirbase
  <2>1. 1 \in 1..l
    BY <1>2
  <2> QED BY <1>3, <1>4, <2>1 DEF Shape, q
<1>10. Grows(ch[n], ch2[n])
  <2>1. 1 \in 1..l
    BY <1>2
  <2> QED BY <1>2, <1>3, <1>4, <2>1 DEF Grows, q
<1>11. OthersKept(ch, ch2, n)
  BY <1>4 DEF OthersKept
<1> QED BY <1>2, <1>3, <1>4, <1>7, <1>8, <1>9, <1>10, <1>11, Zenon DEF Shape, q

(* A file gets one more. *)
LEMMA FileExtend ==
  ASSUME NEW card, NEW ch, NEW x, Tree(card, ch, x), NEW n \in Names, ch[n] # <<>>,
         NEW c \in Clusters, ~Owned(ch, c), FatOf(card)[c] = LastLink
  PROVE  Tree(LinkSet(card, ch[n][Len(ch[n])], c), [ch EXCEPT ![n] = Append(ch[n], c)], x)
<1> DEFINE card2 == LinkSet(card, ch[n][Len(ch[n])], c)
           ch2 == [ch EXCEPT ![n] = Append(ch[n], c)]
<1>1. WellTyped(card) /\ Shape(FatOf(card), ch) /\ FatOf(card) \in [Clusters -> Links] /\ n # "none"
  BY WellTypedFacts, NamesAssumption DEF Tree
<1>2. ch[n][Len(ch[n])] \in Clusters /\ c \in Links
  BY <1>1, LayoutFacts DEF Shape, Links
<1>3. /\ WellTyped(card2) /\ Alike(card, card2)
      /\ FatOf(card2) = [FatOf(card) EXCEPT ![ch[n][Len(ch[n])]] = c]
  <2>1. PICK k \in Clusters : k = ch[n][Len(ch[n])]
    BY <1>2
  <2>2. PICK y \in Links : y = c
    BY <1>2
  <2>3. /\ WellTyped(LinkSet(card, k, y)) /\ Alike(card, LinkSet(card, k, y))
        /\ FatOf(LinkSet(card, k, y)) = [FatOf(card) EXCEPT ![k] = y]
    <3> HIDE DEF card2, ch2
    <3> QED BY <1>1, LinkSetFacts
  <2> QED BY <2>1, <2>2, <2>3
<1> HIDE DEF card2
<1>4. ch2 = [ch EXCEPT ![n] = Append(ch[n], c)]
  OBVIOUS
<1> HIDE DEF ch2
<1>5. Shape(FatOf(card2), ch2) /\ Grows(ch[n], ch2[n]) /\ OthersKept(ch, ch2, n)
  BY <1>1, <1>3, <1>4, ShapeExtend, ZenonT(60)
<1>6. ch2["none"] = ch["none"] /\ GrowsTo(ch, x, ch2, x)
  BY <1>1, <1>5 DEF OthersKept, GrowsTo
<1>7. Tree(card2, ch2, x)
  BY <1>3, <1>5, <1>6, AlikeTree, Zenon
<1> QED BY <1>7 DEF card2, ch2

(* Another sequence in place of one. *)
Replaced(ch, n, q) == [ch EXCEPT ![n] = q]

LEMMA ShapeReplace ==
  ASSUME NEW ch \in Layouts, Apart(ch), ch["none"] # <<>>, ch["none"][1] = dirbase,
         NEW n \in Names, NEW q, q \in Seq(Clusters), NEW F2, Linked(F2, q),
         OthersLinked(F2, ch, n), NotOthers(q, ch, n)
  PROVE  Shape(F2, Replaced(ch, n, q)) /\ Replaced(ch, n, q)[n] = q /\ OthersKept(ch, Replaced(ch, n, q), n)
<1> DEFINE ch2 == Replaced(ch, n, q)
<1>1. n # "none" /\ Distinct(q)
  BY NamesAssumption, LinkedDistinct
<1>2. ch2 \in Layouts /\ ch2[n] = q /\ \A m \in Names \cup {"none"} : m # n => ch2[m] = ch[m]
  BY <1>1 DEF Layouts, Replaced
<1> HIDE DEF ch2
<1>3. \A m \in Names \cup {"none"} : Linked(F2, ch2[m])
  BY <1>2 DEF OthersLinked
<1>4. Apart(ch2)
  <2> SUFFICES ASSUME NEW a \in Names \cup {"none"}, NEW b \in Names \cup {"none"},
                      NEW i \in 1..Len(ch2[a]), NEW j \in 1..Len(ch2[b]), ch2[a][i] = ch2[b][j]
               PROVE  a = b /\ i = j
    BY Zenon DEF Apart
  <2>1. CASE a = n /\ b = n
    BY <1>1, <1>2, <2>1 DEF Distinct
  <2>2. CASE a = n /\ b # n
    BY <1>2, <2>2 DEF NotOthers
  <2>3. CASE a # n /\ b = n
    BY <1>2, <2>3 DEF NotOthers
  <2>4. CASE a # n /\ b # n
    BY <1>1, <1>2, <2>4 DEF Apart
  <2> QED BY <2>1, <2>2, <2>3, <2>4
<1>5. Shape(F2, ch2) /\ ch2[n] = q /\ OthersKept(ch, ch2, n)
  BY <1>1, <1>2, <1>3, <1>4 DEF Shape, OthersKept
<1> QED BY <1>5 DEF ch2

(* A file gets its first cluster. *)
LEMMA FileBegin ==
  ASSUME NEW card, NEW ch, NEW x, Tree(card, ch, x), NEW n \in Names, ch[n] = <<>>,
         NEW c \in Clusters, ~Owned(ch, c), FatOf(card)[c] = LastLink
  PROVE  Tree(card, [ch EXCEPT ![n] = <<c>>], x)
<1> DEFINE ch2 == [ch EXCEPT ![n] = <<c>>]
           q == <<c>>
<1>1. WellTyped(card) /\ Shape(FatOf(card), ch) /\ n # "none"
  BY NamesAssumption DEF Tree
<1>2. q \in Seq(Clusters) /\ Len(q) = 1 /\ q[1] = c
  OBVIOUS
<1> HIDE DEF q
<1>3. Linked(FatOf(card), q)
  BY <1>2 DEF Linked
<1>4. NotOthers(q, ch, n)
  BY <1>2 DEF Owned, NotOthers
<1>5. Shape(FatOf(card), ch2) /\ ch2[n] = q /\ OthersKept(ch, ch2, n)
  <2>1. ch2 = Replaced(ch, n, q)
    BY DEF q, Replaced
  <2>2. OthersLinked(FatOf(card), ch, n) /\ ch \in Layouts /\ Apart(ch) /\ ch["none"] # <<>> /\ ch["none"][1] = dirbase
    BY <1>1 DEF Shape, OthersLinked
  <2> HIDE DEF ch2
  <2>3. q \in Seq(Clusters)
    BY <1>2
  <2>4. Shape(FatOf(card), Replaced(ch, n, q)) /\ Replaced(ch, n, q)[n] = q /\ OthersKept(ch, Replaced(ch, n, q), n)
    BY <1>3, <1>4, <2>2, <2>3, ShapeReplace
  <2> QED BY <2>1, <2>4
<1> HIDE DEF ch2
<1>6. Grows(ch[n], ch2[n])
  BY <1>2, <1>5 DEF Grows
<1>7. ch2["none"] = ch["none"] /\ GrowsTo(ch, x, ch2, x) /\ Alike(card, card)
  BY <1>1, <1>5, <1>6, AlikeSelf DEF OthersKept, GrowsTo
<1>8. Tree(card, ch2, x)
  BY <1>1, <1>5, <1>7, AlikeTree
<1> QED BY <1>8 DEF ch2

(* A file is cut after k clusters: its entry is out of date. *)
LEMMA FileCut ==
  ASSUME NEW card, NEW ch, NEW x, Tree(card, ch, x), NEW n \in Names, NEW k \in 1..Len(ch[n])
  PROVE  Tree(LinkSet(card, ch[n][k], LastLink), [ch EXCEPT ![n] = SubSeq(ch[n], 1, k)], x \cup {n})
<1> DEFINE card2 == LinkSet(card, ch[n][k], LastLink)
           q == SubSeq(ch[n], 1, k)
           ch2 == [ch EXCEPT ![n] = q]
<1>1. WellTyped(card) /\ Shape(FatOf(card), ch) /\ FatOf(card) \in [Clusters -> Links] /\ n # "none"
  BY WellTypedFacts, NamesAssumption DEF Tree
<1>2. /\ ch \in Layouts /\ Apart(ch) /\ ch[n] \in Seq(Clusters) /\ \A i \in 1..Len(ch[n]) : ch[n][i] \in Clusters
      /\ \A m \in Names \cup {"none"} : Linked(FatOf(card), ch[m])
      /\ \A m \in Names \cup {"none"} : \A i \in 1..Len(ch[m]) : ch[m][i] \in Clusters
  BY <1>1, LayoutFacts DEF Shape
<1>3. PICK l \in Nat : l = Len(ch[n]) /\ k \in 1..l
  BY <1>2, LenProperties
<1>4. q \in Seq(Clusters) /\ Len(q) = k /\ \A i \in 1..k : q[i] = ch[n][i]
  BY <1>2, <1>3, SubSeqProperties
<1>5. /\ WellTyped(card2) /\ Alike(card, card2)
      /\ FatOf(card2) = [FatOf(card) EXCEPT ![ch[n][k]] = LastLink]
  BY <1>1, <1>2, LinkSetFacts, Zenon DEF Links
<1> HIDE DEF card2, q
<1>6. \A a \in Clusters : FatOf(card2)[a] = IF a = ch[n][k] THEN LastLink ELSE FatOf(card)[a]
  BY <1>1, <1>5
<1>7. \A m \in Names \cup {"none"} : m # n => \A j \in 1..Len(ch[m]) : \A i \in 1..Len(ch[n]) : ch[n][i] # ch[m][j]
  BY <1>2 DEF Apart
<1>8. ASSUME NEW m \in Names \cup {"none"}, m # n PROVE Linked(FatOf(card2), ch[m])
  <2>1. \A i \in 1..Len(ch[m]) : ch[m][i] # ch[n][k] /\ ch[m][i] \in Clusters
    BY <1>2, <1>7, <1>8
  <2>2. Linked(FatOf(card), ch[m])
    BY <1>2
  <2> QED BY <1>6, <2>1, <2>2, Zenon DEF Linked
<1>9. Linked(FatOf(card2), q)
  <2> SUFFICES ASSUME NEW i \in 1..k PROVE FatOf(card2)[q[i]] = IF i < k THEN q[i + 1] ELSE LastLink
    BY <1>4 DEF Linked
  <2>1. CASE i = k
    BY <1>2, <1>4, <1>6, <2>1
  <2>2. CASE i # k
    <3>1. i \in 1..l /\ i < l /\ i < k /\ i + 1 \in 1..k
      BY <1>3, <2>2
    <3>2. ch[n][i] # ch[n][k]
      BY <1>2, <1>3, <2>2, <3>1 DEF Apart
    <3>3. FatOf(card)[ch[n][i]] = ch[n][i + 1]
      BY <1>2, <1>3, <3>1 DEF Linked
    <3> QED BY <1>2, <1>3, <1>4, <1>6, <3>1, <3>2, <3>3
  <2> QED BY <2>1, <2>2
<1>a. ch2 = [ch EXCEPT ![n] = q]
  OBVIOUS
<1> HIDE DEF ch2
<1>10. Shape(FatOf(card2), ch2) /\ OthersKept(ch, ch2, n)
  <2>1. NotOthers(q, ch, n) /\ OthersLinked(FatOf(card2), ch, n)
    BY <1>3, <1>4, <1>7, <1>8, SMTT(30) DEF NotOthers, OthersLinked
  <2>2. ch \in Layouts /\ Apart(ch) /\ ch["none"] # <<>> /\ ch["none"][1] = dirbase /\ q \in Seq(Clusters)
    BY <1>1, <1>4 DEF Shape
  <2>3. Shape(FatOf(card2), Replaced(ch, n, q)) /\ OthersKept(ch, Replaced(ch, n, q), n)
    BY <1>9, <2>1, <2>2, ShapeReplace
  <2> QED BY <1>a, <2>3 DEF Replaced
<1>b. ch2["none"] = ch["none"] /\ GrowsTo(ch, x, ch2, x \cup {n})
  BY <1>1, <1>10 DEF OthersKept, GrowsTo
<1>11. Tree(card2, ch2, x \cup {n})
  BY <1>5, <1>10, <1>b, AlikeTree, Zenon
<1> QED BY <1>11 DEF card2, ch2, q

(* A file gives up its clusters. *)
LEMMA FileDrop ==
  ASSUME NEW card, NEW ch, NEW x, Tree(card, ch, x), NEW n \in Names, NEW x2, x \subseteq x2,
         n \in x2 \/ \A k \in 1..Len(ch["none"]), i \in 1..TableEntries :
                       EntryOf(card, ch["none"][k], i).name = n => EntryOf(card, ch["none"][k], i).start = 0
  PROVE  /\ Tree(card, [ch EXCEPT ![n] = <<>>], x2)
         /\ \A i \in 1..Len(ch[n]) : ~Owned([ch EXCEPT ![n] = <<>>], ch[n][i])
<1> DEFINE ch2 == [ch EXCEPT ![n] = <<>>]
           q == <<>>
<1>1. WellTyped(card) /\ Shape(FatOf(card), ch) /\ n # "none" /\ Apart(ch) /\ ch \in Layouts
  BY NamesAssumption DEF Tree, Shape
<1>2. q \in Seq(Clusters) /\ Len(q) = 0
  OBVIOUS
<1> HIDE DEF q
<1>3. Linked(FatOf(card), q)
  BY <1>2 DEF Linked
<1>4. NotOthers(q, ch, n)
  BY <1>2 DEF NotOthers
<1>5. Shape(FatOf(card), ch2) /\ ch2[n] = q /\ OthersKept(ch, ch2, n)
  <2>1. ch2 = Replaced(ch, n, q)
    BY DEF q, Replaced
  <2>2. OthersLinked(FatOf(card), ch, n) /\ ch \in Layouts /\ Apart(ch) /\ ch["none"] # <<>> /\ ch["none"][1] = dirbase
    BY <1>1 DEF Shape, OthersLinked
  <2> HIDE DEF ch2
  <2>3. q \in Seq(Clusters)
    BY <1>2
  <2>4. Shape(FatOf(card), Replaced(ch, n, q)) /\ Replaced(ch, n, q)[n] = q /\ OthersKept(ch, Replaced(ch, n, q), n)
    BY <1>3, <1>4, <2>2, <2>3, ShapeReplace
  <2> QED BY <2>1, <2>4
<1> HIDE DEF ch2
<1>6. Match(card, ch2, x2)
  <2> SUFFICES ASSUME NEW k \in 1..Len(ch["none"]), NEW i \in 1..TableEntries, NEW e,
                      e = EntryOf(card, ch["none"][k], i), e.name \in Names, e.name \notin x2
               PROVE  Fits(e, ch2)
    BY <1>1, <1>5 DEF Match, OthersKept
  <2>1. Fits(e, ch)
    BY DEF Tree, Match
  <2>2. CASE e.name = n
    BY <2>1, <2>2 DEF Fits
  <2>3. CASE e.name # n
    BY <1>5, <2>1, <2>3 DEF Fits, OthersKept
  <2> QED BY <2>2, <2>3
<1>7. Tree(card, ch2, x2)
  <2>1. Alike(card, card) /\ ch2["none"] = ch["none"]
    BY <1>1, <1>5, AlikeSelf DEF OthersKept
  <2> QED BY <1>1, <1>5, <1>6, <2>1, AlikeMatch
<1>8. ASSUME NEW i \in 1..Len(ch[n]) PROVE ~Owned(ch2, ch[n][i])
  <2> SUFFICES ASSUME NEW m \in Names \cup {"none"}, NEW j \in 1..Len(ch2[m]), ch2[m][j] = ch[n][i] PROVE FALSE
    BY DEF Owned
  <2>1. m # n
    BY <1>2, <1>5
  <2> QED BY <1>1, <1>5, <2>1 DEF Apart, OthersKept
<1> QED BY <1>7, <1>8, Zenon DEF ch2

-----------------------------------------------------------------------------
(* Volumes: what the steps of a call leave alone, and what only grows. *)

IsVol(v) ==
  /\ DOMAIN v = {"card", "protect", "mounted", "winsect", "win", "wflag", "free_clust", "last_clust", "fsi_flag",
                 "left", "gone", "hit", "stretched", "lost", "res", "val", "dj"}
  /\ v.left \in Int

(* The same window over the same card. *)
Core(v, w) ==
  /\ w.card = v.card /\ w.winsect = v.winsect /\ w.win = v.win
  /\ (w.wflag <=> v.wflag)

(* The card is gone: nothing more gets to it. *)
Dead(v) == v.hit /\ v.gone /\ v.left = 0

Later(v, w) ==
  /\ IsVol(w)
  /\ (w.mounted <=> v.mounted) /\ (w.gone <=> v.gone)
  /\ v.hit => w.hit
  /\ v.stretched => w.stretched
  /\ v.lost => w.lost
  /\ v.left < 0 => w.left < 0 /\ (w.hit => v.hit)
  /\ Dead(v) => Dead(w) /\ w.card = v.card
  /\ w.hit /\ ~v.hit /\ v.gone => w.left = 0

LEMMA LaterSelf ==
  ASSUME NEW v, IsVol(v)
  PROVE  Later(v, v)
BY DEF Later

LEMMA LaterTrans ==
  ASSUME NEW v, NEW w, NEW u, Later(v, w), Later(w, u)
  PROVE  Later(v, u)
BY DEF Later, Dead

(* The place in the table and what is known of it are the same, too. *)
Still(v, w) == Later(v, w) /\ (w.stretched <=> v.stretched) /\ w.dj = v.dj

LEMMA StillTrans ==
  ASSUME NEW v, NEW w, NEW u, Still(v, w), Still(w, u)
  PROVE  Still(v, u)
BY LaterTrans DEF Still

LEMMA CoreTrans ==
  ASSUME NEW v, NEW w, NEW u, Core(v, w), Core(w, u)
  PROVE  Core(v, u)
BY DEF Core

(* A result is set. *)
LEMMA Results ==
  ASSUME NEW v, IsVol(v), NEW r
  PROVE  /\ Core(v, Ok(v)) /\ Still(v, Ok(v)) /\ Ok(v).res = "OK" /\ Ok(v).val = v.val
         /\ Core(v, Err(v, r)) /\ Still(v, Err(v, r)) /\ Err(v, r).res = r
         /\ Core(v, Val(v, r)) /\ Still(v, Val(v, r)) /\ Val(v, r).val = r /\ Val(v, r).res = v.res
BY DEF IsVol, Core, Still, Later, Dead, Ok, Err, Val

LEMMA DiskRead ==
  ASSUME NEW v, IsVol(v)
  PROVE  /\ Core(v, disk_read(v)) /\ Still(v, disk_read(v))
         /\ disk_read(v).res \in {"OK", "DISK_ERR"}
         /\ disk_read(v).res # "OK" => disk_read(v).hit
<1>1. CASE v.left = 0
  <2>1. disk_read(v) = Failed(v)
    BY <1>1 DEF disk_read
  <2>2. /\ Core(v, Failed(v)) /\ Failed(v).res = "DISK_ERR" /\ Failed(v).hit /\ Failed(v).dj = v.dj
        /\ IsVol(Failed(v)) /\ (Failed(v).mounted <=> v.mounted) /\ (Failed(v).gone <=> v.gone)
        /\ (Failed(v).stretched <=> v.stretched) /\ (v.lost => Failed(v).lost)
        /\ v.gone => Failed(v).left = 0
    BY DEF IsVol, Core, Failed
  <2>3. Later(v, Failed(v))
    BY <1>1, <2>2 DEF Later, Dead, Core
  <2> QED BY <2>1, <2>2, <2>3 DEF Still
<1>2. CASE v.left # 0
  <2>1. disk_read(v) = Made(v)
    BY <1>2 DEF disk_read
  <2>2. /\ Core(v, Made(v)) /\ Made(v).res = "OK" /\ Made(v).dj = v.dj
        /\ IsVol(Made(v)) /\ (Made(v).mounted <=> v.mounted) /\ (Made(v).gone <=> v.gone)
        /\ (Made(v).stretched <=> v.stretched) /\ (v.lost => Made(v).lost) /\ (Made(v).hit <=> v.hit)
        /\ Made(v).left = v.left - 1
    BY DEF IsVol, Core, Made
  <2>3. Later(v, Made(v))
    BY <1>2, <2>2 DEF Later, Dead, IsVol
  <2> QED BY <2>1, <2>2, <2>3 DEF Still
<1> QED BY <1>1, <1>2

LEMMA DiskWrite ==
  ASSUME NEW v, IsVol(v), NEW s, NEW x, NEW w, w = disk_write(v, s, x)
  PROVE  /\ Still(v, w) /\ w.winsect = v.winsect /\ w.win = v.win /\ (w.wflag <=> v.wflag)
         /\ w.res \in {"OK", "DISK_ERR"}
         /\ w.res = "OK" => w.card = [v.card EXCEPT ![s] = x]
         /\ w.res # "OK" => w.hit /\ w.card = v.card
<1>1. CASE v.left = 0
  <2>1. w = disk_read(v)
    BY <1>1 DEF disk_write, disk_read
  <2>2. Failed(v).res = "DISK_ERR"
    BY DEF IsVol, Failed
  <2> QED BY <1>1, <2>1, <2>2, DiskRead DEF disk_read, Core
<1>2. CASE v.left # 0
  <2>1. w = [Made(v) EXCEPT !.card[s] = x] /\ IsVol(Made(v)) /\ Made(v).card = v.card
    BY <1>2 DEF disk_write, Made, IsVol
  <2>2. /\ Made(v).res = "OK" /\ Made(v).dj = v.dj
        /\ (Made(v).mounted <=> v.mounted) /\ (Made(v).gone <=> v.gone)
        /\ (Made(v).stretched <=> v.stretched) /\ (v.lost => Made(v).lost) /\ (Made(v).hit <=> v.hit)
        /\ Made(v).left = v.left - 1 /\ Made(v).winsect = v.winsect /\ Made(v).win = v.win
        /\ (Made(v).wflag <=> v.wflag)
    BY DEF IsVol, Made
  <2> DEFINE m == Made(v)
  <2>m. m.card = v.card /\ IsVol(m) /\ w = [m EXCEPT !.card[s] = x]
    BY <2>1
  <2>n. /\ m.res = "OK" /\ m.dj = v.dj
        /\ (m.mounted <=> v.mounted) /\ (m.gone <=> v.gone)
        /\ (m.stretched <=> v.stretched) /\ (v.lost => m.lost) /\ (m.hit <=> v.hit)
        /\ m.left = v.left - 1 /\ m.winsect = v.winsect /\ m.win = v.win
        /\ (m.wflag <=> v.wflag)
    BY <2>2
  <2> HIDE DEF m
  <2>3. /\ IsVol(w) /\ w.card = [v.card EXCEPT ![s] = x]
        /\ w.res = m.res /\ w.dj = m.dj /\ w.left = m.left /\ w.winsect = m.winsect /\ w.win = m.win
    BY <2>m DEF IsVol
  <2>4. /\ (w.mounted <=> m.mounted) /\ (w.gone <=> m.gone) /\ (w.stretched <=> m.stretched) /\ (m.lost => w.lost)
        /\ (w.hit <=> m.hit) /\ (w.wflag <=> m.wflag)
    BY <2>m DEF IsVol
  <2>5. Later(v, w)
    BY <1>2, <2>n, <2>3, <2>4 DEF Later, Dead, IsVol
  <2> QED BY <2>n, <2>3, <2>4, <2>5 DEF Still
<1> QED BY <1>1, <1>2

-----------------------------------------------------------------------------
(* The window. *)

(* What is in a clean window is what the card has there. *)
True(v) ==
  /\ v.winsect # 0 => v.winsect \in DOMAIN v.card
  /\ v.winsect = 0 => ~v.wflag
  /\ v.winsect # 0 /\ ~v.wflag => v.card[v.winsect] = v.win

LEMMA FlushedFacts ==
  ASSUME NEW v, True(v)
  PROVE  /\ DOMAIN Flushed(v) = DOMAIN v.card
         /\ v.winsect # 0 => Flushed(v)[v.winsect] = v.win
         /\ \A s \in DOMAIN v.card : s # v.winsect => Flushed(v)[s] = v.card[s]
         /\ ~v.wflag => Flushed(v) = v.card
BY DEF True, Flushed

LEMMA CoreFlushed ==
  ASSUME NEW v, NEW w, Core(v, w)
  PROVE  /\ Flushed(w) = Flushed(v)
         /\ True(v) => True(w)
<1>1. CASE v.wflag
  BY <1>1 DEF Core, Flushed, True
<1>2. CASE ~v.wflag
  BY <1>2 DEF Core, Flushed, True
<1> QED BY <1>1, <1>2

(* What it is to have moved the window to s. *)
Moves(v, w, s) ==
  /\ Still(v, w) /\ True(w)
  /\ w.card = v.card \/ w.card = Flushed(v)
  /\ Flushed(w) = Flushed(v)
  /\ w.wflag => v.wflag
  /\ w.winsect \in {v.winsect, s}
  /\ w.res \in {"OK", "DISK_ERR"}
  /\ w.res # "OK" => w.hit
  /\ w.res = "OK" /\ s # 0 => w.winsect = s /\ w.win = Flushed(v)[s]
  /\ w.res = "OK" /\ s = 0 => ~w.wflag

LEMMA WindowMoves ==
  ASSUME NEW v, IsVol(v), True(v), NEW s, s = 0 \/ s \in DOMAIN v.card
  PROVE  Moves(v, move_window(v, s), s)
<1> DEFINE d == disk_write(v, v.winsect, v.win)
           u == IF v.wflag THEN IF d.res = "OK" THEN [d EXCEPT !.wflag = FALSE] ELSE d ELSE Ok(v)
           r == disk_read(u)
           l == IF r.res = "OK" THEN [r EXCEPT !.winsect = s, !.win = r.card[s]] ELSE r
           w == move_window(v, s)
<1>1. w = IF v.winsect = s THEN Ok(v)
          ELSE IF u.res = "OK" THEN IF s = 0 THEN u ELSE l ELSE u
  BY DEF move_window, OnOk
<1>2. CASE v.winsect = s
  <2>1. w = Ok(v) /\ Core(v, Ok(v)) /\ Still(v, Ok(v)) /\ Ok(v).res = "OK"
    BY <1>1, <1>2, Results
  <2> HIDE DEF w
  <2>2. True(w) /\ Flushed(w) = Flushed(v)
    BY <2>1, CoreFlushed
  <2>3. w.winsect = s /\ w.win = v.win /\ w.card = v.card /\ (w.wflag <=> v.wflag)
    BY <1>2, <2>1 DEF Core
  <2>4. s # 0 => w.win = Flushed(v)[s]
    BY <1>2, <2>3, FlushedFacts
  <2>5. s = 0 => ~w.wflag
    BY <1>2, <2>3 DEF True
  <2> QED BY <2>1, <2>2, <2>3, <2>4, <2>5 DEF Moves, w
<1>3. CASE v.winsect # s
  <2>1. /\ Still(v, u) /\ True(u) /\ Flushed(u) = Flushed(v) /\ u.winsect = v.winsect
        /\ u.card = v.card \/ u.card = Flushed(v)
        /\ u.res \in {"OK", "DISK_ERR"} /\ (u.res # "OK" => u.hit) /\ (u.wflag => v.wflag)
        /\ u.res = "OK" => ~u.wflag
    <3>1. CASE ~v.wflag
      <4>1. u = Ok(v) /\ Core(v, Ok(v)) /\ Still(v, Ok(v)) /\ Ok(v).res = "OK"
        BY <3>1, Results
      <4>2. True(Ok(v)) /\ Flushed(Ok(v)) = Flushed(v)
        BY <4>1, CoreFlushed
      <4> HIDE DEF u
      <4> QED BY <3>1, <4>1, <4>2 DEF Core
    <3>2. CASE v.wflag
      <4>1. /\ Still(v, d) /\ d.winsect = v.winsect /\ d.win = v.win /\ d.wflag
            /\ d.res \in {"OK", "DISK_ERR"}
            /\ d.res = "OK" => d.card = [v.card EXCEPT ![v.winsect] = v.win]
            /\ d.res # "OK" => d.hit /\ d.card = v.card
        <5>1. d = disk_write(v, v.winsect, v.win)
          OBVIOUS
        <5> HIDE DEF d
        <5> QED BY <3>2, <5>1, DiskWrite, SMTT(30)
      <4>2. v.winsect # 0 /\ v.winsect \in DOMAIN v.card
        BY <3>2 DEF True
      <4>3. Flushed(v) = [v.card EXCEPT ![v.winsect] = v.win]
        BY <3>2 DEF Flushed
      <4>4. CASE d.res # "OK"
        <5>1. u = d
          BY <3>2, <4>4
        <5>2. Core(v, d)
          BY <3>2, <4>1, <4>4 DEF Core
        <5> HIDE DEF u, d
        <5>3. True(d) /\ Flushed(d) = Flushed(v)
          BY <5>2, CoreFlushed
        <5> QED BY <3>2, <4>1, <4>4, <5>1, <5>3
      <4>5. CASE d.res = "OK"
        <5>1. u = [d EXCEPT !.wflag = FALSE]
          BY <3>2, <4>5
        <5> HIDE DEF u, d
        <5>2. IsVol(d)
          BY <4>1 DEF Still, Later
        <5>3. /\ IsVol(u) /\ u.card = d.card /\ u.winsect = d.winsect /\ u.win = d.win /\ u.dj = d.dj
              /\ u.left = d.left /\ u.res = d.res /\ u.wflag = FALSE
          BY <5>1, <5>2 DEF IsVol
        <5>4. /\ (u.hit <=> d.hit) /\ (u.gone <=> d.gone) /\ (u.mounted <=> d.mounted)
              /\ (u.stretched <=> d.stretched) /\ (d.lost => u.lost)
          BY <5>1, <5>2 DEF IsVol
        <5>5. Still(d, u)
          BY <5>3, <5>4 DEF Still, Later, Dead
        <5>6. Still(v, u)
          BY <4>1, <5>5, StillTrans
        <5>7. u.card = Flushed(v) /\ ~u.wflag /\ u.winsect = v.winsect /\ u.win = v.win
          BY <4>1, <4>3, <4>5, <5>3
        <5>8. Flushed(u) = Flushed(v)
          BY <5>7 DEF Flushed
        <5>9. True(u)
          BY <4>2, <4>3, <5>7 DEF True
        <5> QED BY <3>2, <4>5, <5>3, <5>6, <5>7, <5>8, <5>9
      <4> QED BY <4>4, <4>5
    <3> QED BY <3>1, <3>2
  <2>2. CASE u.res # "OK" \/ s = 0
    <3>1. w = u
      BY <1>1, <1>3, <2>2
    <3> HIDE DEF u, w
    <3> QED BY <2>1, <2>2, <3>1 DEF Moves, w
  <2>3. CASE u.res = "OK" /\ s # 0
    <3>1. w = l
      BY <1>1, <1>3, <2>3
    <3>2. /\ Core(u, r) /\ Still(u, r) /\ r.res \in {"OK", "DISK_ERR"} /\ (r.res # "OK" => r.hit)
          /\ True(r) /\ Flushed(r) = Flushed(u)
      <4>1. IsVol(u)
        BY <2>1 DEF Still, Later
      <4> HIDE DEF u
      <4> QED BY <2>1, <4>1, DiskRead, CoreFlushed
    <3>3. Still(v, r) /\ ~r.wflag /\ r.card = Flushed(v) /\ r.winsect = v.winsect
      <4>1. ~u.wflag
        BY <2>1, <2>3
      <4> HIDE DEF u, r
      <4>2. u.card = Flushed(v)
        BY <2>1, <4>1 DEF Flushed
      <4> QED BY <2>1, <3>2, <4>1, <4>2, StillTrans DEF Core
    <3> HIDE DEF u, r
    <3>4. CASE r.res # "OK"
      <4>1. w = r
        BY <3>1, <3>4
      <4> QED BY <2>1, <3>2, <3>3, <3>4, <4>1 DEF Moves, w
    <3>5. CASE r.res = "OK"
      <4>1. w = [r EXCEPT !.winsect = s, !.win = r.card[s]] /\ IsVol(r)
        BY <3>1, <3>3, <3>5 DEF Still, Later
      <4> HIDE DEF w
      <4>2. /\ IsVol(w) /\ w.card = r.card /\ w.winsect = s /\ w.win = r.card[s] /\ w.dj = r.dj
            /\ w.left = r.left /\ w.res = r.res
        BY <4>1 DEF IsVol
      <4>3. /\ (w.hit <=> r.hit) /\ (w.gone <=> r.gone) /\ (w.mounted <=> r.mounted)
            /\ (w.stretched <=> r.stretched) /\ (r.lost => w.lost) /\ (w.wflag <=> r.wflag)
        BY <4>1 DEF IsVol
      <4>4. Still(r, w)
        BY <4>2, <4>3 DEF Still, Later, Dead
      <4>5. Still(v, w)
        BY <3>3, <4>4, StillTrans
      <4>6. ~w.wflag /\ w.card = Flushed(v)
        BY <3>3, <4>2, <4>3
      <4>7. s \in DOMAIN v.card /\ DOMAIN Flushed(v) = DOMAIN v.card
        BY <2>3, FlushedFacts
      <4>8. True(w) /\ Flushed(w) = Flushed(v)
        BY <4>2, <4>6, <4>7 DEF True, Flushed
      <4> QED BY <2>3, <3>3, <3>5, <4>2, <4>5, <4>6, <4>8 DEF Moves, w
    <3> QED BY <3>4, <3>5
  <2> QED BY <2>1, <2>2, <2>3
<1> QED BY <1>2, <1>3

-----------------------------------------------------------------------------
(* A volume whose directory is in the clusters d. *)

Sane(v) == IsVol(v) /\ True(v) /\ IsCard(v.card)

(* The sectors that are moved into the window. *)
Placed(s, d) == s \in 0..(InfoSector - 1) \/ \E k \in 1..Len(d) : s = clust2sect(d[k])

(* Nothing was changed but what the window is over. *)
Reads(v, w, d) ==
  /\ Sane(w) /\ Later(v, w) /\ (w.stretched <=> v.stretched)
  /\ w.card = v.card \/ w.card = Flushed(v)
  /\ Flushed(w) = Flushed(v)
  /\ w.wflag => v.wflag
  /\ w.winsect = v.winsect \/ Placed(w.winsect, d)

LEMMA SaneFacts ==
  ASSUME NEW v, Sane(v)
  PROVE  DOMAIN v.card = 1..clust2sect(LastCluster) /\ IsCard(Flushed(v))
<1>1. IsCard(v.card)
  BY DEF Sane
<1>2. DOMAIN v.card = 1..clust2sect(LastCluster)
  BY <1>1 DEF IsCard
<1> QED BY <1>1, <1>2, CardSet, Zenon DEF Flushed

LEMMA ReadsSelf ==
  ASSUME NEW v, Sane(v), NEW d
  PROVE  Reads(v, v, d)
BY LaterSelf DEF Reads, Sane

LEMMA ReadsTrans ==
  ASSUME NEW d, NEW v, NEW w, Reads(v, w, d), NEW u, Reads(w, u, d)
  PROVE  Reads(v, u, d)
<1>1. Later(v, u)
  BY LaterTrans DEF Reads
<1> QED BY <1>1 DEF Reads

LEMMA CoreReads ==
  ASSUME NEW v, Sane(v), NEW w, Core(v, w), Later(v, w), w.stretched <=> v.stretched, NEW d
  PROVE  Reads(v, w, d)
<1>1. Flushed(w) = Flushed(v) /\ True(w)
  BY CoreFlushed DEF Sane
<1> QED BY <1>1 DEF Reads, Sane, Core, Later

LEMMA PlacedSectors ==
  ASSUME NEW d \in Seq(Clusters), NEW s, Placed(s, d)
  PROVE  s = 0 \/ s \in 1..clust2sect(LastCluster)
<1>1. \A k \in 1..Len(d) : d[k] \in Clusters
  BY LenProperties
<1>2. InfoSector \in 1..clust2sect(LastCluster) /\ clust2sect(LastCluster) \in Nat
  BY Sectors
<1>3. \A k \in 1..Len(d) : clust2sect(d[k]) \in 1..clust2sect(LastCluster)
  BY <1>1, <1>2, Sectors, SMTT(30)
<1>4. ASSUME s \in 0..(InfoSector - 1) PROVE s = 0 \/ s \in 1..clust2sect(LastCluster)
  BY <1>2, <1>4
<1> QED BY <1>3, <1>4 DEF Placed

LEMMA MoveReads ==
  ASSUME NEW v, Sane(v), NEW d, NEW s, Placed(s, d), s = 0 \/ s \in 1..clust2sect(LastCluster)
  PROVE  /\ Moves(v, move_window(v, s), s)
         /\ Reads(v, move_window(v, s), d)
<1> DEFINE w == move_window(v, s)
<1>1. Moves(v, w, s)
  BY WindowMoves, SaneFacts, Zenon DEF Sane
<1> HIDE DEF w
<1>2. IsCard(w.card)
  BY <1>1, SaneFacts DEF Moves, Sane
<1>3. Reads(v, w, d)
  BY <1>1, <1>2 DEF Moves, Reads, Still, Later, Sane
<1> QED BY <1>1, <1>3 DEF w

(* A link is read. *)
Gets(v, w, c) ==
  /\ w.dj = v.dj
  /\ w.res \in {"OK", "DISK_ERR"}
  /\ w.res = "OK" => w.val = FatOf(Flushed(v))[c] /\ w.winsect = FatSector(c) /\ w.winsect # 0
  /\ w.res # "OK" => w.val = NoValue /\ w.hit

LEMMA GetFat ==
  ASSUME NEW v, Sane(v), NEW d, NEW c \in Clusters
  PROVE  /\ Reads(v, get_fat(v, c), d)
         /\ Gets(v, get_fat(v, c), c)
<1> DEFINE s == FatSector(c)
           m == move_window(v, s)
           w == get_fat(v, c)
<1>1. s \in 1..(InfoSector - 1) /\ s \in 1..clust2sect(LastCluster) /\ s # 0
  BY Sectors
<1> HIDE DEF s
<1>2. Moves(v, m, s) /\ Reads(v, m, d)
  BY <1>1, MoveReads DEF Placed
<1>3. w = Val(m, IF m.res = "OK" THEN m.win[c] ELSE NoValue)
  BY DEF get_fat, s
<1> HIDE DEF m, w
<1>4. IsVol(m) /\ Sane(m)
  BY <1>2 DEF Reads, Sane
<1>5. /\ Core(m, w) /\ Still(m, w) /\ w.val = (IF m.res = "OK" THEN m.win[c] ELSE NoValue)
      /\ w.res = m.res
  BY <1>3, <1>4, Results
<1>6. Reads(m, w, d)
  BY <1>4, <1>5, CoreReads DEF Still
<1>7. Reads(v, w, d)
  BY <1>2, <1>6, ReadsTrans
<1>8. FatOf(Flushed(v))[c] = Flushed(v)[s][c]
  BY DEF FatOf, s
<1>9. Gets(v, w, c)
  BY <1>1, <1>2, <1>5, <1>8 DEF Gets, Moves, Still, Core, Later, s
<1> QED BY <1>7, <1>9 DEF w

(* What is in the clusters stays the same. *)
Same(v, w) == \A c \in Clusters : Flushed(w)[clust2sect(c)] = Flushed(v)[clust2sect(c)]

LEMMA SameTrans ==
  ASSUME NEW v, NEW w, NEW u, Same(v, w), Same(w, u)
  PROVE  Same(v, u)
BY DEF Same

LEMMA SameFlushed ==
  ASSUME NEW v, NEW w, Flushed(w) = Flushed(v)
  PROVE  Same(v, w)
BY DEF Same

LEMMA SameCore ==
  ASSUME NEW v, NEW w, Core(v, w)
  PROVE  Same(v, w)
BY CoreFlushed, SameFlushed

LEMMA SameLink ==
  ASSUME NEW v, NEW w, NEW c \in Clusters, NEW y, Flushed(w) = LinkSet(Flushed(v), c, y)
  PROVE  Same(v, w)
<1> SUFFICES ASSUME NEW b \in Clusters PROVE Flushed(w)[clust2sect(b)] = Flushed(v)[clust2sect(b)]
  BY DEF Same
<1>1. FatSector(c) # clust2sect(b)
  <2>1. FatSector(c) \in 1..(InfoSector - 1) /\ clust2sect(b) \in (InfoSector + 1)..clust2sect(LastCluster)
        /\ InfoSector \in Nat /\ clust2sect(LastCluster) \in Nat
    BY Sectors
  <2> QED BY <2>1
<1> QED BY <1>1 DEF LinkSet

(* A link is written. *)
Puts(v, w, c, y) ==
  /\ Sane(w) /\ Still(v, w)
  /\ w.card = v.card \/ w.card = Flushed(v)
  /\ w.winsect # 0 /\ Same(v, w)
  /\ w.res \in {"OK", "DISK_ERR"}
  /\ w.res = "OK" => Flushed(w) = LinkSet(Flushed(v), c, y) /\ w.winsect = FatSector(c)
  /\ w.res # "OK" => w.hit /\ Flushed(w) = Flushed(v) /\ w.winsect \in {v.winsect, FatSector(c)}

LEMMA PutFat ==
  ASSUME NEW v, Sane(v), v.winsect # 0, NEW c \in Clusters, NEW y
  PROVE  Puts(v, put_fat(v, c, y), c, y)
<1> DEFINE s == FatSector(c)
           m == move_window(v, s)
           w == put_fat(v, c, y)
<1>1. s \in 1..(InfoSector - 1) /\ s \in 1..clust2sect(LastCluster) /\ s # 0
  BY Sectors
<1> HIDE DEF s
<1>2. Moves(v, m, s) /\ Reads(v, m, <<>>)
  BY <1>1, MoveReads DEF Placed
<1>3. w = [m EXCEPT !.win = IF m.res = "OK" THEN [@ EXCEPT ![c] = y] ELSE @, !.wflag = TRUE]
  BY DEF put_fat, s
<1> HIDE DEF m, w
<1>4. IsVol(m) /\ True(m) /\ m.winsect # 0 /\ m.winsect \in DOMAIN m.card /\ IsCard(m.card)
  BY <1>1, <1>2 DEF Reads, Sane, Moves, True
<1>5. /\ IsVol(w) /\ w.card = m.card /\ w.winsect = m.winsect /\ w.left = m.left /\ w.res = m.res
      /\ w.dj = m.dj /\ w.wflag = TRUE
      /\ w.win = IF m.res = "OK" THEN [m.win EXCEPT ![c] = y] ELSE m.win
  BY <1>3, <1>4 DEF IsVol
<1>6. /\ (w.hit <=> m.hit) /\ (w.gone <=> m.gone) /\ (w.mounted <=> m.mounted)
      /\ (w.stretched <=> m.stretched) /\ (m.lost => w.lost)
  BY <1>3, <1>4 DEF IsVol
<1>7. Still(m, w)
  BY <1>5, <1>6 DEF Still, Later, Dead
<1>8. Still(v, w)
  BY <1>2, <1>7, StillTrans DEF Moves
<1>9. Sane(w)
  BY <1>4, <1>5 DEF Sane, True
<1>10. Flushed(w) = [m.card EXCEPT ![m.winsect] = w.win]
  BY <1>5 DEF Flushed
<1>11. ASSUME m.res = "OK"
       PROVE  Flushed(w) = LinkSet(Flushed(v), c, y) /\ w.winsect = FatSector(c)
  <2>1. m.winsect = s /\ m.win = Flushed(v)[s] /\ Flushed(m) = Flushed(v)
    BY <1>1, <1>2, <1>11 DEF Moves
  <2>2. Flushed(w) = [m.card EXCEPT ![s] = [Flushed(v)[s] EXCEPT ![c] = y]]
    BY <1>5, <1>10, <1>11, <2>1
  <2>3. m.card = Flushed(m) \/ Flushed(m) = [m.card EXCEPT ![s] = m.win]
    BY <2>1 DEF Flushed
  <2>4. Flushed(w) = [Flushed(v) EXCEPT ![s] = [Flushed(v)[s] EXCEPT ![c] = y]]
    BY <2>1, <2>2, <2>3
  <2> QED BY <1>5, <2>1, <2>4 DEF LinkSet, s
<1>12. ASSUME m.res # "OK"
       PROVE  Flushed(w) = Flushed(v) /\ w.hit /\ w.winsect \in {v.winsect, FatSector(c)}
  <2>1. Flushed(w) = Flushed(m)
    <3>1. CASE m.wflag
      BY <1>5, <1>10, <1>12, <3>1 DEF Flushed
    <3>2. CASE ~m.wflag
      <4>1. m.card[m.winsect] = m.win /\ Flushed(m) = m.card
        BY <1>4, <3>2 DEF True, Flushed
      <4>2. [m.card EXCEPT ![m.winsect] = m.win] = m.card
        BY <1>4, <4>1, CardSet
      <4> QED BY <1>5, <1>10, <1>12, <4>1, <4>2
    <3> QED BY <3>1, <3>2
  <2> QED BY <1>2, <1>5, <1>6, <1>12, <2>1 DEF Moves, s
<1>13. w.card = v.card \/ w.card = Flushed(v)
  BY <1>2, <1>5 DEF Moves
<1>14. Same(v, w)
  BY <1>11, <1>12, SameLink, SameFlushed
<1> QED BY <1>1, <1>2, <1>4, <1>5, <1>8, <1>9, <1>11, <1>12, <1>13, <1>14 DEF Puts, Moves, w

-----------------------------------------------------------------------------
(* The steps of the loops, one operator for each. *)

RemoveStep(p) ==
  LET Freed(q, f, nxt) ==
        IF f.res # "OK" THEN Stop(q, f)
        ELSE [v |-> Count(f, 1), c |-> nxt, done |-> nxt >= n_fatent]
      Free(q, g) ==
        CASE g.val = 0 -> Stop(q, Ok(g))
          [] g.val \in {1, NoValue} -> Stop(q, Err(g, ErrorOf(g.val)))
          [] OTHER -> Freed(q, put_fat(g, q.c, 0), g.val)
  IN Free(p, get_fat(p.v, p.c))

FindStep(p, scl) ==
  LET Wrapped == p.c + 1 >= n_fatent
      Look(g, ncl) ==
        CASE g.val = 0 -> [v |-> Val(g, ncl), c |-> ncl, done |-> TRUE]
          [] g.val \in {1, NoValue} -> [v |-> g, c |-> ncl, done |-> TRUE]
          [] OTHER -> [v |-> Val(g, 0), c |-> ncl, done |-> ncl = scl]
      At(q, ncl) == Look(get_fat(q.v, ncl), ncl)
  IN IF Wrapped /\ 2 > scl THEN Stop(p, Val(p.v, 0))
     ELSE At(p, IF Wrapped THEN 2 ELSE p.c + 1)

ScanStep(p, want) ==
  LET Moved(q, n) == [q EXCEPT !.v = n, !.done = n.res # "OK"]
      Look(q, m) ==
        CASE m.res # "OK" \/ Wanted(EntryAt(m, m.dj), want) -> Stop(q, m)
          [] m.res = "OK" /\ IsEnd(EntryAt(m, m.dj), want) -> Stop(q, Err(m, "NO_FILE"))
          [] OTHER -> Moved(q, dir_next(m))
  IN Look(p, move_window(p.v, clust2sect(p.v.dj.clust)))

WriteStep(p0, d) ==
  LET Cluster(p) ==
        CASE p.fp.fptr > 0 -> create_chain(p.v, p.fp.curr_clust)
          [] p.fp.fptr = 0 /\ p.fp.org_clust = 0 -> create_chain(p.v, 0)
          [] OTHER -> Val(p.v, p.fp.org_clust)
      Put(p, at, cnt) ==
        [p EXCEPT !.fp.buf = [i \in 1..SectorPieces |->
                                IF i > at /\ i <= at + cnt THEN d ELSE @[i]],
                  !.fp.dirty = TRUE, !.fp.fptr = @ + cnt,
                  !.n = @ - cnt, !.done = p.n = cnt]
      Part(p) ==
        LET at == p.fp.fptr % SectorPieces IN Put(p, at, Lesser(SectorPieces - at, p.n))
      whole == [i \in 1..SectorPieces |-> d]
      Direct(p, sect) ==
        [p EXCEPT !.fp.fptr = @ + SectorPieces,
                  !.fp.buf = IF p.fp.dsect = sect THEN whole ELSE @,
                  !.n = @ - SectorPieces, !.done = p.n = SectorPieces]
      InSector(p, sect) ==
        CASE sect = 0 -> Abort(p, "INT_ERR")
          [] sect # 0 /\ p.n >= SectorPieces ->
               OnTransfer(p, disk_write(p.v, sect, [data |-> whole]), LAMBDA r : Direct(r, sect))
          [] OTHER -> Unless(Fill(p, sect, p.fp.fptr < p.fp.fsize), Part)
      At(p, clst) ==
        CASE clst = 0 -> [p EXCEPT !.done = TRUE]
          [] clst \in {1, NoValue} -> Abort(p, ErrorOf(clst))
          [] OTHER -> OnTransfer([p EXCEPT !.fp.curr_clust = clst], FlushBuf(p.v, p.fp),
                                 LAMBDA q : InSector(Cleaned(q), clust2sect(clst)))
      Follow(p, c) == At([p EXCEPT !.v = Ok(c),
                                   !.fp.org_clust = IF p.fp.fptr = 0 THEN c.val ELSE @], c.val)
  IN IF p0.fp.fptr % SectorPieces # 0 THEN Part(p0) ELSE Follow(p0, Cluster(p0))

ReadStep(p0) ==
  LET Cluster(p) == IF p.fp.fptr = 0 THEN Val(p.v, p.fp.org_clust)
                    ELSE get_fat(p.v, p.fp.curr_clust)
      Take(p, at, cnt, from) ==
        [p EXCEPT !.got = @ \o SubSeq(from, at + 1, at + cnt), !.fp.fptr = @ + cnt,
                  !.n = @ - cnt, !.done = p.n = cnt]
      Part(p) ==
        LET at == p.fp.fptr % SectorPieces
        IN Take(p, at, Lesser(SectorPieces - at, p.n), p.fp.buf)
      Direct(p, sect) == Take(p, 0, SectorPieces,
                              IF p.fp.dirty /\ p.fp.dsect = sect THEN p.fp.buf
                              ELSE p.v.card[sect].data)
      InSector(p, sect) ==
        IF p.n >= SectorPieces THEN OnTransfer(p, disk_read(p.v), LAMBDA r : Direct(r, sect))
        ELSE OnTransfer(p, FlushBuf(p.v, p.fp),
                        LAMBDA w : Unless(Fill(Cleaned(w), sect, TRUE), Part))
      Follow(p, c) ==
        IF clust2sect(c.val) = 0 THEN Abort([p EXCEPT !.v = c], ErrorOf(c.val))
        ELSE InSector([p EXCEPT !.v = Ok(c), !.fp.curr_clust = c.val], clust2sect(c.val))
  IN IF p0.fp.fptr % SectorPieces # 0 THEN Part(p0) ELSE Follow(p0, Cluster(p0))

SeekStep(p0) ==
  LET Follow(p, c) ==
        CASE c.val \in Clusters ->
               [p EXCEPT !.v = Ok(c), !.fp.curr_clust = c.val,
                         !.fp.fptr = @ + SectorPieces, !.ofs = @ - SectorPieces]
          [] c.val = 0 /\ p.fp.write -> [p EXCEPT !.v = Ok(c), !.ofs = SectorPieces]
          [] OTHER -> Abort([p EXCEPT !.v = c], ErrorOf(c.val))
  IN IF p0.ofs <= SectorPieces THEN [p0 EXCEPT !.fp.fptr = @ + p0.ofs, !.done = TRUE]
     ELSE Follow(p0, IF p0.fp.write THEN create_chain(p0.v, p0.fp.curr_clust)
                     ELSE get_fat(p0.v, p0.fp.curr_clust))

CountStep(p0) ==
  LET Counted(p, m) ==
        IF m.res # "OK" THEN Stop(p, m)
        ELSE [v |-> m, s |-> p.s + 1, n |-> p.n + Cardinality({d \in DOMAIN m.win : m.win[d] = 0}),
              done |-> p.s = FatSector(LastCluster)]
  IN Counted(p0, move_window(p0.v, p0.s))

ListStep(p0) ==
  LET Advance(p, x, fno) ==
        CASE x.res = "OK" -> [v |-> x, list |-> Append(p.list, fno), done |-> FALSE]
          [] x.res = "NO_FILE" -> [v |-> Ok(x), list |-> Append(p.list, fno), done |-> TRUE]
          [] OTHER -> Stop(p, x)
      Item(p, r) ==
        CASE r.res = "OK" -> Advance(p, dir_next(r), get_fileinfo(r))
          [] r.res = "NO_FILE" -> Stop(p, Ok(r))
          [] OTHER -> Stop(p, r)
  IN Item(p0, dir_read(p0.v))

SdiStep(p0, dj) ==
  LET Follow(p, g) ==
        IF g.val \in Clusters THEN [v |-> Ok(g), c |-> g.val, done |-> g.val = dj.clust]
        ELSE Stop(p, Err(g, ErrorOf(g.val)))
  IN Follow(p0, get_fat(p0.v, p0.c))

StepOf(loop, a, p) ==
  CASE loop = "remove" -> RemoveStep(p)
    [] loop = "find" -> FindStep(p, a)
    [] loop = "scan" -> ScanStep(p, a)
    [] loop = "write" -> WriteStep(p, a)
    [] loop = "read" -> ReadStep(p)
    [] loop = "seek" -> SeekStep(p)
    [] loop = "count" -> CountStep(p)
    [] loop = "sdi" -> SdiStep(p, a)
    [] OTHER -> ListStep(p)

(* The steps f of a loop from s. *)
Row(f, loop, a, s, i) ==
  IF i = 0 THEN s ELSE LET p == f[i - 1] IN IF p.done THEN p ELSE StepOf(loop, a, p)

RowsOf(f, loop, a, s, n) == [i \in 0..n |-> Row(f, loop, a, s, i)]

LEMMA RowsExist ==
  ASSUME NEW loop, NEW a, NEW s, NEW n \in Nat
  PROVE  \E f : f = RowsOf(f, loop, a, s, n)
<1> DEFINE Q(i) == \E f : f = [k \in 0..i |-> Row(f, loop, a, s, k)]
           I == {i \in 0..n : Q(i)}
<1>1. 0 \in I
  <2> DEFINE g == [k \in 0..0 |-> s]
  <2>1. g = [k \in 0..0 |-> Row(g, loop, a, s, k)]
    BY DEF Row
  <2>2. Q(0)
    <3> HIDE DEF g
    <3> QED BY <2>1
  <2> QED BY <2>2
<1>2. ASSUME NEW i \in 1..n, i - 1 \in I PROVE i \in I
  <2>1. PICK f : f = [k \in 0..(i - 1) |-> Row(f, loop, a, s, k)]
    BY <1>2
  <2> DEFINE g == [k \in 0..i |-> IF k = i THEN Row(f, loop, a, s, i) ELSE f[k]]
  <2>2. ASSUME NEW k \in 0..i PROVE g[k] = Row(g, loop, a, s, k)
    <3>1. k # 0 => k - 1 \in 0..(i - 1) /\ g[k - 1] = f[k - 1]
      OBVIOUS
    <3>2. k # i => f[k] = Row(f, loop, a, s, k)
      <4>1. k # i => k \in 0..(i - 1)
        OBVIOUS
      <4> QED BY <4>1, <2>1
    <3>3. Row(f, loop, a, s, k) = Row(g, loop, a, s, k)
      BY <3>1 DEF Row
    <3>4. g[k] = Row(f, loop, a, s, k)
      BY <3>2
    <3> QED BY <3>3, <3>4
  <2>3. g = [k \in 0..i |-> Row(g, loop, a, s, k)]
    BY <2>2
  <2>4. Q(i)
    <3> HIDE DEF g
    <3> QED BY <2>3
  <2> QED BY <2>4
<1>3. 0..n \subseteq I
  <2> HIDE DEF I
  <2> QED BY <1>1, <1>2, UpTo
<1>4. Q(n)
  BY <1>3
<1>5. PICK f : f = [k \in 0..n |-> Row(f, loop, a, s, k)]
  BY <1>4
<1>6. f = RowsOf(f, loop, a, s, n)
  BY <1>5 DEF RowsOf
<1> QED BY <1>6

(* What is to be known of the steps. *)
Rows(f, loop, a, s, n) ==
  /\ f[0] = s
  /\ \A i \in 1..n : f[i] = IF f[i - 1].done THEN f[i - 1] ELSE StepOf(loop, a, f[i - 1])

LEMMA RowsAre ==
  ASSUME NEW loop, NEW a, NEW s, NEW n \in Nat, NEW f, f = RowsOf(f, loop, a, s, n)
  PROVE  Rows(f, loop, a, s, n)
<1>0. f = [i \in 0..n |-> Row(f, loop, a, s, i)]
  BY DEF RowsOf
<1>1. f[0] = s
  BY <1>0 DEF Row
<1>2. ASSUME NEW i \in 1..n
      PROVE  f[i] = IF f[i - 1].done THEN f[i - 1] ELSE StepOf(loop, a, f[i - 1])
  <2>1. i \in 0..n /\ i # 0
    OBVIOUS
  <2>2. f[i] = Row(f, loop, a, s, i)
    BY <1>0, <2>1
  <2> QED BY <2>1, <2>2 DEF Row
<1> QED BY <1>1, <1>2 DEF Rows

(* The steps of one loop. *)
FindRow(f, v, scl, i) ==
  IF i = 0 THEN [v |-> v, c |-> scl, done |-> FALSE]
  ELSE LET p == f[i - 1] IN IF p.done THEN p ELSE FindStep(p, scl)

LEMMA FindRows ==
  ASSUME NEW v, NEW scl
  PROVE  \E f : /\ Rows(f, "find", scl, [v |-> v, c |-> scl, done |-> FALSE], LastCluster)
                /\ FindFree(v, scl) = f[LastCluster].v
<1> DEFINE s == [v |-> v, c |-> scl, done |-> FALSE]
           f == CHOOSE f : f = [i \in 0..LastCluster |-> FindRow(f, v, scl, i)]
<1>1. FindFree(v, scl) = f[LastCluster].v
  BY DEF FindFree, Repeat, FindRow, FindStep
<1>2. LastCluster \in Nat
  BY VolumeAssumption
<1>3. \A p, i : FindRow(p, v, scl, i) = Row(p, "find", scl, s, i)
  BY DEF FindRow, Row, StepOf
<1>4. \A p : [i \in 0..LastCluster |-> FindRow(p, v, scl, i)] = RowsOf(p, "find", scl, s, LastCluster)
  BY <1>3, Zenon DEF RowsOf
<1>5. f = [i \in 0..LastCluster |-> FindRow(f, v, scl, i)]
  <2>1. \E p : p = RowsOf(p, "find", scl, s, LastCluster)
    BY <1>2, RowsExist
  <2> QED BY <1>4, <2>1, Zenon
<1> HIDE DEF f, s
<1>6. f = RowsOf(f, "find", scl, s, LastCluster)
  BY <1>4, <1>5, Zenon
<1>7. Rows(f, "find", scl, s, LastCluster)
  BY <1>2, <1>6, RowsAre
<1> QED BY <1>1, <1>7 DEF s

RemoveRow(f, v, start, i) ==
  IF i = 0 THEN [v |-> v, c |-> start, done |-> FALSE]
  ELSE LET p == f[i - 1] IN IF p.done THEN p ELSE RemoveStep(p)

LEMMA RemoveRows ==
  ASSUME NEW v, NEW start \in Clusters
  PROVE  \E f : /\ Rows(f, "remove", 0, [v |-> v, c |-> start, done |-> FALSE], LastCluster)
                /\ remove_chain(v, start) = f[LastCluster].v
<1> DEFINE s == [v |-> v, c |-> start, done |-> FALSE]
           f == CHOOSE f : f = [i \in 0..(LastCluster) |-> RemoveRow(f, v, start, i)]
<1>1. remove_chain(v, start) = f[LastCluster].v
  BY DEF remove_chain, Repeat, RemoveRow, RemoveStep
<1>2. LastCluster \in Nat
  BY VolumeAssumption, Sectors
<1>3. \A p, i : RemoveRow(p, v, start, i) = Row(p, "remove", 0, s, i)
  BY DEF RemoveRow, Row, StepOf
<1>4. \A p : [i \in 0..(LastCluster) |-> RemoveRow(p, v, start, i)] = RowsOf(p, "remove", 0, s, LastCluster)
  BY <1>3, Zenon DEF RowsOf
<1>5. f = [i \in 0..(LastCluster) |-> RemoveRow(f, v, start, i)]
  <2> HIDE DEF s
  <2>1. \E p : p = RowsOf(p, "remove", 0, s, LastCluster)
    BY <1>2, RowsExist
  <2> QED BY <1>4, <2>1, Zenon
<1> HIDE DEF f, s
<1>6. f = RowsOf(f, "remove", 0, s, LastCluster)
  BY <1>4, <1>5, Zenon
<1>7. Rows(f, "remove", 0, s, LastCluster)
  BY <1>2, <1>6, RowsAre
<1> QED BY <1>1, <1>7, SMTT(30) DEF s

ScanRow(f, v, want, i) ==
  IF i = 0 THEN [v |-> v, done |-> FALSE]
  ELSE LET p == f[i - 1] IN IF p.done THEN p ELSE ScanStep(p, want)

LEMMA ScanRows ==
  ASSUME NEW v, NEW want
  PROVE  \E f : /\ Rows(f, "scan", want, [v |-> v, done |-> FALSE], LastCluster * TableEntries)
                /\ Scan(v, want) = f[LastCluster * TableEntries].v
<1> DEFINE s == [v |-> v, done |-> FALSE]
           f == CHOOSE f : f = [i \in 0..(LastCluster * TableEntries) |-> ScanRow(f, v, want, i)]
<1>1. Scan(v, want) = f[LastCluster * TableEntries].v
  BY DEF Scan, Repeat, ScanRow, ScanStep
<1>2. LastCluster * TableEntries \in Nat
  BY VolumeAssumption, Sectors
<1>3. \A p, i : ScanRow(p, v, want, i) = Row(p, "scan", want, s, i)
  BY DEF ScanRow, Row, StepOf
<1>4. \A p : [i \in 0..(LastCluster * TableEntries) |-> ScanRow(p, v, want, i)] = RowsOf(p, "scan", want, s, LastCluster * TableEntries)
  BY <1>3, Zenon DEF RowsOf
<1>5. f = [i \in 0..(LastCluster * TableEntries) |-> ScanRow(f, v, want, i)]
  <2> HIDE DEF s
  <2>1. \E p : p = RowsOf(p, "scan", want, s, LastCluster * TableEntries)
    BY <1>2, RowsExist
  <2> QED BY <1>4, <2>1, Zenon
<1> HIDE DEF f, s
<1>6. f = RowsOf(f, "scan", want, s, LastCluster * TableEntries)
  BY <1>4, <1>5
<1>7. Rows(f, "scan", want, s, LastCluster * TableEntries)
  BY <1>2, <1>6, RowsAre
<1> QED BY <1>1, <1>7 DEF s

WriteRow(f, v, q, n, d, i) ==
  IF i = 0 THEN [v |-> v, fp |-> q, n |-> n, done |-> n = 0]
  ELSE LET p == f[i - 1] IN IF p.done THEN p ELSE WriteStep(p, d)

LEMMA WriteRows ==
  ASSUME NEW v, NEW q, NEW n \in Nat, NEW d
  PROVE  \E f : /\ Rows(f, "write", d, [v |-> v, fp |-> q, n |-> n, done |-> n = 0], n)
                /\ WriteLoop(v, q, n, d) = f[n]
<1> DEFINE s == [v |-> v, fp |-> q, n |-> n, done |-> n = 0]
           f == CHOOSE f : f = [i \in 0..(n) |-> WriteRow(f, v, q, n, d, i)]
<1>1. WriteLoop(v, q, n, d) = f[n]
  BY DEF WriteLoop, Repeat, WriteRow, WriteStep
<1>2. n \in Nat
  BY VolumeAssumption, Sectors
<1>3. \A p, i : WriteRow(p, v, q, n, d, i) = Row(p, "write", d, s, i)
  BY DEF WriteRow, Row, StepOf
<1>4. \A p : [i \in 0..(n) |-> WriteRow(p, v, q, n, d, i)] = RowsOf(p, "write", d, s, n)
  BY <1>3 DEF RowsOf
<1>5. f = [i \in 0..(n) |-> WriteRow(f, v, q, n, d, i)]
  <2> HIDE DEF s
  <2>1. \E p : p = RowsOf(p, "write", d, s, n)
    BY <1>2, RowsExist
  <2> QED BY <1>4, <2>1
<1> HIDE DEF f, s
<1>6. f = RowsOf(f, "write", d, s, n)
  BY <1>4, <1>5
<1>7. Rows(f, "write", d, s, n)
  BY <1>2, <1>6, RowsAre
<1> QED BY <1>1, <1>7 DEF s

ReadRow(f, v, q, n, i) ==
  IF i = 0 THEN [v |-> v, fp |-> q, n |-> n, got |-> <<>>, done |-> n = 0]
  ELSE LET p == f[i - 1] IN IF p.done THEN p ELSE ReadStep(p)

LEMMA ReadRows ==
  ASSUME NEW v, NEW q, NEW n \in Nat
  PROVE  \E f : /\ Rows(f, "read", 0, [v |-> v, fp |-> q, n |-> n, got |-> <<>>, done |-> n = 0], n)
                /\ ReadLoop(v, q, n) = f[n]
<1> DEFINE s == [v |-> v, fp |-> q, n |-> n, got |-> <<>>, done |-> n = 0]
           f == CHOOSE f : f = [i \in 0..(n) |-> ReadRow(f, v, q, n, i)]
<1>1. ReadLoop(v, q, n) = f[n]
  BY DEF ReadLoop, Repeat, ReadRow, ReadStep
<1>2. n \in Nat
  BY VolumeAssumption, Sectors
<1>3. \A p, i : ReadRow(p, v, q, n, i) = Row(p, "read", 0, s, i)
  BY DEF ReadRow, Row, StepOf
<1>4. \A p : [i \in 0..(n) |-> ReadRow(p, v, q, n, i)] = RowsOf(p, "read", 0, s, n)
  BY <1>3 DEF RowsOf
<1>5. f = [i \in 0..(n) |-> ReadRow(f, v, q, n, i)]
  <2> HIDE DEF s
  <2>1. \E p : p = RowsOf(p, "read", 0, s, n)
    BY <1>2, RowsExist
  <2> QED BY <1>4, <2>1
<1> HIDE DEF f, s
<1>6. f = RowsOf(f, "read", 0, s, n)
  BY <1>4, <1>5
<1>7. Rows(f, "read", 0, s, n)
  BY <1>2, <1>6, RowsAre
<1> QED BY <1>1, <1>7 DEF s

SeekRow(f, start, i) ==
  IF i = 0 THEN start
  ELSE LET p == f[i - 1] IN IF p.done THEN p ELSE SeekStep(p)

LEMMA SeekRows ==
  ASSUME NEW start, NEW ofs \in Nat
  PROVE  \E f : /\ Rows(f, "seek", 0, start, ofs + 1)
                /\ SeekLoop(start, ofs) = f[ofs + 1]
<1> DEFINE s == start
           f == CHOOSE f : f = [i \in 0..(ofs + 1) |-> SeekRow(f, start, i)]
<1>1. SeekLoop(start, ofs) = f[ofs + 1]
  BY DEF SeekLoop, Repeat, SeekRow, SeekStep
<1>2. ofs + 1 \in Nat
  BY VolumeAssumption, Sectors
<1>3. \A p, i : SeekRow(p, start, i) = Row(p, "seek", 0, s, i)
  BY DEF SeekRow, Row, StepOf
<1>4. \A p : [i \in 0..(ofs + 1) |-> SeekRow(p, start, i)] = RowsOf(p, "seek", 0, s, ofs + 1)
  BY <1>3 DEF RowsOf
<1>5. f = [i \in 0..(ofs + 1) |-> SeekRow(f, start, i)]
  <2> HIDE DEF s
  <2>1. \E p : p = RowsOf(p, "seek", 0, s, ofs + 1)
    BY <1>2, RowsExist
  <2> QED BY <1>4, <2>1
<1> HIDE DEF f, s
<1>6. f = RowsOf(f, "seek", 0, s, ofs + 1)
  BY <1>4, <1>5
<1>7. Rows(f, "seek", 0, s, ofs + 1)
  BY <1>2, <1>6, RowsAre
<1> QED BY <1>1, <1>7 DEF s

CountRow(f, v, i) ==
  IF i = 0 THEN [v |-> v, s |-> 1, n |-> 0, done |-> FALSE]
  ELSE LET p == f[i - 1] IN IF p.done THEN p ELSE CountStep(p)

LEMMA CountRows ==
  ASSUME NEW v0, NEW v, v = chk_mounted(v0, FALSE), v.res = "OK", ~(v.free_clust <= n_fatent - 2)
  PROVE  \E f : /\ Rows(f, "count", 0, [v |-> v, s |-> 1, n |-> 0, done |-> FALSE], InfoSector)
                /\ FreeCounted(v0) = [f[InfoSector].v EXCEPT !.free_clust = f[InfoSector].n, !.fsi_flag = TRUE]
<1> DEFINE s == [v |-> v, s |-> 1, n |-> 0, done |-> FALSE]
           f == CHOOSE f : f = [i \in 0..(InfoSector) |-> CountRow(f, v, i)]
<1>1. FreeCounted(v0) = [f[InfoSector].v EXCEPT !.free_clust = f[InfoSector].n, !.fsi_flag = TRUE]
  BY DEF FreeCounted, OnOk, Repeat, CountRow, CountStep
<1>2. InfoSector \in Nat
  BY VolumeAssumption, Sectors
<1>3. \A p, i : CountRow(p, v, i) = Row(p, "count", 0, s, i)
  BY DEF CountRow, Row, StepOf
<1>4. \A p : [i \in 0..(InfoSector) |-> CountRow(p, v, i)] = RowsOf(p, "count", 0, s, InfoSector)
  BY <1>3, Zenon DEF RowsOf
<1>5. f = [i \in 0..(InfoSector) |-> CountRow(f, v, i)]
  <2> HIDE DEF s
  <2>1. \E p : p = RowsOf(p, "count", 0, s, InfoSector)
    BY <1>2, RowsExist
  <2> QED BY <1>4, <2>1, Zenon
<1> HIDE DEF f, s
<1>6. f = RowsOf(f, "count", 0, s, InfoSector)
  BY <1>4, <1>5, Zenon
<1>7. Rows(f, "count", 0, s, InfoSector)
  BY <1>2, <1>6, RowsAre
<1> QED BY <1>1, <1>7, ZenonT(60) DEF s

ListRow(f, v, i) ==
  IF i = 0 THEN [v |-> v, list |-> <<>>, done |-> v.res # "OK"]
  ELSE LET p == f[i - 1] IN IF p.done THEN p ELSE ListStep(p)

LEMMA ListRows ==
  ASSUME NEW v0, NEW v, v = Rewound(chk_mounted(v0, FALSE))
  PROVE  \E f : /\ Rows(f, "list", 0, [v |-> v, list |-> <<>>, done |-> v.res # "OK"], LastCluster * TableEntries)
                /\ Listed(v0) = f[LastCluster * TableEntries]
<1> DEFINE s == [v |-> v, list |-> <<>>, done |-> v.res # "OK"]
           f == CHOOSE f : f = [i \in 0..(LastCluster * TableEntries) |-> ListRow(f, v, i)]
<1>1. Listed(v0) = f[LastCluster * TableEntries]
  BY DEF Listed, Repeat, ListRow, ListStep
<1>2. LastCluster * TableEntries \in Nat
  BY VolumeAssumption, Sectors
<1>3. \A p, i : ListRow(p, v, i) = Row(p, "list", 0, s, i)
  BY DEF ListRow, Row, StepOf
<1>4. \A p : [i \in 0..(LastCluster * TableEntries) |-> ListRow(p, v, i)] = RowsOf(p, "list", 0, s, LastCluster * TableEntries)
  BY <1>3 DEF RowsOf
<1>5. f = [i \in 0..(LastCluster * TableEntries) |-> ListRow(f, v, i)]
  <2> HIDE DEF s
  <2>1. \E p : p = RowsOf(p, "list", 0, s, LastCluster * TableEntries)
    BY <1>2, RowsExist
  <2> QED BY <1>4, <2>1, Zenon
<1> HIDE DEF f, s
<1>6. f = RowsOf(f, "list", 0, s, LastCluster * TableEntries)
  BY <1>4, <1>5
<1>7. Rows(f, "list", 0, s, LastCluster * TableEntries)
  BY <1>2, <1>6, RowsAre
<1> QED BY <1>1, <1>7 DEF s

SdiRow(f, v, dj, i) ==
  IF i = 0 THEN [v |-> Ok(v), c |-> dirbase, done |-> dj.clust = dirbase]
  ELSE LET p == f[i - 1] IN IF p.done THEN p ELSE SdiStep(p, dj)

LEMMA SdiRows ==
  ASSUME NEW v, NEW dj
  PROVE  \E f : /\ Rows(f, "sdi", dj, [v |-> Ok(v), c |-> dirbase, done |-> dj.clust = dirbase], LastCluster)
                /\ dir_sdi(v, dj) = f[LastCluster].v
<1> DEFINE s == [v |-> Ok(v), c |-> dirbase, done |-> dj.clust = dirbase]
           f == CHOOSE f : f = [i \in 0..(LastCluster) |-> SdiRow(f, v, dj, i)]
<1>1. dir_sdi(v, dj) = f[LastCluster].v
  BY DEF dir_sdi, Repeat, SdiRow, SdiStep
<1>2. LastCluster \in Nat
  BY VolumeAssumption, Sectors
<1>3. \A p, i : SdiRow(p, v, dj, i) = Row(p, "sdi", dj, s, i)
  BY DEF SdiRow, Row, StepOf
<1>4. \A p : [i \in 0..(LastCluster) |-> SdiRow(p, v, dj, i)] = RowsOf(p, "sdi", dj, s, LastCluster)
  BY <1>3 DEF RowsOf
<1>5. f = [i \in 0..(LastCluster) |-> SdiRow(f, v, dj, i)]
  <2> HIDE DEF s
  <2>1. \E p : p = RowsOf(p, "sdi", dj, s, LastCluster)
    BY <1>2, RowsExist
  <2> QED BY <1>4, <2>1, Zenon
<1> HIDE DEF f, s
<1>6. f = RowsOf(f, "sdi", dj, s, LastCluster)
  BY <1>4, <1>5
<1>7. Rows(f, "sdi", dj, s, LastCluster)
  BY <1>2, <1>6, RowsAre
<1> QED BY <1>1, <1>7 DEF s

-----------------------------------------------------------------------------
(* A mounted volume with the layout ch, entries of names in x being out of *)
(* date.  With g the card below the window is sound all the time, which    *)
(* may fail only if a fault came while the directory was stretched.        *)

K(card) == Sound(card) => Formatted(card)
Base(v, ch, x, g) ==
  /\ Sane(v) /\ v.mounted
  /\ Tree(Flushed(v), ch, x)
  /\ WellTyped(v.card) /\ K(v.card)
  /\ Placed(v.winsect, ch["none"])
  /\ g => x = {} /\ ((v.stretched /\ v.hit) \/ Sound(v.card))

LEMMA BaseFacts ==
  ASSUME NEW v, NEW ch, NEW x, NEW g, Base(v, ch, x, g)
  PROVE  /\ Sane(v) /\ IsVol(v) /\ WellTyped(Flushed(v)) /\ Tree(Flushed(v), ch, x)
         /\ FatOf(Flushed(v)) \in [Clusters -> Links]
         /\ Shape(FatOf(Flushed(v)), ch) /\ ch \in Layouts /\ ch["none"] \in Seq(Clusters)
BY WellTypedFacts, TreeFacts DEF Base, Sane, Tree, Shape

(* The card may be written, then. *)
LEMMA TreeK ==
  ASSUME NEW card, NEW ch, NEW x, Tree(card, ch, x)
  PROVE  WellTyped(card) /\ K(card) /\ (x = {} => Sound(card))
BY TreeOrderly, TreeSound DEF K, Tree

LEMMA BaseReads ==
  ASSUME NEW v, NEW ch, NEW x, NEW g, Base(v, ch, x, g), NEW w, Reads(v, w, ch["none"])
  PROVE  Base(w, ch, x, g)
<1>1. WellTyped(w.card) /\ K(w.card) /\ (x = {} /\ w.card = Flushed(v) => Sound(w.card))
  BY TreeK DEF Base, Reads
<1>2. Sane(w) /\ w.mounted /\ Tree(Flushed(w), ch, x) /\ Placed(w.winsect, ch["none"])
  BY DEF Base, Reads, Later
<1>3. g => x = {} /\ ((w.stretched /\ w.hit) \/ Sound(w.card))
  BY <1>1 DEF Base, Reads, Later
<1> QED BY <1>1, <1>2, <1>3 DEF Base

(* A change of flags and numbers. *)
LEMMA BaseCore ==
  ASSUME NEW v, NEW ch, NEW x, NEW g, Base(v, ch, x, g), NEW w, Core(v, w), Later(v, w)
  PROVE  Base(w, ch, x, g)
<1>1. Flushed(w) = Flushed(v) /\ True(w)
  BY CoreFlushed DEF Base, Sane
<1>2. Sane(w) /\ w.mounted /\ Tree(Flushed(w), ch, x) /\ Placed(w.winsect, ch["none"]) /\ WellTyped(w.card) /\ K(w.card)
  BY <1>1 DEF Base, Sane, Core, Later
<1>3. g => x = {} /\ ((w.stretched /\ w.hit) \/ Sound(w.card))
  BY DEF Base, Core, Later
<1> QED BY <1>2, <1>3 DEF Base

LEMMA BaseWeaker ==
  ASSUME NEW v, NEW ch, NEW x, NEW g, Base(v, ch, x, g)
  PROVE  Base(v, ch, x, FALSE)
BY DEF Base

LEMMA BasePuts ==
  ASSUME NEW v, NEW ch, NEW x, NEW g, Base(v, ch, x, g),
         NEW c \in Clusters, NEW y, NEW w, Puts(v, w, c, y)
  PROVE  /\ w.res # "OK" => Base(w, ch, x, g)
         /\ \A ch2, x2 : /\ w.res = "OK" /\ ch2["none"] = ch["none"] /\ (g => x2 = {})
                         /\ Tree(LinkSet(Flushed(v), c, y), ch2, x2)
                         => Base(w, ch2, x2, g)
<1>1. WellTyped(w.card) /\ K(w.card) /\ (x = {} /\ w.card = Flushed(v) => Sound(w.card))
  BY TreeK DEF Base, Puts
<1>2. FatSector(c) \in 0..(InfoSector - 1)
  BY Sectors
<1>3. Sane(w) /\ w.mounted
  BY DEF Puts, Still, Later, Base
<1>4. Placed(w.winsect, ch["none"])
  BY <1>2 DEF Base, Puts, Placed
<1>5. g => ((w.stretched /\ w.hit) \/ Sound(w.card))
  BY <1>1 DEF Base, Puts, Still, Later
<1>6. w.res # "OK" => Base(w, ch, x, g)
  BY <1>1, <1>3, <1>4, <1>5 DEF Base, Puts
<1>7. ASSUME NEW ch2, NEW x2, w.res = "OK", ch2["none"] = ch["none"], g => x2 = {},
             Tree(LinkSet(Flushed(v), c, y), ch2, x2)
      PROVE  Base(w, ch2, x2, g)
  BY <1>1, <1>3, <1>4, <1>5, <1>7 DEF Base, Puts
<1> QED BY <1>6, <1>7

LEMMA CountFacts ==
  ASSUME NEW v, IsVol(v), NEW d
  PROVE  Core(v, Count(v, d)) /\ Still(v, Count(v, d)) /\ Count(v, d).res = v.res /\ Count(v, d).val = v.val
<1>1. CASE v.free_clust = NoValue
  <2>1. Count(v, d) = v
    BY <1>1 DEF Count
  <2> QED BY <2>1, LaterSelf DEF Core, Still
<1>2. CASE v.free_clust # NoValue
  <2> DEFINE z == IF v.free_clust + d < 0 THEN NoValue ELSE v.free_clust + d
  <2>1. Count(v, d) = [v EXCEPT !.free_clust = z, !.fsi_flag = TRUE]
    BY <1>2 DEF Count
  <2> HIDE DEF z
  <2> QED BY <2>1 DEF IsVol, Core, Still, Later, Dead
<1> QED BY <1>1, <1>2

-----------------------------------------------------------------------------
(* FindFree. *)

FoundOk(v, w) ==
  /\ w.val \in Clusters \cup {0, 1, NoValue}
  /\ w.val \in Clusters => FatOf(Flushed(v))[w.val] = 0 /\ w.res = "OK" /\ w.winsect # 0
  /\ w.val \in {1, NoValue} /\ FatOf(Flushed(v)) \in [Clusters -> Links] => w.hit

LEMMA NoClusters == {0, 1, NoValue} \cap Clusters = {} /\ NoValue \notin Links /\ NoValue # 0 /\ NoValue # 1
BY VolumeAssumption DEF NoValue, Clusters, n_fatent, Links, LastLink

LEMMA FindStepIs ==
  ASSUME NEW p, DOMAIN p = {"v", "c", "done"}, Sane(p.v), NEW scl \in 1..LastCluster, p.c \in 1..LastCluster,
         NEW d, NEW q, q = FindStep(p, scl)
  PROVE  /\ Reads(p.v, q.v, d) /\ q.v.dj = p.v.dj
         /\ q.c \in 1..LastCluster /\ DOMAIN q = {"v", "c", "done"}
         /\ FoundOk(p.v, q.v)
<1>1. CASE p.c + 1 >= n_fatent /\ 2 > scl
  <2> DEFINE w == Val(p.v, 0)
  <2>1. q = [p EXCEPT !.v = w, !.done = TRUE]
    BY <1>1 DEF FindStep, Stop
  <2>2. Core(p.v, w) /\ Still(p.v, w) /\ w.val = 0
    BY Results DEF Sane
  <2> HIDE DEF w
  <2>3. q.v = w /\ q.c = p.c /\ DOMAIN q = {"v", "c", "done"}
    BY <2>1
  <2>4. Reads(p.v, w, d) /\ w.dj = p.v.dj
    BY <2>2, CoreReads DEF Still
  <2>5. FoundOk(p.v, w)
    BY <2>2, NoClusters DEF FoundOk
  <2> QED BY <2>3, <2>4, <2>5
<1>2. CASE ~(p.c + 1 >= n_fatent /\ 2 > scl)
  <2> DEFINE ncl == IF p.c + 1 >= n_fatent THEN 2 ELSE p.c + 1
             g == get_fat(p.v, ncl)
  <2>1. q = CASE g.val = 0 -> [v |-> Val(g, ncl), c |-> ncl, done |-> TRUE]
              [] g.val \in {1, NoValue} -> [v |-> g, c |-> ncl, done |-> TRUE]
              [] OTHER -> [v |-> Val(g, 0), c |-> ncl, done |-> ncl = scl]
    BY <1>2 DEF FindStep
  <2>2. ncl \in Clusters /\ ncl \in 1..LastCluster
    BY VolumeAssumption DEF Clusters, n_fatent
  <2> HIDE DEF ncl
  <2>3. Reads(p.v, g, d) /\ Gets(p.v, g, ncl)
    BY <2>2, GetFat
  <2> HIDE DEF g
  <2>4. Sane(g) /\ IsVol(g)
    BY <2>3 DEF Reads, Sane
  <2>5. CASE g.val = 0
    <3> DEFINE w == Val(g, ncl)
    <3>a. q = [v |-> w, c |-> ncl, done |-> TRUE]
      BY <2>1, <2>5, NoClusters
    <3>1. q.v = w /\ q.c = ncl /\ DOMAIN q = {"v", "c", "done"}
      BY <3>a
    <3>2. Core(g, w) /\ Still(g, w) /\ w.val = ncl /\ w.res = g.res
      BY <2>4, Results
    <3> HIDE DEF w
    <3>3. Reads(g, w, d) /\ w.dj = p.v.dj /\ w.winsect = g.winsect
      BY <2>3, <2>4, <3>2, CoreReads DEF Still, Gets, Core
    <3>4. g.res = "OK" /\ FatOf(Flushed(p.v))[ncl] = 0 /\ g.winsect # 0
      BY <2>3, <2>5, NoClusters DEF Gets
    <3>5. FoundOk(p.v, w)
      BY <2>2, <3>2, <3>3, <3>4, NoClusters DEF FoundOk
    <3> QED BY <2>2, <2>3, <3>1, <3>3, <3>5, ReadsTrans
  <2>6. CASE g.val # 0 /\ g.val \in {1, NoValue}
    <3>1. q.v = g /\ q.c = ncl /\ DOMAIN q = {"v", "c", "done"}
      BY <2>1, <2>6
    <3>2. FoundOk(p.v, g)
      <4>1. FatOf(Flushed(p.v)) \in [Clusters -> Links] => g.hit
        <5>1. 1 \notin Links /\ NoValue \notin Links
          BY NoClusters, VolumeAssumption DEF Links, LastLink, n_fatent, Clusters
        <5>2. FatOf(Flushed(p.v)) \in [Clusters -> Links] => FatOf(Flushed(p.v))[ncl] \in Links
          BY <2>2
        <5> QED BY <2>3, <2>6, <5>1, <5>2 DEF Gets
      <4> QED BY <2>6, <4>1, NoClusters DEF FoundOk
    <3> QED BY <2>2, <2>3, <3>1, <3>2 DEF Gets
  <2>7. CASE g.val # 0 /\ g.val \notin {1, NoValue}
    <3> DEFINE w == Val(g, 0)
    <3>1. q.v = w /\ q.c = ncl /\ DOMAIN q = {"v", "c", "done"}
      BY <2>1, <2>7
    <3>2. Core(g, w) /\ Still(g, w) /\ w.val = 0
      BY <2>4, Results
    <3> HIDE DEF w
    <3>3. Reads(g, w, d) /\ w.dj = p.v.dj
      BY <2>3, <2>4, <3>2, CoreReads DEF Still, Gets
    <3>4. FoundOk(p.v, w)
      BY <3>2, NoClusters DEF FoundOk
    <3> QED BY <2>2, <2>3, <3>1, <3>3, <3>4, ReadsTrans
  <2> QED BY <2>5, <2>6, <2>7
<1> QED BY <1>1, <1>2

(* It changes nothing, and the cluster it finds is free. *)
LEMMA FindFreeFinds ==
  ASSUME NEW v, Sane(v), NEW scl \in 1..LastCluster, NEW d, NEW w, w = FindFree(v, scl)
  PROVE  Reads(v, w, d) /\ w.dj = v.dj /\ FoundOk(v, w)
<1> DEFINE s == [v |-> v, c |-> scl, done |-> FALSE]
<1>1. PICK f : Rows(f, "find", scl, s, LastCluster) /\ w = f[LastCluster].v
  BY FindRows
<1> DEFINE Good(p) == /\ DOMAIN p = {"v", "c", "done"} /\ p.c \in 1..LastCluster
                      /\ Reads(v, p.v, d) /\ p.v.dj = v.dj
           I == {i \in 0..LastCluster : Good(f[i]) /\ (i # 0 => FoundOk(v, f[i].v))}
<1>2. LastCluster \in Nat /\ LastCluster # 0
  BY VolumeAssumption
<1>3. 0 \in I
  <2>1. f[0] = s
    BY <1>1 DEF Rows
  <2>2. Good(f[0])
    BY <2>1, ReadsSelf
  <2> HIDE DEF Good
  <2> QED BY <1>2, <2>2
<1>4. ASSUME NEW i \in 1..LastCluster, i - 1 \in I PROVE i \in I
  <2> DEFINE p == f[i - 1]
             q == FindStep(p, scl)
  <2>1. f[i] = IF p.done THEN p ELSE q
    BY <1>1 DEF Rows, StepOf
  <2>2. Good(p) /\ (i - 1 # 0 => FoundOk(v, p.v))
    BY <1>4
  <2>3. CASE f[i] = q
    <3> HIDE DEF p, q
    <3>1. /\ Reads(p.v, q.v, d) /\ q.v.dj = p.v.dj
          /\ q.c \in 1..LastCluster /\ DOMAIN q = {"v", "c", "done"}
          /\ FoundOk(p.v, q.v)
      BY <2>2, FindStepIs DEF Reads, q
    <3>2. Flushed(p.v) = Flushed(v) /\ Reads(v, q.v, d)
      BY <2>2, <3>1, ReadsTrans, Zenon DEF Reads
    <3>3. FoundOk(v, q.v)
      BY <3>1, <3>2 DEF FoundOk
    <3>4. Good(q)
      BY <2>2, <3>1, <3>2
    <3> HIDE DEF Good
    <3> QED BY <2>3, <3>3, <3>4
  <2>4. CASE f[i] = p /\ i # 1
    <3> HIDE DEF p, q, Good
    <3> QED BY <2>2, <2>4
  <2>5. CASE i = 1
    <3>1. p = s
      BY <1>1, <2>5 DEF Rows
    <3>2. f[i] = q
      BY <2>1, <3>1
    <3> QED BY <2>3, <3>2
  <2> QED BY <2>1, <2>3, <2>4, <2>5
<1>5. 0..LastCluster \subseteq I
  <2> HIDE DEF I
  <2> QED BY <1>2, <1>3, <1>4, UpTo
<1> QED BY <1>1, <1>2, <1>5

-----------------------------------------------------------------------------
(* create_chain. *)

(* The card is gone for the rest of the call, and was in order then. *)
Lost(w, g) ==
  /\ Sane(w) /\ Dead(w) /\ WellTyped(w.card) /\ K(w.card)
  /\ g => (w.stretched /\ w.hit) \/ Sound(w.card)

LEMMA LostLater ==
  ASSUME NEW v, NEW g, Lost(v, g), NEW w, Later(v, w), Sane(w)
  PROVE  Lost(w, g)
BY DEF Lost, Later, Dead

LEMMA BaseLost ==
  ASSUME NEW v, NEW ch, NEW x, NEW g, Base(v, ch, x, g), Dead(v)
  PROVE  Lost(v, g)
BY DEF Lost, Base

(* If the fault is that the card is gone, it stays away. *)
Cutting(v) == v.gone /\ v.hit => v.left = 0

LEMMA CuttingLater ==
  ASSUME NEW v, Cutting(v), NEW w, Later(v, w)
  PROVE  Cutting(w) /\ (w.hit /\ w.gone => Dead(w))
BY SMTT(30) DEF Cutting, Later, Dead

(* An error was passed over, and a link given up: nothing more is said of  *)
(* the volume.                                                             *)
Astray(w) == IsVol(w) /\ w.lost /\ ~w.gone

LEMMA AstrayLater ==
  ASSUME NEW v, Astray(v), NEW w, Later(v, w)
  PROVE  Astray(w)
BY DEF Astray, Later

MarkOf(v, c) == [v EXCEPT !.lost = @ \/ FatOf(Flushed(v))[c] \in Clusters]

LEMMA MarkIs ==
  ASSUME NEW v, IsVol(v), NEW c, NEW w, w = MarkOf(v, c)
  PROVE  /\ Core(v, w) /\ Still(v, w) /\ w.res = v.res
         /\ FatOf(Flushed(v))[c] \in Clusters => w.lost
<1> DEFINE new == v.lost \/ FatOf(Flushed(v))[c] \in Clusters
<1>1. w = [v EXCEPT !.lost = new]
  BY DEF MarkOf
<1>2. (v.lost => new) /\ (FatOf(Flushed(v))[c] \in Clusters => new)
  OBVIOUS
<1> HIDE DEF new
<1>3. /\ IsVol(w) /\ w.card = v.card /\ w.winsect = v.winsect /\ w.win = v.win /\ w.left = v.left
      /\ w.res = v.res /\ w.dj = v.dj
  BY <1>1 DEF IsVol
<1>4. /\ (w.wflag <=> v.wflag) /\ (w.mounted <=> v.mounted) /\ (w.gone <=> v.gone) /\ (w.hit <=> v.hit)
      /\ (w.stretched <=> v.stretched) /\ (w.lost <=> new)
  BY <1>1 DEF IsVol
<1>5. Still(v, w)
  BY <1>2, <1>3, <1>4 DEF Still, Later, Dead
<1> QED BY <1>2, <1>3, <1>4, <1>5 DEF Core

TakenOf(l, ncl) ==
  IF l.res = "OK" THEN Val(Count([l EXCEPT !.last_clust = ncl], -1), ncl)
  ELSE Val(l, IF l.res = "DISK_ERR" THEN NoValue ELSE 1)

LinkOf(m, clst, ncl) == IF clst = 0 THEN m ELSE put_fat(m, clst, ncl)
PutOf(f, clst) ==
  LET m == put_fat(f, f.val, LastLink) IN IF m.res = "OK" THEN LinkOf(m, clst, f.val) ELSE m

TakeOf(f, clst) == IF f.val \notin Clusters THEN f ELSE TakenOf(PutOf(f, clst), f.val)
Hint(v) == IF v.last_clust \in 1..(n_fatent - 1) THEN v.last_clust ELSE 1

LEMMA CreateIs ==
  ASSUME NEW v, NEW clst
  PROVE  /\ clst = 0 => create_chain(v, clst) = TakeOf(FindFree(v, Hint(v)), 0)
         /\ clst # 0 => LET g == get_fat(v, clst)
                        IN create_chain(v, clst) =
                             CASE g.val < 2 -> Val(g, 1)
                               [] g.val \in Clusters -> g
                               [] OTHER -> TakeOf(FindFree(MarkOf(g, clst), clst), clst)
BY DEF create_chain, TakeOf, TakenOf, PutOf, LinkOf, OnOk, Hint, MarkOf

LEMMA HintIs ==
  ASSUME NEW v
  PROVE  Hint(v) \in 1..LastCluster
BY VolumeAssumption DEF Hint, n_fatent

LEMMA TakenFacts ==
  ASSUME NEW l, IsVol(l), NEW ncl, NEW w, w = TakenOf(l, ncl)
  PROVE  /\ Core(l, w) /\ Still(l, w) /\ w.res = l.res
         /\ l.res = "OK" => w.val = ncl
         /\ l.res # "OK" => w.val \in {1, NoValue}
<1>1. CASE l.res = "OK"
  <2> DEFINE m == [l EXCEPT !.last_clust = ncl]
             k == Count(m, -1)
  <2>1. w = Val(k, ncl)
    BY <1>1 DEF TakenOf
  <2>2. IsVol(m) /\ Core(l, m) /\ Still(l, m) /\ m.res = l.res
    BY DEF IsVol, Core, Still, Later, Dead
  <2> HIDE DEF m
  <2>3. Core(m, k) /\ Still(m, k) /\ k.res = m.res
    BY <2>2, CountFacts
  <2> HIDE DEF k
  <2>4. IsVol(k)
    BY <2>3 DEF Still, Later
  <2>5. Core(k, w) /\ Still(k, w) /\ w.val = ncl /\ w.res = k.res
    BY <2>1, <2>4, Results
  <2> QED BY <1>1, <2>2, <2>3, <2>5, CoreTrans, StillTrans
<1>2. CASE l.res # "OK"
  <2>1. w = Val(l, IF l.res = "DISK_ERR" THEN NoValue ELSE 1)
    BY <1>2 DEF TakenOf
  <2> QED BY <1>2, <2>1, Results
<1> QED BY <1>1, <1>2

(* Whatever the volume, nothing else becomes of it. *)
LEMMA TakeRaw ==
  ASSUME NEW f, Sane(f), f.val \in Clusters => f.winsect # 0, f.val \in Clusters \cup {0, 1, NoValue},
         NEW clst \in Clusters \cup {0}, NEW w, w = TakeOf(f, clst)
  PROVE  Sane(w) /\ Still(f, w) /\ Same(f, w) /\ w.val \in Clusters \cup {0, 1, NoValue}
<1>1. CASE f.val \notin Clusters
  <2>1. w = f
    BY <1>1 DEF TakeOf
  <2> QED BY <1>1, <2>1, LaterSelf, SameFlushed DEF Still, Sane
<1>2. CASE f.val \in Clusters
  <2> DEFINE m == put_fat(f, f.val, LastLink)
             l == PutOf(f, clst)
  <2>1. w = TakenOf(l, f.val) /\ l = IF m.res = "OK" THEN LinkOf(m, clst, f.val) ELSE m
    BY <1>2 DEF TakeOf, PutOf
  <2>2. Puts(f, m, f.val, LastLink)
    BY <1>2, PutFat
  <2> HIDE DEF m, l
  <2>3. Sane(m) /\ Still(f, m) /\ m.winsect # 0 /\ Same(f, m)
    BY <2>2 DEF Puts
  <2>4. Sane(l) /\ Still(f, l) /\ Same(f, l)
    <3>1. CASE m.res # "OK" \/ clst = 0
      BY <2>1, <2>3, <3>1 DEF LinkOf
    <3>2. CASE m.res = "OK" /\ clst # 0
      <4>1. l = put_fat(m, clst, f.val)
        BY <2>1, <3>2 DEF LinkOf
      <4>2. Puts(m, l, clst, f.val)
        BY <2>3, <3>2, <4>1, PutFat
      <4> QED BY <2>3, <4>2, StillTrans, SameTrans DEF Puts
    <3> QED BY <3>1, <3>2
  <2>5. /\ Core(l, w) /\ Still(l, w)
        /\ l.res = "OK" => w.val = f.val
        /\ l.res # "OK" => w.val \in {1, NoValue}
    BY <2>1, <2>4, TakenFacts DEF Sane
  <2>6. Reads(l, w, <<>>)
    BY <2>4, <2>5, CoreReads DEF Still
  <2>7. Sane(w) /\ Still(f, w)
    BY <2>4, <2>5, <2>6, StillTrans DEF Reads
  <2>8. Same(f, w)
    BY <2>4, <2>6, SameFlushed, SameTrans DEF Reads
  <2> QED BY <1>2, <2>5, <2>7, <2>8
<1> QED BY <1>1, <1>2

(* What owns a cluster links it. *)
LEMMA OwnedLinked ==
  ASSUME NEW F \in [Clusters -> Links], NEW ch, Shape(F, ch), NEW c \in Clusters, F[c] = 0
  PROVE  ~Owned(ch, c)
<1> SUFFICES ASSUME NEW n \in Names \cup {"none"}, NEW i \in 1..Len(ch[n]), ch[n][i] = c PROVE FALSE
  BY DEF Owned
<1>1. ch \in Layouts /\ Linked(F, ch[n])
  BY DEF Shape
<1>2. PICK l \in Nat : l = Len(ch[n]) /\ \A j \in 1..l : ch[n][j] \in Clusters
  BY <1>1, LayoutFacts
<1>3. F[c] = IF i < l THEN ch[n][i + 1] ELSE LastLink
  BY <1>1, <1>2 DEF Linked
<1>4. i < l => i + 1 \in 1..l
  BY <1>2
<1>5. LastLink # 0 /\ 0 \notin Clusters
  BY VolumeAssumption, Sectors DEF LastLink, n_fatent
<1> QED BY <1>2, <1>3, <1>4, <1>5

(* The first half: the new cluster ends its chain. *)
LEMMA TakeFirst ==
  ASSUME NEW f, NEW ch, NEW x, NEW g, Base(f, ch, x, g),
         f.val \in Clusters, FatOf(Flushed(f))[f.val] = 0, f.winsect # 0,
         NEW m, m = put_fat(f, f.val, LastLink)
  PROVE  /\ Base(m, ch, x, g) /\ Still(f, m) /\ m.winsect # 0 /\ ~Owned(ch, f.val)
         /\ m.res \in {"OK", "DISK_ERR"} /\ (m.res # "OK" => m.hit)
         /\ m.res = "OK" => FatOf(Flushed(m))[f.val] = LastLink
<1>1. /\ Sane(f) /\ Tree(Flushed(f), ch, x) /\ WellTyped(Flushed(f))
      /\ FatOf(Flushed(f)) \in [Clusters -> Links] /\ Shape(FatOf(Flushed(f)), ch)
  BY BaseFacts
<1>2. ~Owned(ch, f.val)
  BY <1>1, OwnedLinked
<1>3. LastLink \in Links
  BY DEF Links
<1>4. Tree(LinkSet(Flushed(f), f.val, LastLink), ch, x)
  BY <1>1, <1>2, <1>3, LinkUnowned
<1>5. Puts(f, m, f.val, LastLink)
  BY <1>1, PutFat
<1>6. g => x = {}
  BY DEF Base
<1>7. m.res = "OK" => Base(m, ch, x, g)
  BY <1>4, <1>5, <1>6, BasePuts
<1>8. m.res # "OK" => Base(m, ch, x, g)
  BY <1>5, BasePuts
<1>9. m.res = "OK" => FatOf(Flushed(m)) = [FatOf(Flushed(f)) EXCEPT ![f.val] = LastLink]
  <2>1. FatOf(LinkSet(Flushed(f), f.val, LastLink)) = [FatOf(Flushed(f)) EXCEPT ![f.val] = LastLink]
    BY <1>1, <1>3, LinkSetFacts, Zenon
  <2>2. m.res = "OK" => Flushed(m) = LinkSet(Flushed(f), f.val, LastLink)
    BY <1>5 DEF Puts
  <2> QED BY <2>1, <2>2
<1> QED BY <1>1, <1>2, <1>5, <1>7, <1>8, <1>9, Zenon DEF Puts

(* The first cluster of a chain. *)
LEMMA CreateFirst ==
  ASSUME NEW v, NEW ch, NEW x, NEW g, Base(v, ch, x, g), NEW w, w = create_chain(v, 0)
  PROVE  /\ Base(w, ch, x, g) /\ Still(v, w) /\ Same(v, w)
         /\ w.val \in Clusters \cup {0, 1, NoValue}
         /\ w.val \in Clusters => ~Owned(ch, w.val) /\ FatOf(Flushed(w))[w.val] = LastLink
         /\ w.val \in {1, NoValue} => w.hit
<1> DEFINE f == FindFree(v, Hint(v))
<1>1. w = TakeOf(f, 0)
  BY CreateIs
<1>2. Reads(v, f, ch["none"]) /\ f.dj = v.dj /\ FoundOk(v, f)
  BY BaseFacts, HintIs, FindFreeFinds
<1> HIDE DEF f
<1>3. Base(f, ch, x, g) /\ Sane(f) /\ Flushed(f) = Flushed(v) /\ Still(v, f)
  BY <1>2, BaseReads, BaseFacts DEF Reads, Still
<1>4. Still(f, w) /\ Same(f, w)
  BY <1>1, <1>2, <1>3, TakeRaw DEF FoundOk
<1>s. Same(v, w)
  BY <1>3, <1>4, SameFlushed, SameTrans
<1>5. CASE f.val \notin Clusters
  <2>1. w = f
    BY <1>1, <1>5 DEF TakeOf
  <2>2. w.val \in {1, NoValue} => w.hit
    <3>1. FatOf(Flushed(v)) \in [Clusters -> Links]
      BY BaseFacts
    <3> QED BY <1>2, <2>1, <3>1 DEF FoundOk
  <2> QED BY <1>2, <1>3, <1>5, <1>s, <2>1, <2>2 DEF FoundOk
<1>6. CASE f.val \in Clusters
  <2> DEFINE m == put_fat(f, f.val, LastLink)
  <2>1. w = TakenOf(m, f.val)
    BY <1>1, <1>6 DEF TakeOf, PutOf, LinkOf
  <2>a. FatOf(Flushed(f))[f.val] = 0 /\ f.winsect # 0
    BY <1>2, <1>3, <1>6 DEF FoundOk
  <2>b. m = put_fat(f, f.val, LastLink)
    OBVIOUS
  <2> HIDE DEF m
  <2>2. /\ Base(m, ch, x, g) /\ Still(f, m) /\ ~Owned(ch, f.val)
        /\ m.res = "OK" => FatOf(Flushed(m))[f.val] = LastLink
        /\ m.res # "OK" => m.hit
    BY <1>3, <1>6, <2>a, <2>b, TakeFirst
  <2>3. /\ Core(m, w) /\ Still(m, w)
        /\ m.res = "OK" => w.val = f.val
        /\ m.res # "OK" => w.val \in {1, NoValue}
    BY <2>1, <2>2, TakenFacts, BaseFacts
  <2>4. Base(w, ch, x, g) /\ Flushed(w) = Flushed(m)
    BY <2>2, <2>3, BaseCore, CoreFlushed DEF Still
  <2>5. w.val \in {1, NoValue} => w.hit
    BY <1>6, <2>2, <2>3, NoClusters DEF Still, Later
  <2> QED BY <1>3, <1>4, <1>6, <1>s, <2>2, <2>3, <2>4, <2>5, StillTrans, NoClusters
<1> QED BY <1>5, <1>6

(* The clusters of n with one more. *)
Longer(ch, n, c) == [ch EXCEPT ![n] = Append(ch[n], c)]

(* The second half: the chain is linked to it. *)
LEMMA TakeLast ==
  ASSUME NEW f, NEW ch, NEW x, NEW g, Base(f, ch, x, g), FoundOk(f, f), NEW n \in Names, ch[n] # <<>>,
         NEW w, w = TakeOf(f, ch[n][Len(ch[n])])
  PROVE  /\ Still(f, w)
         /\ w.val \in Clusters \cup {0, 1, NoValue}
         /\ w.val \in Clusters => Base(w, Longer(ch, n, w.val), x, g)
         /\ w.val \notin Clusters => Base(w, ch, x, g)
<1> DEFINE clst == ch[n][Len(ch[n])]
<1>1. clst \in Clusters /\ clst # 0 /\ Sane(f)
  BY BaseFacts, LayoutFacts, Sectors
<1>2. Still(f, w) /\ w.val \in Clusters \cup {0, 1, NoValue}
  BY <1>1, TakeRaw DEF FoundOk
<1>3. CASE f.val \notin Clusters
  BY <1>2, <1>3 DEF TakeOf
<1>4. CASE f.val \in Clusters
  <2> DEFINE m == put_fat(f, f.val, LastLink)
             l == PutOf(f, clst)
  <2>1. w = TakenOf(l, f.val) /\ l = IF m.res = "OK" THEN put_fat(m, clst, f.val) ELSE m
    BY <1>1, <1>4 DEF TakeOf, PutOf, LinkOf
  <2>a. FatOf(Flushed(f))[f.val] = 0 /\ f.winsect # 0
    BY <1>4 DEF FoundOk
  <2>b. m = put_fat(f, f.val, LastLink)
    OBVIOUS
  <2> HIDE DEF m, l
  <2>2. /\ Base(m, ch, x, g) /\ m.winsect # 0 /\ ~Owned(ch, f.val)
        /\ m.res = "OK" => FatOf(Flushed(m))[f.val] = LastLink
    BY <1>4, <2>a, <2>b, TakeFirst
  <2>3. /\ l.res = "OK" => Base(l, Longer(ch, n, f.val), x, g)
        /\ l.res # "OK" => Base(l, ch, x, g)
    <3>1. CASE m.res # "OK"
      BY <2>1, <2>2, <3>1
    <3>2. CASE m.res = "OK"
      <4>1. l = put_fat(m, clst, f.val)
        BY <2>1, <3>2
      <4> HIDE DEF clst
      <4>2. Puts(m, l, clst, f.val)
        BY <1>1, <2>2, <4>1, PutFat, BaseFacts
      <4>3. l.res # "OK" => Base(l, ch, x, g)
        BY <1>1, <2>2, <4>2, BasePuts
      <4>4. Tree(LinkSet(Flushed(m), clst, f.val), Longer(ch, n, f.val), x)
        BY <1>4, <2>2, <3>2, FileExtend, BaseFacts, Zenon DEF Longer, clst
      <4>5. Longer(ch, n, f.val)["none"] = ch["none"]
        <5>1. ch \in Layouts /\ n # "none"
          BY <2>2, BaseFacts, NamesAssumption
        <5> QED BY <5>1 DEF Layouts, Longer
      <4>6. g => x = {}
        BY DEF Base
      <4>7. l.res = "OK" => Base(l, Longer(ch, n, f.val), x, g)
        BY <1>1, <2>2, <4>2, <4>4, <4>5, <4>6, BasePuts
      <4> QED BY <4>3, <4>7
    <3> QED BY <3>1, <3>2
  <2>4. IsVol(l)
    BY <2>3, BaseFacts
  <2>5. /\ Core(l, w) /\ Still(l, w)
        /\ l.res = "OK" => w.val = f.val
        /\ l.res # "OK" => w.val \in {1, NoValue}
    BY <2>1, <2>4, TakenFacts
  <2>6. l.res = "OK" => Base(w, Longer(ch, n, w.val), x, g) /\ w.val \in Clusters
    BY <1>4, <2>3, <2>5, BaseCore DEF Still
  <2>7. l.res # "OK" => Base(w, ch, x, g) /\ w.val \notin Clusters
    BY <2>3, <2>5, BaseCore, NoClusters DEF Still
  <2> QED BY <1>2, <2>6, <2>7
<1> QED BY <1>3, <1>4

(* The link after the k-th cluster of a chain. *)
LEMMA LinkAfter ==
  ASSUME NEW F, NEW ch, Shape(F, ch), NEW n \in Names \cup {"none"}, NEW k \in 1..Len(ch[n])
  PROVE  /\ ch[n][k] \in Clusters /\ Len(ch[n]) \in Nat
         /\ k < Len(ch[n]) => F[ch[n][k]] = ch[n][k + 1] /\ k + 1 \in 1..Len(ch[n]) /\ ch[n][k + 1] \in Clusters
         /\ k = Len(ch[n]) => F[ch[n][k]] = LastLink
<1>1. ch \in Layouts /\ Linked(F, ch[n])
  BY DEF Shape
<1>2. PICK l \in Nat : l = Len(ch[n]) /\ \A j \in 1..l : ch[n][j] \in Clusters
  BY <1>1, LayoutFacts
<1>3. F[ch[n][k]] = IF k < l THEN ch[n][k + 1] ELSE LastLink
  BY <1>1, <1>2 DEF Linked
<1> QED BY <1>2, <1>3

(* The cluster after the k-th one of n, or one more. *)
Next1(v, w, ch, x, g, n, k) ==
  \/ k < Len(ch[n]) /\ w.val = ch[n][k + 1] /\ Base(w, ch, x, g)
  \/ k = Len(ch[n]) /\ w.val \in Clusters /\ Base(w, Longer(ch, n, w.val), x, g)
  \/ w.val \in {0, 1, NoValue} /\ Base(w, ch, x, g)
  \/ Lost(w, g)
  \/ Astray(w)

LEMMA CreateNext ==
  ASSUME NEW v, NEW ch, NEW x, NEW g, Base(v, ch, x, g), Cutting(v),
         NEW n \in Names, NEW k \in 1..Len(ch[n]), NEW w, w = create_chain(v, ch[n][k])
  PROVE  /\ Still(v, w) /\ Sane(w) /\ Same(v, w)
         /\ w.val \in Clusters \cup {0, 1, NoValue}
         /\ Next1(v, w, ch, x, g, n, k)
<1> DEFINE clst == ch[n][k]
           u == get_fat(v, clst)
           F == FatOf(Flushed(v))
<1>1. /\ clst \in Clusters /\ clst # 0 /\ clst \in 1..LastCluster /\ Sane(v) /\ Len(ch[n]) \in Nat
      /\ k < Len(ch[n]) => F[clst] = ch[n][k + 1] /\ ch[n][k + 1] \in Clusters
      /\ k = Len(ch[n]) => F[clst] = LastLink
  <2>1. Shape(F, ch) /\ Sane(v)
    BY BaseFacts
  <2>2. clst \in Clusters
    BY <2>1, LinkAfter
  <2>3. clst \in 1..LastCluster /\ clst # 0
    BY <2>2 DEF Clusters
  <2> QED BY <2>1, <2>2, <2>3, LinkAfter
<1>2. w = CASE u.val < 2 -> Val(u, 1)
            [] u.val \in Clusters -> u
            [] OTHER -> TakeOf(FindFree(MarkOf(u, clst), clst), clst)
  BY <1>1, CreateIs
<1>3. Reads(v, u, ch["none"]) /\ Gets(v, u, clst)
  BY <1>1, GetFat
<1> HIDE DEF u
<1>4. Base(u, ch, x, g) /\ Still(v, u) /\ Flushed(u) = Flushed(v) /\ Sane(u) /\ Cutting(u)
  BY <1>3, BaseReads, CuttingLater DEF Gets, Reads, Still
<1>5. LastLink \notin Clusters /\ ~(LastLink < 2) /\ ~(NoValue < 2) /\ \A c \in Clusters : ~(c < 2)
  BY VolumeAssumption DEF LastLink, Clusters, NoValue, n_fatent
<1>6. CASE u.res = "OK" /\ k < Len(ch[n])
  <2>1. u.val = ch[n][k + 1] /\ u.val \in Clusters
    BY <1>1, <1>3, <1>6 DEF Gets
  <2>2. w = u
    BY <1>2, <1>5, <2>1
  <2> QED BY <1>4, <1>6, <2>1, <2>2, SameFlushed DEF Next1
<1> DEFINE y == MarkOf(u, clst)
<1>y. Core(u, y) /\ Still(u, y) /\ (F[clst] \in Clusters => y.lost)
  BY <1>4, MarkIs DEF Sane
<1> HIDE DEF y
<1>z. Base(y, ch, x, g) /\ Sane(y) /\ Flushed(y) = Flushed(u)
  BY <1>4, <1>y, BaseCore, BaseFacts, CoreFlushed DEF Still
<1> DEFINE f == FindFree(y, clst)
<1>7. CASE u.res # "OK" \/ k = Len(ch[n])
  <2>1. u.val = LastLink \/ u.val = NoValue
    BY <1>1, <1>3, <1>7 DEF Gets
  <2>2. w = TakeOf(f, clst)
    BY <1>2, <1>5, <2>1, NoClusters DEF y
  <2>3. Reads(y, f, ch["none"]) /\ f.dj = y.dj /\ FoundOk(y, f)
    BY <1>1, <1>z, FindFreeFinds, Zenon
  <2> HIDE DEF f
  <2>4. Base(f, ch, x, g) /\ Sane(f) /\ Still(y, f) /\ FoundOk(f, f)
    BY <1>z, <2>3, BaseReads DEF Reads, Still, FoundOk
  <2>u. Still(u, f)
    BY <1>y, <2>4, StillTrans
  <2>5. Sane(w) /\ Still(f, w) /\ Same(f, w) /\ w.val \in Clusters \cup {0, 1, NoValue}
    BY <1>1, <2>2, <2>4, TakeRaw DEF FoundOk
  <2>6. Still(v, w) /\ Same(v, w)
    <3>1. Flushed(f) = Flushed(v)
      BY <1>4, <1>z, <2>3 DEF Reads
    <3> QED BY <1>4, <2>u, <2>5, <3>1, StillTrans, SameFlushed, SameTrans
  <2>7. CASE k = Len(ch[n])
    <3>1. ch[n] # <<>>
      BY <2>7
    <3>2. /\ w.val \in Clusters => Base(w, Longer(ch, n, w.val), x, g)
          /\ w.val \notin Clusters => Base(w, ch, x, g)
      BY <2>2, <2>4, <2>7, <3>1, TakeLast
    <3> QED BY <2>5, <2>6, <2>7, <3>2 DEF Next1
  <2>8. CASE u.res # "OK" /\ u.gone
    <3>1. Dead(u)
      BY <1>3, <1>4, <2>8, CuttingLater, LaterSelf DEF Gets, Sane
    <3>2. Lost(w, g)
      BY <1>4, <2>u, <2>5, <3>1, BaseLost, LostLater, StillTrans DEF Still
    <3> QED BY <2>5, <2>6, <3>2 DEF Next1
  <2>9. CASE k < Len(ch[n]) /\ ~u.gone
    <3>1. Astray(y)
      BY <1>1, <1>y, <1>z, <2>9 DEF Astray, Sane, Still, Later
    <3>2. Later(y, w)
      BY <2>4, <2>5, StillTrans DEF Still
    <3> QED BY <2>5, <2>6, <3>1, <3>2, AstrayLater DEF Next1
  <2> QED BY <1>1, <1>7, <2>7, <2>8, <2>9
<1> QED BY <1>1, <1>6, <1>7

-----------------------------------------------------------------------------
(* Whatever the volume: its card may hold anything, and the window. *)

LEMMA WindowCleans ==
  ASSUME NEW m, IsVol(m)
  PROVE  Still(m, [m EXCEPT !.wflag = FALSE])
BY DEF IsVol, Still, Later, Dead

LEMMA WindowLoads ==
  ASSUME NEW m, IsVol(m), NEW s, NEW y
  PROVE  Still(m, [m EXCEPT !.winsect = s, !.win = y])
BY DEF IsVol, Still, Later, Dead

LEMMA WindowSets ==
  ASSUME NEW m, IsVol(m), NEW y
  PROVE  Still(m, [m EXCEPT !.win = y, !.wflag = TRUE])
BY DEF IsVol, Still, Later, Dead

LEMMA AnyMove ==
  ASSUME NEW v, IsVol(v), NEW s
  PROVE  Still(v, move_window(v, s))
<1> DEFINE d == disk_write(v, v.winsect, v.win)
           u == IF v.wflag THEN IF d.res = "OK" THEN [d EXCEPT !.wflag = FALSE] ELSE d ELSE Ok(v)
           r == disk_read(u)
           l == IF r.res = "OK" THEN [r EXCEPT !.winsect = s, !.win = r.card[s]] ELSE r
           w == move_window(v, s)
<1>1. w = IF v.winsect = s THEN Ok(v)
          ELSE IF u.res = "OK" THEN IF s = 0 THEN u ELSE l ELSE u
  BY DEF move_window, OnOk
<1> HIDE DEF w
<1>d. d = disk_write(v, v.winsect, v.win)
  OBVIOUS
<1> HIDE DEF d
<1>a. Still(v, Ok(v))
  BY Results
<1>b. Still(v, d)
  BY <1>d, DiskWrite
<1>2. Still(v, Ok(v)) /\ Still(v, d) /\ IsVol(d)
  BY <1>a, <1>b DEF Still, Later
<1>3. Still(v, u) /\ IsVol(u)
  <2> DEFINE e == [d EXCEPT !.wflag = FALSE]
  <2>1. Still(d, e)
    BY <1>2, WindowCleans
  <2>2. u \in {d, e, Ok(v)}
    OBVIOUS
  <2> HIDE DEF u, e
  <2>3. Still(v, e)
    BY <1>2, <2>1, StillTrans
  <2> QED BY <1>2, <2>2, <2>3 DEF Still, Later
<1> HIDE DEF u
<1>4. Still(v, r) /\ IsVol(r)
  BY <1>3, DiskRead, StillTrans DEF Still, Later
<1> HIDE DEF r
<1>5. Still(v, l)
  <2> DEFINE e == [r EXCEPT !.winsect = s, !.win = r.card[s]]
  <2>1. Still(r, e)
    BY <1>4, WindowLoads, Zenon
  <2>2. l \in {r, e}
    OBVIOUS
  <2> HIDE DEF l, e
  <2> QED BY <1>4, <2>1, <2>2, StillTrans
<1> HIDE DEF l
<1> QED BY <1>1, <1>2, <1>3, <1>5 DEF w

LEMMA AnyLink ==
  ASSUME NEW v, IsVol(v), NEW c, NEW y
  PROVE  Still(v, get_fat(v, c)) /\ Still(v, put_fat(v, c, y))
<1> DEFINE m == move_window(v, FatSector(c))
           a == IF m.res = "OK" THEN m.win[c] ELSE NoValue
           b == IF m.res = "OK" THEN [m.win EXCEPT ![c] = y] ELSE m.win
<1>1. get_fat(v, c) = IF c \in Clusters THEN Val(m, a) ELSE Val(v, 1)
  BY DEF get_fat
<1>2. put_fat(v, c, y) = IF c \in Clusters THEN [m EXCEPT !.win = b, !.wflag = TRUE] ELSE Err(v, "INT_ERR")
  BY DEF put_fat
<1>3. Still(v, m) /\ IsVol(m)
  BY AnyMove DEF Still, Later
<1> HIDE DEF m, a, b
<1>4. Still(v, Val(m, a)) /\ Still(v, Val(v, 1)) /\ Still(v, Err(v, "INT_ERR"))
  BY <1>3, Results, StillTrans
<1>5. Still(v, [m EXCEPT !.win = b, !.wflag = TRUE])
  <2> DEFINE e == [m EXCEPT !.win = b, !.wflag = TRUE]
  <2>1. Still(m, e)
    BY <1>3, WindowSets, Zenon
  <2> HIDE DEF e
  <2>2. Still(v, e)
    BY <1>3, <2>1, StillTrans
  <2> QED BY <2>2 DEF e
<1> QED BY <1>1, <1>2, <1>4, <1>5

(* The steps that look for a free cluster. *)
Drifted(p, v) == DOMAIN p = {"v", "c", "done"} /\ Still(v, p.v)

LEMMA AnyFindStep ==
  ASSUME NEW v, NEW p, Drifted(p, v), NEW scl, NEW q, q = FindStep(p, scl)
  PROVE  Drifted(q, v)
<1> DEFINE ncl == IF p.c + 1 >= n_fatent THEN 2 ELSE p.c + 1
           g == get_fat(p.v, ncl)
<1>1. DOMAIN p = {"v", "c", "done"} /\ Still(v, p.v) /\ IsVol(p.v)
  BY DEF Drifted, Still, Later
<1>2. \/ q = [p EXCEPT !.v = Val(p.v, 0), !.done = TRUE]
      \/ q = [v |-> Val(g, ncl), c |-> ncl, done |-> TRUE]
      \/ q = [v |-> g, c |-> ncl, done |-> TRUE]
      \/ q = [v |-> Val(g, 0), c |-> ncl, done |-> ncl = scl]
  BY DEF FindStep, Stop
<1>3. Still(v, g) /\ IsVol(g)
  BY <1>1, AnyLink, StillTrans DEF Still, Later
<1> HIDE DEF g, ncl
<1>4. Still(v, Val(p.v, 0)) /\ Still(v, Val(g, ncl)) /\ Still(v, Val(g, 0))
  BY <1>1, <1>3, Results, StillTrans
<1>5. CASE q = [p EXCEPT !.v = Val(p.v, 0), !.done = TRUE]
  <2>1. DOMAIN q = {"v", "c", "done"} /\ q.v = Val(p.v, 0)
    BY <1>1, <1>5
  <2> QED BY <1>4, <2>1 DEF Drifted
<1>6. CASE q = [v |-> Val(g, ncl), c |-> ncl, done |-> TRUE] \/ q = [v |-> g, c |-> ncl, done |-> TRUE]
  <2>1. DOMAIN q = {"v", "c", "done"} /\ (q.v = Val(g, ncl) \/ q.v = g)
    BY <1>6
  <2> QED BY <1>3, <1>4, <2>1 DEF Drifted
<1>7. CASE q = [v |-> Val(g, 0), c |-> ncl, done |-> ncl = scl]
  <2>1. DOMAIN q = {"v", "c", "done"} /\ q.v = Val(g, 0)
    BY <1>7
  <2> QED BY <1>4, <2>1 DEF Drifted
<1> QED BY <1>2, <1>5, <1>6, <1>7

LEMMA AnyFind ==
  ASSUME NEW v, IsVol(v), NEW scl
  PROVE  Still(v, FindFree(v, scl))
<1> DEFINE s == [v |-> v, c |-> scl, done |-> FALSE]
<1>1. PICK f : Rows(f, "find", scl, s, LastCluster) /\ FindFree(v, scl) = f[LastCluster].v
  BY FindRows
<1> DEFINE I == {i \in 0..LastCluster : Drifted(f[i], v)}
<1>2. LastCluster \in Nat
  BY VolumeAssumption
<1>3. 0 \in I
  <2>1. f[0] = s /\ Still(v, v)
    BY <1>1, LaterSelf DEF Rows, Still
  <2> QED BY <1>2, <2>1 DEF Drifted
<1>4. ASSUME NEW i \in 1..LastCluster, i - 1 \in I PROVE i \in I
  <2>1. f[i] = IF f[i - 1].done THEN f[i - 1] ELSE FindStep(f[i - 1], scl)
    BY <1>1 DEF Rows, StepOf
  <2>2. Drifted(f[i - 1], v)
    BY <1>4
  <2>3. Drifted(f[i], v)
    BY <2>1, <2>2, AnyFindStep
  <2> QED BY <2>3
<1>5. 0..LastCluster \subseteq I
  <2> HIDE DEF I
  <2> QED BY <1>2, <1>3, <1>4, UpTo
<1> QED BY <1>1, <1>2, <1>5 DEF Drifted

LEMMA AnyTake ==
  ASSUME NEW f, IsVol(f), NEW clst
  PROVE  Still(f, TakeOf(f, clst))
<1> DEFINE m == put_fat(f, f.val, LastLink)
           k == put_fat(m, clst, f.val)
           l == PutOf(f, clst)
           w == TakenOf(l, f.val)
<1>1. Still(f, m) /\ IsVol(m)
  BY AnyLink DEF Still, Later
<1>2. l \in {m, k}
  BY DEF PutOf, LinkOf
<1> HIDE DEF m, l
<1>3. Still(f, k)
  BY <1>1, AnyLink, StillTrans
<1> HIDE DEF k
<1>4. Still(f, l) /\ IsVol(l)
  BY <1>1, <1>2, <1>3 DEF Still, Later
<1>5. Still(f, w)
  BY <1>4, TakenFacts, StillTrans
<1>6. Still(f, f)
  BY LaterSelf DEF Still
<1> QED BY <1>5, <1>6 DEF TakeOf, l, w

LEMMA AnyCreate ==
  ASSUME NEW v, IsVol(v), NEW clst
  PROVE  Still(v, create_chain(v, clst))
<1> DEFINE h == FindFree(v, Hint(v))
           g == get_fat(v, clst)
           y == MarkOf(g, clst)
           f == FindFree(y, clst)
<1>1. create_chain(v, clst) \in {TakeOf(h, 0), Val(g, 1), g, TakeOf(f, clst)}
  BY CreateIs
<1>2. Still(v, h) /\ IsVol(h)
  BY AnyFind DEF Still, Later
<1>3. Still(v, g) /\ IsVol(g)
  BY AnyLink DEF Still, Later
<1> HIDE DEF h, g
<1>4. Still(v, y) /\ IsVol(y)
  BY <1>3, MarkIs, StillTrans DEF Still, Later
<1> HIDE DEF y
<1>5. Still(v, f) /\ IsVol(f)
  BY <1>4, AnyFind, StillTrans DEF Still, Later
<1> HIDE DEF f
<1>6. Still(v, TakeOf(h, 0)) /\ Still(v, TakeOf(f, clst)) /\ Still(v, Val(g, 1))
  BY <1>2, <1>3, <1>5, AnyTake, Results, StillTrans
<1> QED BY <1>1, <1>3, <1>6

-----------------------------------------------------------------------------
(* remove_chain, of a chain r that nothing owns. *)

Loose(ch, r) == \A i \in 1..Len(r) : ~Owned(ch, r[i])

(* From the j-th cluster on the chain is as it was. *)
Remains(F, r, j) ==
  \A m \in j..Len(r) : F[r[m]] = IF m < Len(r) THEN r[m + 1] ELSE LastLink

Removing(p, v, ch, x, g, r) ==
  /\ DOMAIN p = {"v", "c", "done"}
  /\ Base(p.v, ch, x, g) /\ Still(v, p.v) /\ Same(v, p.v)
  /\ p.done \/ \E j \in 1..Len(r) : p.c = r[j] /\ Remains(FatOf(Flushed(p.v)), r, j)

LEMMA RemoveStepIs ==
  ASSUME NEW v, NEW ch, NEW x, NEW g, NEW r \in Seq(Clusters), Distinct(r), Loose(ch, r),
         NEW p, Removing(p, v, ch, x, g, r), ~p.done, NEW q, q = RemoveStep(p)
  PROVE  Removing(q, v, ch, x, g, r)
<1>1. PICK j \in 1..Len(r) : p.c = r[j] /\ Remains(FatOf(Flushed(p.v)), r, j)
  BY DEF Removing
<1>2. PICK l \in Nat : l = Len(r) /\ \A i \in 1..l : r[i] \in Clusters
  BY LenProperties
<1> DEFINE u == get_fat(p.v, p.c)
           F == FatOf(Flushed(p.v))
<1>3. p.c \in Clusters /\ p.c = r[j] /\ ~Owned(ch, p.c)
  BY <1>1, <1>2 DEF Loose
<1>4. /\ DOMAIN p = {"v", "c", "done"} /\ Base(p.v, ch, x, g) /\ Still(v, p.v) /\ Same(v, p.v) /\ Sane(p.v)
      /\ F \in [Clusters -> Links]
  BY BaseFacts DEF Removing
<1>5. Reads(p.v, u, ch["none"]) /\ Gets(p.v, u, p.c)
  BY <1>3, <1>4, GetFat, Zenon
<1>6. q = CASE u.val = 0 -> [p EXCEPT !.v = Ok(u), !.done = TRUE]
            [] u.val \in {1, NoValue} -> [p EXCEPT !.v = Err(u, ErrorOf(u.val)), !.done = TRUE]
            [] OTHER -> IF put_fat(u, p.c, 0).res # "OK" THEN [p EXCEPT !.v = put_fat(u, p.c, 0), !.done = TRUE]
                        ELSE [v |-> Count(put_fat(u, p.c, 0), 1), c |-> u.val, done |-> u.val >= n_fatent]
  BY DEF RemoveStep, Stop
<1> HIDE DEF u
<1>7. /\ Base(u, ch, x, g) /\ Still(v, u) /\ Same(v, u) /\ Flushed(u) = Flushed(p.v) /\ IsVol(u)
      /\ Sane(u) /\ WellTyped(Flushed(u)) /\ Tree(Flushed(u), ch, x) /\ Shape(F, ch)
  <2>1. Base(u, ch, x, g) /\ Flushed(u) = Flushed(p.v)
    BY <1>4, <1>5, BaseReads DEF Reads
  <2>2. Still(v, u)
    BY <1>4, <1>5, StillTrans DEF Reads, Gets, Still
  <2>3. Same(v, u)
    BY <1>4, <2>1, SameFlushed, SameTrans, Zenon
  <2> QED BY <2>1, <2>2, <2>3, BaseFacts
<1>8. CASE u.val = 0
  <2>1. q = [p EXCEPT !.v = Ok(u), !.done = TRUE]
    BY <1>6, <1>8, NoClusters
  <2>2. Core(u, Ok(u)) /\ Still(u, Ok(u))
    BY <1>7, Results
  <2>3. Base(Ok(u), ch, x, g) /\ Still(v, Ok(u)) /\ Same(v, Ok(u))
    BY <1>7, <2>2, BaseCore, StillTrans, SameCore, SameTrans DEF Still
  <2>4. DOMAIN q = {"v", "c", "done"} /\ q.v = Ok(u) /\ q.done = TRUE
    BY <1>4, <2>1
  <2> QED BY <2>3, <2>4 DEF Removing
<1>9. CASE u.val # 0 /\ u.val \in {1, NoValue}
  <2> DEFINE e == Err(u, ErrorOf(u.val))
  <2>1. q = [p EXCEPT !.v = e, !.done = TRUE]
    BY <1>6, <1>9
  <2>2. Core(u, e) /\ Still(u, e)
    BY <1>7, Results
  <2> HIDE DEF e
  <2>3. Base(e, ch, x, g) /\ Still(v, e) /\ Same(v, e)
    BY <1>7, <2>2, BaseCore, StillTrans, SameCore, SameTrans DEF Still
  <2>4. DOMAIN q = {"v", "c", "done"} /\ q.v = e /\ q.done = TRUE
    BY <1>4, <2>1
  <2> QED BY <2>3, <2>4 DEF Removing
<1>10. CASE u.val # 0 /\ u.val \notin {1, NoValue}
  <2> DEFINE w == put_fat(u, p.c, 0)
  <2>1. q = IF w.res # "OK" THEN [p EXCEPT !.v = w, !.done = TRUE]
            ELSE [v |-> Count(w, 1), c |-> u.val, done |-> u.val >= n_fatent]
    BY <1>6, <1>10
  <2>2. u.res = "OK" /\ u.winsect # 0 /\ u.val = F[p.c]
    BY <1>5, <1>10 DEF Gets
  <2>3. Puts(u, w, p.c, 0)
    BY <1>3, <1>7, <2>2, PutFat
  <2> HIDE DEF w
  <2>4. 0 \in Links /\ (g => x = {})
    BY <1>7 DEF Links, Base
  <2>5. Tree(LinkSet(Flushed(u), p.c, 0), ch, x)
    BY <1>3, <1>7, <2>4, LinkUnowned
  <2>6. Base(w, ch, x, g)
    BY <1>3, <1>7, <2>3, <2>4, <2>5, BasePuts DEF Puts
  <2>7. Still(v, w) /\ Same(v, w) /\ IsVol(w)
    BY <1>7, <2>3, <2>6, StillTrans, SameTrans, BaseFacts DEF Puts
  <2>8. CASE w.res # "OK"
    <3>1. q = [p EXCEPT !.v = w, !.done = TRUE]
      BY <2>1, <2>8
    <3>2. DOMAIN q = {"v", "c", "done"} /\ q.v = w /\ q.done = TRUE
      BY <1>4, <3>1
    <3> QED BY <2>6, <2>7, <3>2 DEF Removing
  <2>9. CASE w.res = "OK"
    <3> DEFINE z == Count(w, 1)
    <3>1. q = [v |-> z, c |-> u.val, done |-> u.val >= n_fatent]
      BY <2>1, <2>9
    <3>2. Core(w, z) /\ Still(w, z)
      BY <2>7, CountFacts
    <3> HIDE DEF z
    <3>3. Base(z, ch, x, g) /\ Still(v, z) /\ Same(v, z) /\ Flushed(z) = Flushed(w)
      BY <2>6, <2>7, <3>2, BaseCore, CoreFlushed, StillTrans, SameCore, SameTrans DEF Still
    <3>4. DOMAIN q = {"v", "c", "done"} /\ q.v = z /\ q.c = u.val
      BY <3>1
    <3>5. q.done = (u.val >= n_fatent)
      BY <3>1
    <3>6. u.val = IF j < l THEN r[j + 1] ELSE LastLink
      BY <1>1, <1>2, <1>3, <2>2 DEF Remains
    <3>7. CASE j = l
      <4>1. u.val >= n_fatent
        BY <3>6, <3>7, VolumeAssumption DEF LastLink, n_fatent
      <4> QED BY <3>3, <3>4, <3>5, <4>1, Zenon DEF Removing
    <3>8. CASE j < l
      <4>1. j + 1 \in 1..Len(r) /\ q.c = r[j + 1]
        BY <1>2, <3>4, <3>6, <3>8
      <4>2. FatOf(Flushed(z)) = [F EXCEPT ![p.c] = 0]
        <5>1. FatOf(LinkSet(Flushed(u), p.c, 0)) = [FatOf(Flushed(u)) EXCEPT ![p.c] = 0]
          BY <1>3, <1>7, <2>4, LinkSetFacts
        <5>2. Flushed(w) = LinkSet(Flushed(u), p.c, 0)
          BY <2>3, <2>9 DEF Puts
        <5> QED BY <1>7, <3>3, <5>1, <5>2
      <4>3. ASSUME NEW m \in (j + 1)..l
            PROVE  [F EXCEPT ![p.c] = 0][r[m]] = IF m < l THEN r[m + 1] ELSE LastLink
        <5>1. m \in j..l /\ m \in 1..l /\ j \in 1..l /\ m # j
          BY <1>2, <4>3
        <5>2. r[m] # p.c /\ r[m] \in Clusters
          BY <1>2, <1>3, <5>1 DEF Distinct
        <5>3. F[r[m]] = IF m < l THEN r[m + 1] ELSE LastLink
          BY <1>1, <1>2, <5>1 DEF Remains
        <5> QED BY <1>4, <5>2, <5>3
      <4>4. Remains([F EXCEPT ![p.c] = 0], r, j + 1)
        <5> HIDE DEF F
        <5> QED BY <1>2, <4>3 DEF Remains
      <4>5. Remains(FatOf(Flushed(z)), r, j + 1)
        BY <4>2, <4>4
      <4> QED BY <3>3, <3>4, <4>1, <4>5 DEF Removing
    <3> QED BY <1>2, <3>7, <3>8
  <2> QED BY <2>8, <2>9
<1> QED BY <1>8, <1>9, <1>10

(* The layout stays, wherever it breaks off. *)
LEMMA RemoveChain ==
  ASSUME NEW v, NEW ch, NEW x, NEW g, Base(v, ch, x, g),
         NEW r \in Seq(Clusters), r # <<>>, Linked(FatOf(Flushed(v)), r), Loose(ch, r),
         NEW w, w = remove_chain(v, r[1])
  PROVE  Base(w, ch, x, g) /\ Still(v, w) /\ Same(v, w)
<1> DEFINE s == [v |-> v, c |-> r[1], done |-> FALSE]
<1>1. PICK l \in Nat : l = Len(r) /\ l # 0 /\ \A i \in 1..l : r[i] \in Clusters
  BY LenProperties, EmptySeq
<1>2. Distinct(r) /\ r[1] \in Clusters
  BY <1>1, LinkedDistinct
<1>3. PICK f : Rows(f, "remove", 0, s, LastCluster) /\ w = f[LastCluster].v
  BY <1>2, RemoveRows
<1> DEFINE I == {i \in 0..LastCluster : Removing(f[i], v, ch, x, g, r)}
<1>4. LastCluster \in Nat
  BY VolumeAssumption
<1>5. 0 \in I
  <2>1. f[0] = s
    BY <1>3 DEF Rows
  <2>2. DOMAIN f[0] = {"v", "c", "done"} /\ f[0].v = v /\ f[0].c = r[1]
    BY <2>1
  <2>3. Remains(FatOf(Flushed(v)), r, 1) /\ 1 \in 1..Len(r)
    BY <1>1 DEF Remains, Linked
  <2>4. Base(f[0].v, ch, x, g) /\ Still(v, f[0].v)
    BY <2>2, BaseFacts, LaterSelf DEF Still
  <2>s. Same(v, f[0].v)
    BY <2>2, SameFlushed
  <2>5. Removing(f[0], v, ch, x, g, r)
    BY <2>2, <2>3, <2>4, <2>s DEF Removing
  <2> QED BY <1>4, <2>5
<1>6. ASSUME NEW i \in 1..LastCluster, i - 1 \in I PROVE i \in I
  <2> DEFINE p == f[i - 1]
  <2>1. f[i] = IF p.done THEN p ELSE RemoveStep(p)
    BY <1>3 DEF Rows, StepOf
  <2>2. Removing(p, v, ch, x, g, r)
    BY <1>6
  <2> HIDE DEF p
  <2>3. Removing(f[i], v, ch, x, g, r)
    <3>1. CASE p.done
      BY <2>1, <2>2, <3>1
    <3>2. CASE ~p.done
      BY <1>2, <2>1, <2>2, <3>2, RemoveStepIs
    <3> QED BY <3>1, <3>2
  <2> QED BY <2>3
<1>7. 0..LastCluster \subseteq I
  <2> HIDE DEF I
  <2> QED BY <1>4, <1>5, <1>6, UpTo, Zenon
<1> QED BY <1>3, <1>4, <1>7 DEF Removing

-----------------------------------------------------------------------------
(* The directory. *)

Dir(ch) == ch["none"]
DirAt(ch, dj, k) ==
  /\ k \in 1..Len(Dir(ch)) /\ dj.at \in 1..TableEntries
  /\ dj = [clust |-> Dir(ch)[k], at |-> dj.at]

Nth(v, ch, k, i) == EntryOf(Flushed(v), Dir(ch)[k], i)
Before(k, i, l, j) == k < l \/ (k = l /\ i < j)

LEMMA DirFacts ==
  ASSUME NEW v, NEW ch, NEW x, NEW g, Base(v, ch, x, g)
  PROVE  /\ Dir(ch) \in Seq(Clusters) /\ Len(Dir(ch)) \in Nat /\ Len(Dir(ch)) < LastCluster /\ 1 \in 1..Len(Dir(ch))
         /\ TableEntries \in Nat \ {0} /\ Dir(ch)[1] = dirbase
         /\ \A k \in 1..Len(Dir(ch)) :
              /\ Dir(ch)[k] \in Clusters /\ IsTable(Flushed(v), Dir(ch)[k])
              /\ Placed(clust2sect(Dir(ch)[k]), Dir(ch))
              /\ clust2sect(Dir(ch)[k]) # 0 /\ clust2sect(Dir(ch)[k]) \in 1..clust2sect(LastCluster)
              /\ \A i \in 1..TableEntries : Nth(v, ch, k, i) \in Entries
<1>1. Tree(Flushed(v), ch, x) /\ Shape(FatOf(Flushed(v)), ch)
  BY BaseFacts
<1>2. /\ Dir(ch) \in Seq(Clusters) /\ Len(Dir(ch)) \in Nat /\ 1 \in 1..Len(Dir(ch)) /\ Dir(ch)[1] = dirbase
      /\ \A k \in 1..Len(Dir(ch)) :
           /\ Dir(ch)[k] \in Clusters /\ IsTable(Flushed(v), Dir(ch)[k])
           /\ \A i \in 1..TableEntries : Nth(v, ch, k, i) \in Entries
  BY <1>1, TreeFacts DEF Dir, Nth, Shape
<1>3. Len(Dir(ch)) < LastCluster
  <2>1. \A i, j \in 1..Len(Dir(ch)) : Dir(ch)[i] = Dir(ch)[j] => i = j
    BY <1>1 DEF Shape, Apart, Dir
  <2> QED BY <1>2, <2>1, ShortEnough
<1>4. \A k \in 1..Len(Dir(ch)) :
        /\ Placed(clust2sect(Dir(ch)[k]), Dir(ch))
        /\ clust2sect(Dir(ch)[k]) # 0 /\ clust2sect(Dir(ch)[k]) \in 1..clust2sect(LastCluster)
  <2>1. InfoSector \in Nat /\ clust2sect(LastCluster) \in Nat
        /\ \A c \in Clusters : clust2sect(c) \in (InfoSector + 1)..clust2sect(LastCluster)
    BY Sectors
  <2>2. \A c \in Clusters : clust2sect(c) # 0 /\ clust2sect(c) \in 1..clust2sect(LastCluster)
    BY <2>1
  <2> QED BY <1>2, <2>2 DEF Placed
<1> QED BY <1>2, <1>3, <1>4, VolumeAssumption

(* The window is moved to where dj stands. *)
LEMMA MoveToDir ==
  ASSUME NEW v, NEW ch, NEW x, NEW g, Base(v, ch, x, g), NEW dj, NEW k, DirAt(ch, dj, k),
         NEW m, m = move_window(v, clust2sect(dj.clust))
  PROVE  /\ Reads(v, m, Dir(ch)) /\ m.dj = v.dj /\ Still(v, m)
         /\ m.res \in {"OK", "DISK_ERR"} /\ (m.res # "OK" => m.hit)
         /\ m.res = "OK" => /\ m.winsect = clust2sect(dj.clust)
                            /\ EntryAt(m, dj) = Nth(v, ch, k, dj.at)
                            /\ m.win = Flushed(v)[clust2sect(dj.clust)]
<1>1. /\ dj.clust = Dir(ch)[k] /\ Sane(v) /\ Dir(ch) \in Seq(Clusters)
      /\ Placed(clust2sect(dj.clust), Dir(ch))
      /\ clust2sect(dj.clust) # 0 /\ clust2sect(dj.clust) \in 1..clust2sect(LastCluster)
  <2>1. dj.clust = Dir(ch)[k] /\ k \in 1..Len(Dir(ch))
    BY DEF DirAt
  <2> QED BY <2>1, DirFacts, BaseFacts
<1>2. Moves(v, m, clust2sect(dj.clust)) /\ Reads(v, m, Dir(ch))
  BY <1>1, MoveReads
<1>3. m.res = "OK" => EntryAt(m, dj) = Nth(v, ch, k, dj.at)
  BY <1>1, <1>2 DEF Moves, EntryAt, Nth, EntryOf
<1> QED BY <1>1, <1>2, <1>3 DEF Moves, Still

LEMMA DirNext ==
  ASSUME NEW v, NEW ch, NEW x, NEW g, Base(v, ch, x, g), NEW k, DirAt(ch, v.dj, k), NEW w, w = dir_next(v)
  PROVE  /\ Reads(v, w, Dir(ch))
         /\ w.res \in {"OK", "NO_FILE", "DISK_ERR", "INT_ERR"}
         /\ w.res = "OK" => \/ v.dj.at < TableEntries /\ DirAt(ch, w.dj, k) /\ w.dj.at = v.dj.at + 1
                            \/ v.dj.at = TableEntries /\ k + 1 \in 1..Len(Dir(ch)) /\ DirAt(ch, w.dj, k + 1) /\ w.dj.at = 1
         /\ w.res = "NO_FILE" => v.dj.at = TableEntries /\ k = Len(Dir(ch)) /\ w.dj = v.dj
<1> DEFINE c == v.dj.clust
           u == get_fat(v, c)
<1>1. /\ Sane(v) /\ IsVol(v) /\ c = Dir(ch)[k] /\ c \in Clusters /\ k \in 1..Len(Dir(ch)) /\ Len(Dir(ch)) \in Nat
      /\ v.dj.at \in 1..TableEntries /\ v.dj = [clust |-> Dir(ch)[k], at |-> v.dj.at]
      /\ TableEntries \in Nat \ {0} /\ Shape(FatOf(Flushed(v)), ch)
  BY DirFacts, BaseFacts DEF DirAt
<1>2. CASE v.dj.at < TableEntries
  <2> DEFINE o == Ok(v)
  <2>1. w = [o EXCEPT !.dj.at = @ + 1]
    BY <1>2 DEF dir_next
  <2>2. Core(v, o) /\ Still(v, o) /\ o.res = "OK" /\ o.dj = v.dj
    BY <1>1, Results DEF Still
  <2> HIDE DEF o
  <2>3. IsVol(o)
    BY <2>2 DEF Still, Later
  <2>4. /\ IsVol(w) /\ w.card = o.card /\ w.winsect = o.winsect /\ w.win = o.win /\ w.left = o.left /\ w.res = o.res
        /\ w.dj = [o.dj EXCEPT !.at = @ + 1]
    BY <2>1, <2>3 DEF IsVol
  <2>5. /\ (w.hit <=> o.hit) /\ (w.gone <=> o.gone) /\ (w.mounted <=> o.mounted)
        /\ (w.stretched <=> o.stretched) /\ (o.lost => w.lost) /\ (w.wflag <=> o.wflag)
    BY <2>1, <2>3 DEF IsVol
  <2>6. Core(o, w) /\ Later(o, w)
    BY <2>4, <2>5 DEF Core, Later, Dead
  <2>7. Core(v, w) /\ Later(v, w) /\ (w.stretched <=> v.stretched)
    BY <2>2, <2>5, <2>6, CoreTrans, LaterTrans DEF Still
  <2>8. Reads(v, w, Dir(ch))
    BY <1>1, <2>7, CoreReads
  <2>9. w.dj = [clust |-> Dir(ch)[k], at |-> v.dj.at + 1]
    BY <1>1, <2>2, <2>4
  <2>10. DirAt(ch, w.dj, k) /\ w.dj.at = v.dj.at + 1
    BY <1>1, <1>2, <2>9 DEF DirAt
  <2> QED BY <1>2, <2>2, <2>4, <2>8, <2>10
<1>3. CASE ~(v.dj.at < TableEntries)
  <2>1. v.dj.at = TableEntries
    BY <1>1, <1>3
  <2>2. w = CASE u.val <= 1 \/ u.val = NoValue -> Err(u, ErrorOf(u.val))
              [] u.val \in Clusters -> TopOf(u, u.val)
              [] OTHER -> Err(u, "NO_FILE")
    BY <1>3 DEF dir_next
  <2>3. Reads(v, u, Dir(ch)) /\ Gets(v, u, c)
    BY <1>1, GetFat
  <2> HIDE DEF u
  <2>4. IsVol(u) /\ Sane(u)
    BY <2>3 DEF Reads, Sane
  <2>5. /\ k < Len(Dir(ch)) => FatOf(Flushed(v))[c] = Dir(ch)[k + 1] /\ k + 1 \in 1..Len(Dir(ch)) /\ Dir(ch)[k + 1] \in Clusters
        /\ k = Len(Dir(ch)) => FatOf(Flushed(v))[c] = LastLink
    BY <1>1, LinkAfter DEF Dir
  <2>6. /\ LastLink \notin Clusters /\ ~(LastLink <= 1) /\ LastLink # NoValue /\ NoValue \notin Clusters
        /\ \A a \in Clusters : ~(a <= 1) /\ a # NoValue
    BY VolumeAssumption DEF LastLink, Clusters, NoValue, n_fatent
  <2>7. CASE u.res # "OK"
    <3> DEFINE r == ErrorOf(u.val)
    <3>1. w = Err(u, r) /\ r = "DISK_ERR"
      BY <2>2, <2>3, <2>6, <2>7 DEF Gets, ErrorOf
    <3> HIDE DEF r
    <3>2. Core(u, w) /\ Still(u, w) /\ w.res = r
      BY <2>4, <3>1, Results
    <3>3. Reads(v, w, Dir(ch))
      BY <2>3, <2>4, <3>2, CoreReads, ReadsTrans DEF Still
    <3> QED BY <3>1, <3>2, <3>3
  <2>8. CASE u.res = "OK" /\ k < Len(Dir(ch))
    <3> DEFINE o == Ok(u)
    <3>1. u.val = Dir(ch)[k + 1] /\ u.val \in Clusters
      BY <2>3, <2>5, <2>8 DEF Gets
    <3>2. w = [o EXCEPT !.dj = [clust |-> u.val, at |-> 1]]
      BY <2>2, <2>6, <3>1 DEF TopOf
    <3>3. Core(u, o) /\ Still(u, o) /\ o.res = "OK"
      BY <2>4, Results
    <3> HIDE DEF o
    <3>4. IsVol(o)
      BY <3>3 DEF Still, Later
    <3>5. /\ IsVol(w) /\ w.card = o.card /\ w.winsect = o.winsect /\ w.win = o.win /\ w.left = o.left /\ w.res = o.res
          /\ w.dj = [clust |-> u.val, at |-> 1]
      BY <3>2, <3>4 DEF IsVol
    <3>6. /\ (w.hit <=> o.hit) /\ (w.gone <=> o.gone) /\ (w.mounted <=> o.mounted)
          /\ (w.stretched <=> o.stretched) /\ (o.lost => w.lost) /\ (w.wflag <=> o.wflag)
      BY <3>2, <3>4 DEF IsVol
    <3>7. Core(o, w) /\ Later(o, w)
      BY <3>5, <3>6 DEF Core, Later, Dead
    <3>8. Core(u, w) /\ Later(u, w) /\ (w.stretched <=> u.stretched)
      BY <3>3, <3>6, <3>7, CoreTrans, LaterTrans DEF Still
    <3>9. Reads(v, w, Dir(ch))
      BY <2>3, <2>4, <3>8, CoreReads, ReadsTrans
    <3>10. DirAt(ch, w.dj, k + 1) /\ w.dj.at = 1
      BY <1>1, <2>5, <2>8, <3>1, <3>5 DEF DirAt
    <3> QED BY <2>1, <2>5, <2>8, <3>3, <3>5, <3>9, <3>10
  <2>9. CASE u.res = "OK" /\ k = Len(Dir(ch))
    <3>1. u.val = LastLink
      BY <2>3, <2>5, <2>9 DEF Gets
    <3>2. w = Err(u, "NO_FILE")
      BY <2>2, <2>6, <3>1
    <3>3. Core(u, w) /\ Still(u, w) /\ w.res = "NO_FILE"
      BY <2>4, <3>2, Results
    <3>4. Reads(v, w, Dir(ch))
      BY <2>3, <2>4, <3>3, CoreReads, ReadsTrans DEF Still
    <3>5. w.dj = v.dj
      BY <2>3, <3>3 DEF Still, Gets
    <3> QED BY <2>1, <2>9, <3>3, <3>4, <3>5
  <2> QED BY <1>1, <2>7, <2>8, <2>9
<1> QED BY <1>2, <1>3

(* What is wanted is not before (k, i), from where the scan started. *)
Passed(v, ch, want, k0, i0, k, i) ==
  \A l \in 1..Len(Dir(ch)), j \in 1..TableEntries :
    ~Before(l, j, k0, i0) /\ Before(l, j, k, i) =>
      ~Wanted(Nth(v, ch, l, j), want) /\ ~IsEnd(Nth(v, ch, l, j), want)

(* The result of a scan of v from (k0, i0). *)
Hits(v, w, ch, want, k0, i0) ==
  \E k \in 1..Len(Dir(ch)) :
    /\ DirAt(ch, w.dj, k) /\ ~Before(k, w.dj.at, k0, i0)
    /\ w.winsect = clust2sect(w.dj.clust) /\ EntryAt(w, w.dj) = Nth(v, ch, k, w.dj.at)
    /\ Wanted(Nth(v, ch, k, w.dj.at), want)
    /\ Passed(v, ch, want, k0, i0, k, w.dj.at)

Misses(v, w, ch, want, k0, i0) ==
  /\ \A l \in 1..Len(Dir(ch)), j \in 1..TableEntries :
       ~Before(l, j, k0, i0) => ~Wanted(Nth(v, ch, l, j), want)
  /\ want = "blank" => DirAt(ch, w.dj, Len(Dir(ch)))

Scanned(v, w, ch, want, k0, i0) ==
  /\ w.res \in {"OK", "NO_FILE", "DISK_ERR", "INT_ERR"}
  /\ w.res = "OK" => Hits(v, w, ch, want, k0, i0)
  /\ w.res = "NO_FILE" => Misses(v, w, ch, want, k0, i0)

Pos(k, i) == (k - 1) * TableEntries + i

Scanning(p, v, ch, want, k0, i0, n) ==
  /\ DOMAIN p = {"v", "done"}
  /\ Reads(v, p.v, Dir(ch))
  /\ p.done => Scanned(v, p.v, ch, want, k0, i0)
  /\ ~p.done => \E k \in 1..Len(Dir(ch)) :
       /\ DirAt(ch, p.v.dj, k) /\ ~Before(k, p.v.dj.at, k0, i0)
       /\ Passed(v, ch, want, k0, i0, k, p.v.dj.at)
       /\ Pos(k, p.v.dj.at) > n

LEMMA ScanStepIs ==
  ASSUME NEW v, NEW ch, NEW x, NEW g, Base(v, ch, x, g), NEW want \in Names \cup {"any", "blank"},
         NEW k0 \in Nat, NEW i0 \in Nat, NEW n \in Nat,
         NEW p, Scanning(p, v, ch, want, k0, i0, n), ~p.done, NEW q, q = ScanStep(p, want)
  PROVE  Scanning(q, v, ch, want, k0, i0, n + 1)
<1> DEFINE u == p.v
           m == move_window(u, clust2sect(u.dj.clust))
           e == EntryAt(m, m.dj)
           y == dir_next(m)
<1>1. PICK k \in 1..Len(Dir(ch)) :
        /\ DirAt(ch, u.dj, k) /\ ~Before(k, u.dj.at, k0, i0)
        /\ Passed(v, ch, want, k0, i0, k, u.dj.at)
        /\ Pos(k, u.dj.at) > n
  BY DEF Scanning
<1>2. DOMAIN p = {"v", "done"} /\ Reads(v, u, Dir(ch)) /\ Base(u, ch, x, g) /\ Flushed(u) = Flushed(v)
  BY BaseReads DEF Scanning, Dir, Reads
<1>3. q = CASE m.res # "OK" \/ Wanted(e, want) -> [p EXCEPT !.v = m, !.done = TRUE]
            [] m.res = "OK" /\ IsEnd(e, want) -> [p EXCEPT !.v = Err(m, "NO_FILE"), !.done = TRUE]
            [] OTHER -> [p EXCEPT !.v = y, !.done = y.res # "OK"]
  BY DEF ScanStep, Stop
<1> HIDE DEF u
<1>4. /\ Reads(u, m, Dir(ch)) /\ m.dj = u.dj
      /\ m.res \in {"OK", "DISK_ERR"}
      /\ m.res = "OK" => m.winsect = clust2sect(u.dj.clust) /\ EntryAt(m, u.dj) = Nth(u, ch, k, u.dj.at)
  BY <1>1, <1>2, MoveToDir
<1> HIDE DEF m
<1>5. Reads(v, m, Dir(ch)) /\ Base(m, ch, x, g) /\ Flushed(m) = Flushed(v)
  BY <1>2, <1>4, ReadsTrans, BaseReads DEF Dir, Reads
<1>6. m.res = "OK" => e = Nth(v, ch, k, m.dj.at)
  BY <1>2, <1>4 DEF Nth
<1>7. /\ DirAt(ch, m.dj, k) /\ ~Before(k, m.dj.at, k0, i0)
      /\ Passed(v, ch, want, k0, i0, k, m.dj.at)
      /\ Pos(k, m.dj.at) > n
  BY <1>1, <1>4
<1>8. /\ m.dj.at \in 1..TableEntries /\ TableEntries \in Nat \ {0} /\ Len(Dir(ch)) \in Nat
      /\ \A l \in 1..Len(Dir(ch)) : \A j \in 1..TableEntries : Nth(v, ch, l, j) \in Entries
      /\ IsVol(m) /\ Sane(m)
  BY <1>5, <1>7, DirFacts, BaseFacts, Zenon DEF DirAt
<1>9. CASE m.res # "OK"
  <2>1. q = [p EXCEPT !.v = m, !.done = TRUE]
    BY <1>3, <1>9
  <2>2. q.v = m /\ q.done = TRUE /\ DOMAIN q = {"v", "done"}
    BY <1>2, <2>1
  <2>3. Scanned(v, m, ch, want, k0, i0)
    BY <1>4, <1>9 DEF Scanned
  <2> QED BY <1>5, <2>2, <2>3 DEF Scanning
<1>10. CASE m.res = "OK" /\ Wanted(e, want)
  <2>0. ~IsEnd(e, want)
    <3>1. Blank.name = "blank" /\ ~(~IsBlank(Blank))
      BY DEF Blank, IsBlank
    <3>2. want \in Names => want # "blank"
      BY NamesAssumption
    <3> SUFFICES ASSUME e = Blank, want # "blank" PROVE FALSE
      BY DEF IsEnd
    <3> QED BY <1>10, <3>1, <3>2 DEF Wanted
  <2> HIDE DEF e
  <2>1. q = [p EXCEPT !.v = m, !.done = TRUE]
    BY <1>3, <1>10, <2>0
  <2> USE DEF e
  <2>2. q.v = m /\ q.done = TRUE /\ DOMAIN q = {"v", "done"}
    BY <1>2, <2>1
  <2>3. Hits(v, m, ch, want, k0, i0)
    BY <1>4, <1>6, <1>7, <1>10 DEF Hits
  <2>4. Scanned(v, m, ch, want, k0, i0)
    BY <1>10, <2>3 DEF Scanned
  <2> QED BY <1>5, <2>2, <2>4 DEF Scanning
<1>11. CASE m.res = "OK" /\ ~Wanted(e, want) /\ IsEnd(e, want)
  <2> DEFINE w == Err(m, "NO_FILE")
  <2>1. q = [p EXCEPT !.v = w, !.done = TRUE]
    BY <1>3, <1>11
  <2>2. Core(m, w) /\ Still(m, w) /\ w.res = "NO_FILE"
    BY <1>8, Results
  <2> HIDE DEF w
  <2>3. q.v = w /\ q.done = TRUE /\ DOMAIN q = {"v", "done"}
    BY <1>2, <2>1
  <2>4. Reads(v, w, Dir(ch))
    BY <1>5, <1>8, <2>2, CoreReads, ReadsTrans DEF Still
  <2>5. Nth(v, ch, k, m.dj.at) = Blank /\ want # "blank"
    BY <1>6, <1>11 DEF IsEnd
  <2>6. ASSUME NEW l \in 1..Len(Dir(ch)), NEW j \in 1..TableEntries, ~Before(l, j, k0, i0)
        PROVE  ~Wanted(Nth(v, ch, l, j), want)
    <3>1. CASE Before(l, j, k, m.dj.at)
      BY <1>7, <2>6, <3>1 DEF Passed
    <3>2. CASE ~Before(l, j, k, m.dj.at)
      <4>1. k < l \/ (k = l /\ m.dj.at < j) \/ (k = l /\ m.dj.at = j)
        BY <1>8, <3>2 DEF Before
      <4>2. InOrder(Flushed(v), Dir(ch))
        BY BaseFacts, TreeFacts DEF Dir
      <4>3. Nth(v, ch, l, j) = Blank
        BY <1>8, <2>5, <4>1, <4>2 DEF InOrder, Nth
      <4>4. Blank.name = "blank" /\ IsBlank(Blank) /\ "blank" \notin Names
        BY NamesAssumption DEF Blank, IsBlank
      <4> QED BY <2>5, <4>3, <4>4 DEF Wanted
    <3> QED BY <3>1, <3>2
  <2>7. Misses(v, w, ch, want, k0, i0)
    BY <2>5, <2>6 DEF Misses
  <2>8. Scanned(v, w, ch, want, k0, i0)
    BY <2>2, <2>7 DEF Scanned
  <2> QED BY <2>3, <2>4, <2>8 DEF Scanning
<1>12. CASE m.res = "OK" /\ ~Wanted(e, want) /\ ~IsEnd(e, want)
  <2>0. y = dir_next(m)
    OBVIOUS
  <2>1. q = [p EXCEPT !.v = y, !.done = (y.res # "OK")]
    BY <1>3, <1>12
  <2> HIDE DEF y
  <2>2. /\ Reads(m, y, Dir(ch))
        /\ y.res \in {"OK", "NO_FILE", "DISK_ERR", "INT_ERR"}
        /\ y.res = "OK" => \/ m.dj.at < TableEntries /\ DirAt(ch, y.dj, k) /\ y.dj.at = m.dj.at + 1
                           \/ m.dj.at = TableEntries /\ k + 1 \in 1..Len(Dir(ch)) /\ DirAt(ch, y.dj, k + 1) /\ y.dj.at = 1
        /\ y.res = "NO_FILE" => m.dj.at = TableEntries /\ k = Len(Dir(ch)) /\ y.dj = m.dj
    BY <1>5, <1>7, <2>0, DirNext
  <2>3. q.v = y /\ DOMAIN q = {"v", "done"}
    BY <1>2, <2>1
  <2>4. q.done = (y.res # "OK")
    BY <1>2, <2>1
  <2>5. q.done <=> y.res # "OK"
    BY <2>4, Zenon
  <2>6. Reads(v, y, Dir(ch))
    BY <1>5, <2>2, ReadsTrans
  <2>7. ASSUME NEW l \in 1..Len(Dir(ch)), NEW j \in 1..TableEntries, ~Before(l, j, k0, i0),
               Before(l, j, k, m.dj.at) \/ (l = k /\ j = m.dj.at)
        PROVE  ~Wanted(Nth(v, ch, l, j), want) /\ ~IsEnd(Nth(v, ch, l, j), want)
    BY <1>6, <1>7, <1>12, <2>7 DEF Passed
  <2>8. CASE y.res = "OK"
    <3>1. CASE m.dj.at < TableEntries /\ DirAt(ch, y.dj, k) /\ y.dj.at = m.dj.at + 1
      <4>1. \A l \in 1..Len(Dir(ch)), j \in 1..TableEntries :
              Before(l, j, k, y.dj.at) => Before(l, j, k, m.dj.at) \/ (l = k /\ j = m.dj.at)
        BY <1>8, <3>1 DEF Before
      <4>2. Passed(v, ch, want, k0, i0, k, y.dj.at)
        BY <2>7, <4>1 DEF Passed
      <4>3. ~Before(k, y.dj.at, k0, i0)
        BY <1>7, <1>8, <3>1 DEF Before
      <4>4. Pos(k, y.dj.at) > n + 1
        <5>1. PICK a \in Int : a = (k - 1) * TableEntries
          BY <1>8
        <5>2. Pos(k, m.dj.at) = a + m.dj.at /\ Pos(k, y.dj.at) = a + y.dj.at
          BY <5>1 DEF Pos
        <5> QED BY <1>7, <1>8, <3>1, <5>1, <5>2, SMTT(30)
      <4> QED BY <2>3, <2>5, <2>6, <2>8, <3>1, <4>2, <4>3, <4>4 DEF Scanning
    <3>2. CASE m.dj.at = TableEntries /\ k + 1 \in 1..Len(Dir(ch)) /\ DirAt(ch, y.dj, k + 1) /\ y.dj.at = 1
      <4>1. \A l \in 1..Len(Dir(ch)), j \in 1..TableEntries :
              Before(l, j, k + 1, 1) => Before(l, j, k, m.dj.at) \/ (l = k /\ j = m.dj.at)
        BY <1>8, <3>2 DEF Before
      <4>2. Passed(v, ch, want, k0, i0, k + 1, y.dj.at)
        BY <2>7, <3>2, <4>1 DEF Passed
      <4>3. ~Before(k + 1, y.dj.at, k0, i0)
        BY <1>7, <1>8, <3>2 DEF Before
      <4>4. Pos(k + 1, y.dj.at) > n + 1
        <5>1. PICK a \in Int : a = (k - 1) * TableEntries
          BY <1>8
        <5>2. (k + 1 - 1) * TableEntries = a + TableEntries
          BY <1>8, <5>1
        <5>3. Pos(k, m.dj.at) = a + TableEntries /\ Pos(k + 1, y.dj.at) = a + TableEntries + 1
          BY <3>2, <5>1, <5>2 DEF Pos
        <5> QED BY <1>7, <1>8, <5>1, <5>3
      <4> QED BY <2>3, <2>5, <2>6, <2>8, <3>2, <4>2, <4>3, <4>4 DEF Scanning
    <3> QED BY <2>2, <2>8, <3>1, <3>2
  <2>9. CASE y.res = "NO_FILE"
    <3>1. m.dj.at = TableEntries /\ k = Len(Dir(ch)) /\ y.dj = m.dj
      BY <2>2, <2>9
    <3>2. \A l \in 1..Len(Dir(ch)), j \in 1..TableEntries : Before(l, j, k, m.dj.at) \/ (l = k /\ j = m.dj.at)
      BY <1>8, <3>1 DEF Before
    <3>3. Misses(v, y, ch, want, k0, i0)
      BY <1>7, <2>7, <3>1, <3>2 DEF Misses
    <3>4. Scanned(v, y, ch, want, k0, i0)
      BY <2>9, <3>3 DEF Scanned
    <3> QED BY <2>3, <2>5, <2>6, <2>9, <3>4 DEF Scanning
  <2>10. CASE y.res \notin {"OK", "NO_FILE"}
    <3>1. Scanned(v, y, ch, want, k0, i0)
      BY <2>2, <2>10 DEF Scanned
    <3> QED BY <2>3, <2>5, <2>6, <2>10, <3>1 DEF Scanning
  <2> QED BY <2>8, <2>9, <2>10
<1> QED BY <1>4, <1>9, <1>10, <1>11, <1>12

LEMMA Scans ==
  ASSUME NEW v, NEW ch, NEW x, NEW g, Base(v, ch, x, g), NEW want \in Names \cup {"any", "blank"},
         NEW k0, DirAt(ch, v.dj, k0), NEW w, w = Scan(v, want)
  PROVE  Reads(v, w, Dir(ch)) /\ Scanned(v, w, ch, want, k0, v.dj.at)
<1> DEFINE s == [v |-> v, done |-> FALSE]
           N == LastCluster * TableEntries
           i0 == v.dj.at
<1>1. PICK f : Rows(f, "scan", want, s, N) /\ w = f[N].v
  BY ScanRows
<1> DEFINE I == {i \in 0..N : Scanning(f[i], v, ch, want, k0, i0, i)}
<1>2. /\ Len(Dir(ch)) \in Nat /\ Len(Dir(ch)) < LastCluster /\ TableEntries \in Nat \ {0} /\ LastCluster \in Nat
      /\ k0 \in 1..Len(Dir(ch)) /\ i0 \in 1..TableEntries /\ Sane(v)
  BY DirFacts, BaseFacts, VolumeAssumption DEF DirAt
<1>3. N \in Nat
  BY <1>2
<1>4. 0 \in I
  <2>1. f[0] = s
    BY <1>1 DEF Rows
  <2>2. DOMAIN f[0] = {"v", "done"} /\ f[0].v = v /\ f[0].done = FALSE
    BY <2>1
  <2>3. Reads(v, v, Dir(ch))
    BY <1>2, ReadsSelf
  <2>4. ~Before(k0, i0, k0, i0) /\ Passed(v, ch, want, k0, i0, k0, i0)
    BY <1>2 DEF Before, Passed
  <2>5. Pos(k0, i0) > 0
    <3>1. PICK a \in Nat : a = (k0 - 1) * TableEntries
      <4>1. k0 - 1 \in Nat
        BY <1>2
      <4> QED BY <1>2, <4>1
    <3> QED BY <1>2, <3>1 DEF Pos
  <2>6. Scanning(f[0], v, ch, want, k0, i0, 0)
    BY <1>2, <2>2, <2>3, <2>4, <2>5 DEF Scanning
  <2> QED BY <1>3, <2>6
<1>5. ASSUME NEW i \in 1..N, i - 1 \in I PROVE i \in I
  <2> DEFINE p == f[i - 1]
  <2>1. f[i] = IF p.done THEN p ELSE ScanStep(p, want)
    BY <1>1 DEF Rows, StepOf
  <2>2. Scanning(p, v, ch, want, k0, i0, i - 1) /\ i - 1 \in Nat /\ i - 1 + 1 = i /\ k0 \in Nat /\ i0 \in Nat
    BY <1>2, <1>3, <1>5
  <2> HIDE DEF p, i0, N
  <2>3. CASE p.done
    BY <2>1, <2>2, <2>3 DEF Scanning
  <2>4. CASE ~p.done
    BY <2>1, <2>2, <2>4, ScanStepIs
  <2> QED BY <2>3, <2>4, <1>5
<1>6. 0..N \subseteq I
  <2> HIDE DEF I, N
  <2> QED BY <1>3, <1>4, <1>5, UpTo
<1>7. Scanning(f[N], v, ch, want, k0, i0, N)
  BY <1>3, <1>6
<1>8. f[N].done
  <2> SUFFICES ASSUME ~f[N].done PROVE FALSE
    OBVIOUS
  <2>1. PICK k \in 1..Len(Dir(ch)) : DirAt(ch, f[N].v.dj, k) /\ Pos(k, f[N].v.dj.at) > N
    BY <1>7 DEF Scanning
  <2>2. PICK i \in 1..TableEntries : i = f[N].v.dj.at
    BY <2>1 DEF DirAt
  <2>3. k + 1 <= LastCluster /\ k \in Nat
    BY <1>2
  <2>4. PICK a \in Int : a = (k - 1) * TableEntries
    BY <1>2, <2>3
  <2>5. PICK b \in Int : b = (k + 1) * TableEntries
    BY <1>2, <2>3
  <2>6. b = a + TableEntries + TableEntries
    BY <1>2, <2>3, <2>4, <2>5
  <2>7. b <= N
    <3>1. PICK t \in Nat : t = LastCluster - (k + 1)
      BY <1>2, <2>3
    <3>2. t * TableEntries \in Nat
      BY <1>2, <3>1
    <3>3. LastCluster = k + 1 + t
      BY <1>2, <2>3, <3>1
    <3>4. LastCluster * TableEntries = (k + 1) * TableEntries + t * TableEntries
      BY <1>2, <2>3, <3>1, <3>3
    <3> QED BY <1>2, <2>5, <3>2, <3>4
  <2>8. Pos(k, i) = a + i /\ Pos(k, i) > N
    BY <2>1, <2>2, <2>4 DEF Pos
  <2> HIDE DEF N
  <2> QED BY <1>2, <1>3, <2>2, <2>6, <2>7, <2>8, SMTT(30)
<1> QED BY <1>1, <1>7, <1>8 DEF Scanning

(* An entry that is not blank may be put at (k, i): nothing that was never *)
(* used is before it.                                                      *)
Free(card, d, k, i) ==
  \/ EntryOf(card, d[k], i) # Blank
  \/ \A l \in 1..Len(d), j \in 1..TableEntries : Before(l, j, k, i) => EntryOf(card, d[l], j) # Blank

(* No other entry has its name. *)
Sole(card, d, k, i, e) ==
  \/ IsBlank(e)
  \/ \A l \in 1..Len(d), j \in 1..TableEntries :
       EntryOf(card, d[l], j).name = e.name => l = k /\ j = i

LEMMA EntryTree ==
  ASSUME NEW card, NEW ch, NEW x, Tree(card, ch, x), NEW k \in 1..Len(Dir(ch)), NEW i \in 1..TableEntries,
         NEW e \in Entries, e # Blank, Free(card, Dir(ch), k, i), Sole(card, Dir(ch), k, i, e),
         NEW x2, x \subseteq x2 \cup {e.name},
         e.name \in Names /\ e.name \notin x2 => Fits(e, ch)
  PROVE  Tree(EntrySet(card, Dir(ch)[k], i, e), ch, x2)
<1> DEFINE d == Dir(ch)
           new == EntrySet(card, d[k], i, e)
<1>1. /\ InOrder(card, d) /\ d \in Seq(Clusters) /\ Len(d) \in Nat /\ WellTyped(card)
      /\ Shape(FatOf(card), ch) /\ Match(card, ch, x) /\ d = ch["none"]
      /\ \A l \in 1..Len(d) : d[l] \in Clusters /\ IsTable(card, d[l])
      /\ \A l \in 1..Len(d) : \A j \in 1..TableEntries : EntryOf(card, d[l], j) \in Entries
  BY TreeFacts DEF Dir, Tree
<1>2. \A l, m \in 1..Len(d) : d[l] = d[m] => l = m
  BY <1>1 DEF Shape, Apart
<1>3. /\ WellTyped(new) /\ FatOf(new) = FatOf(card)
      /\ \A c \in Clusters : IsTable(new, c) <=> IsTable(card, c)
      /\ \A l \in 1..Len(d) : \A j \in 1..TableEntries :
           EntryOf(new, d[l], j) = IF l = k /\ j = i THEN e ELSE EntryOf(card, d[l], j)
  <2>1. d[k] \in Clusters /\ IsTable(card, d[k])
    BY <1>1
  <2> HIDE DEF d
  <2>2. /\ WellTyped(new) /\ FatOf(new) = FatOf(card)
        /\ \A c \in Clusters : IsTable(new, c) <=> IsTable(card, c)
        /\ \A c \in Clusters : \A j \in 1..TableEntries : IsTable(card, c) =>
              EntryOf(new, c, j) = IF c = d[k] /\ j = i THEN e ELSE EntryOf(card, c, j)
    BY <1>1, <2>1, EntrySetFacts
  <2> HIDE DEF new
  <2> QED BY <1>1, <1>2, <2>2 DEF d
<1> HIDE DEF new, d
<1>4. InOrder(new, d)
  <2>1. \A c \in Clusters : IsTable(new, c) <=> \E l \in 1..Len(d) : d[l] = c
    BY <1>1, <1>3 DEF InOrder
  <2>2. ASSUME NEW l \in 1..Len(d), NEW m \in 1..Len(d), NEW j \in 1..TableEntries, NEW o \in 1..TableEntries,
               EntryOf(new, d[l], j).name = EntryOf(new, d[m], o).name, ~IsBlank(EntryOf(new, d[l], j))
        PROVE  l = m /\ j = o
    <3>1. CASE (l = k /\ j = i) /\ (m = k /\ o = i)
      BY <3>1
    <3>2. CASE (l = k /\ j = i) /\ ~(m = k /\ o = i)
      <4>1. ~IsBlank(e) /\ EntryOf(card, d[m], o).name = e.name
        BY <1>3, <2>2, <3>2
      <4> QED BY <3>2, <4>1 DEF Sole, d
    <3>3. CASE ~(l = k /\ j = i) /\ (m = k /\ o = i)
      <4>1. EntryOf(card, d[l], j).name = e.name /\ ~IsBlank(EntryOf(card, d[l], j))
        BY <1>3, <2>2, <3>3
      <4>2. ~IsBlank(e)
        BY <4>1 DEF IsBlank
      <4> QED BY <3>3, <4>1, <4>2 DEF Sole, d
    <3>4. CASE ~(l = k /\ j = i) /\ ~(m = k /\ o = i)
      BY <1>1, <1>3, <2>2, <3>4, SMTT(30) DEF InOrder
    <3> QED BY <3>1, <3>2, <3>3, <3>4
  <2>3. ASSUME NEW l \in 1..Len(d), NEW m \in 1..Len(d), NEW j \in 1..TableEntries, NEW o \in 1..TableEntries,
               EntryOf(new, d[l], j) = Blank, l < m \/ (l = m /\ j < o)
        PROVE  EntryOf(new, d[m], o) = Blank
    <3>1. ~(l = k /\ j = i) /\ EntryOf(card, d[l], j) = Blank
      BY <1>3, <2>3
    <3>2. EntryOf(card, d[m], o) = Blank
      BY <1>1, <2>3, <3>1 DEF InOrder
    <3>3. CASE ~(m = k /\ o = i)
      BY <1>3, <3>2, <3>3
    <3>4. CASE m = k /\ o = i
      <4>1. EntryOf(card, d[k], i) = Blank /\ Before(l, j, k, i)
        BY <2>3, <3>2, <3>4 DEF Before
      <4> QED BY <3>1, <4>1 DEF Free, d
    <3> QED BY <3>3, <3>4
  <2> QED BY <2>1, <2>2, <2>3 DEF InOrder
<1>5. Orderly(new, ch["none"])
  BY <1>1, <1>4, OrderlyIs
<1>6. Match(new, ch, x2)
  <2> SUFFICES ASSUME NEW l \in 1..Len(d), NEW j \in 1..TableEntries,
                      EntryOf(new, d[l], j).name \in Names, EntryOf(new, d[l], j).name \notin x2
               PROVE  Fits(EntryOf(new, d[l], j), ch)
    BY <1>1 DEF Match
  <2>1. CASE l = k /\ j = i
    BY <1>3, <2>1
  <2>2. CASE ~(l = k /\ j = i)
    <3>1. EntryOf(new, d[l], j) = EntryOf(card, d[l], j)
      BY <1>3, <2>2
    <3>2. EntryOf(card, d[l], j).name # e.name
      <4>1. EntryOf(card, d[l], j).name \in Names
        BY <3>1
      <4>2. IsBlank(e) => e.name \notin Names
        BY NamesAssumption DEF IsBlank
      <4> QED BY <2>2, <4>1, <4>2 DEF Sole, d
    <3> QED BY <1>1, <3>1, <3>2 DEF Match
  <2> QED BY <2>1, <2>2
<1> QED BY <1>1, <1>3, <1>5, <1>6 DEF Tree, new, d

(* An entry is put into the window. *)
LEMMA StoreIs ==
  ASSUME NEW v, NEW ch, NEW x, NEW g, Base(v, ch, x, g), NEW dj, NEW k, DirAt(ch, dj, k),
         v.winsect = clust2sect(dj.clust), NEW e \in Entries, NEW w, w = Store(v, dj, e)
  PROVE  /\ Still(v, w) /\ Sane(w) /\ w.res = v.res /\ w.winsect = v.winsect /\ w.card = v.card /\ w.wflag
         /\ Flushed(w) = EntrySet(Flushed(v), Dir(ch)[k], dj.at, e)
         /\ EntryAt(w, dj) = e
<1>1. /\ dj.clust = Dir(ch)[k] /\ k \in 1..Len(Dir(ch)) /\ dj.at \in 1..TableEntries
      /\ Dir(ch)[k] \in Clusters /\ IsTable(Flushed(v), Dir(ch)[k])
      /\ clust2sect(Dir(ch)[k]) # 0
      /\ Sane(v) /\ IsVol(v) /\ WellTyped(Flushed(v)) /\ IsCard(v.card) /\ True(v)
  BY DirFacts, BaseFacts DEF DirAt, Sane
<1>2. w = [v EXCEPT !.win.table[dj.at] = e, !.wflag = TRUE]
  BY DEF Store
<1>3. /\ IsVol(w) /\ w.card = v.card /\ w.winsect = v.winsect /\ w.left = v.left /\ w.res = v.res /\ w.dj = v.dj
      /\ w.wflag = TRUE
  BY <1>1, <1>2 DEF IsVol
<1>4. w.win = [v.win EXCEPT !.table[dj.at] = e]
  BY <1>1, <1>2 DEF IsVol
<1>5. /\ (w.hit <=> v.hit) /\ (w.gone <=> v.gone) /\ (w.mounted <=> v.mounted)
      /\ (w.stretched <=> v.stretched) /\ (v.lost => w.lost)
  BY <1>1, <1>2 DEF IsVol
<1>6. Still(v, w)
  BY <1>3, <1>5 DEF Still, Later, Dead
<1>7. v.winsect # 0 /\ v.winsect \in DOMAIN v.card /\ v.win = Flushed(v)[v.winsect]
  BY <1>1, FlushedFacts DEF True
<1>8. Sane(w)
  BY <1>1, <1>3, <1>7 DEF Sane, True
<1>9. Flushed(w) = [v.card EXCEPT ![v.winsect] = w.win]
  BY <1>3 DEF Flushed
<1>10. Flushed(w) = [Flushed(v) EXCEPT ![v.winsect] = w.win]
  BY <1>9 DEF Flushed
<1>11. Flushed(w) = EntrySet(Flushed(v), Dir(ch)[k], dj.at, e)
  <2> DEFINE s == clust2sect(Dir(ch)[k])
             f == Flushed(v)
  <2>1. v.winsect = s /\ v.win = f[s]
    BY <1>1, <1>7
  <2>2. w.win = [f[s] EXCEPT !.table[dj.at] = e]
    BY <1>4, <2>1
  <2>3. Flushed(w) = [f EXCEPT ![s] = w.win]
    BY <1>10, <2>1
  <2> HIDE DEF f
  <2>4. Flushed(w) = [f EXCEPT ![s] = [f[s] EXCEPT !.table[dj.at] = e]]
    BY <2>2, <2>3
  <2> QED BY <2>4 DEF EntrySet, f
<1>12. v.win.table \in [1..TableEntries -> Entries]
  BY <1>1, <1>7, WellTypedFacts
<1>13. "table" \in DOMAIN v.win
  BY <1>1, <1>7 DEF IsTable
<1>14. EntryAt(w, dj) = e
  BY <1>1, <1>4, <1>12, <1>13, Zenon DEF EntryAt
<1> QED BY <1>3, <1>6, <1>8, <1>11, <1>14

LEMMA BaseStore ==
  ASSUME NEW v, NEW ch, NEW x, NEW g, Base(v, ch, x, g), NEW dj, NEW k, DirAt(ch, dj, k),
         v.winsect = clust2sect(dj.clust), NEW e \in Entries, NEW w, w = Store(v, dj, e),
         NEW x2, g => x2 = {}, Tree(EntrySet(Flushed(v), Dir(ch)[k], dj.at, e), ch, x2)
  PROVE  Base(w, ch, x2, g)
<1>1. /\ Still(v, w) /\ Sane(w) /\ w.winsect = v.winsect /\ w.card = v.card
      /\ Flushed(w) = EntrySet(Flushed(v), Dir(ch)[k], dj.at, e)
  BY StoreIs
<1> QED BY <1>1 DEF Base, Still, Later

(* dir_sdi, on its way to the k-th cluster of the directory. *)
Walking(p, v, ch, dj, k) ==
  /\ DOMAIN p = {"v", "c", "done"}
  /\ Reads(v, p.v, Dir(ch)) /\ p.v.dj = v.dj
  /\ p.v.res \in {"OK", "DISK_ERR"}
  /\ p.v.res # "OK" => p.v.hit
  /\ ~p.done => \E j \in 1..(k - 1) : p.c = Dir(ch)[j]

LEMMA SdiStepIs ==
  ASSUME NEW v, NEW ch, NEW x, NEW g, Base(v, ch, x, g), NEW dj, NEW k, DirAt(ch, dj, k),
         NEW p, Walking(p, v, ch, dj, k), ~p.done, NEW q, q = SdiStep(p, dj)
  PROVE  Walking(q, v, ch, dj, k)
<1> DEFINE u == get_fat(p.v, p.c)
<1>1. PICK j \in 1..(k - 1) : p.c = Dir(ch)[j]
  BY DEF Walking
<1>2. PICK l \in Nat : l = Len(Dir(ch)) /\ k \in 1..l /\ dj.clust = Dir(ch)[k]
  BY DirFacts DEF DirAt
<1>3. j \in 1..l /\ j < l /\ j + 1 \in 1..k /\ (j + 1 # k => j + 1 \in 1..(k - 1))
  BY <1>1, <1>2
<1>4. /\ DOMAIN p = {"v", "c", "done"} /\ Reads(v, p.v, Dir(ch)) /\ p.v.dj = v.dj
      /\ Base(p.v, ch, x, g) /\ Flushed(p.v) = Flushed(v) /\ Sane(p.v)
  BY BaseReads DEF Walking, Reads, Dir
<1>5. p.c \in Clusters /\ FatOf(Flushed(v))[p.c] = Dir(ch)[j + 1] /\ Dir(ch)[j + 1] \in Clusters
  <2>1. Shape(FatOf(Flushed(v)), ch)
    BY BaseFacts
  <2> QED BY <1>1, <1>2, <1>3, <2>1, LinkAfter DEF Dir
<1>6. Reads(p.v, u, Dir(ch)) /\ Gets(p.v, u, p.c)
  BY <1>4, <1>5, GetFat, Zenon
<1>7. q = IF u.val \in Clusters THEN [v |-> Ok(u), c |-> u.val, done |-> u.val = dj.clust]
          ELSE [p EXCEPT !.v = Err(u, ErrorOf(u.val)), !.done = TRUE]
  BY DEF SdiStep, Stop
<1> HIDE DEF u
<1>8. Reads(v, u, Dir(ch)) /\ u.dj = v.dj /\ Sane(u) /\ IsVol(u)
  BY <1>4, <1>6, ReadsTrans DEF Gets, Reads, Sane
<1>9. CASE u.res = "OK"
  <2>1. u.val = Dir(ch)[j + 1] /\ u.val \in Clusters
    BY <1>4, <1>5, <1>6, <1>9 DEF Gets
  <2>2. q = [v |-> Ok(u), c |-> u.val, done |-> u.val = dj.clust]
    BY <1>7, <2>1
  <2>3. Core(u, Ok(u)) /\ Still(u, Ok(u)) /\ Ok(u).res = "OK"
    BY <1>8, Results
  <2>4. Reads(v, Ok(u), Dir(ch)) /\ Ok(u).dj = v.dj
    BY <1>8, <2>3, CoreReads, ReadsTrans DEF Still
  <2>a. DOMAIN q = {"v", "c", "done"} /\ q.v = Ok(u) /\ q.c = u.val
    BY <2>2
  <2>b. q.done = (u.val = dj.clust)
    BY <2>2
  <2>5. DOMAIN q = {"v", "c", "done"} /\ q.v = Ok(u) /\ q.c = u.val /\ (u.val # dj.clust \/ q.done)
    BY <2>a, <2>b, Zenon
  <2>6. ~q.done => j + 1 \in 1..(k - 1)
    BY <1>2, <1>3, <2>1, <2>5
  <2> QED BY <2>1, <2>3, <2>4, <2>5, <2>6 DEF Walking
<1>10. CASE u.res # "OK"
  <2> DEFINE e == Err(u, ErrorOf(u.val))
  <2>1. u.val = NoValue /\ u.val \notin Clusters /\ u.hit /\ ErrorOf(u.val) = "DISK_ERR"
    BY <1>6, <1>10, NoClusters DEF Gets, ErrorOf
  <2>2. q = [p EXCEPT !.v = e, !.done = TRUE]
    BY <1>7, <2>1
  <2>3. Core(u, e) /\ Still(u, e) /\ e.res = "DISK_ERR"
    BY <1>8, <2>1, Results
  <2> HIDE DEF e
  <2>4. Reads(v, e, Dir(ch)) /\ e.dj = v.dj /\ e.hit
    BY <1>8, <2>1, <2>3, CoreReads, ReadsTrans DEF Still, Later
  <2>5. DOMAIN q = {"v", "c", "done"} /\ q.v = e /\ q.done = TRUE
    BY <1>4, <2>2
  <2> QED BY <2>3, <2>4, <2>5 DEF Walking
<1> QED BY <1>9, <1>10

LEMMA Walks ==
  ASSUME NEW v, NEW ch, NEW x, NEW g, Base(v, ch, x, g), NEW dj, NEW k, DirAt(ch, dj, k),
         NEW w, w = dir_sdi(v, dj)
  PROVE  /\ Reads(v, w, Dir(ch)) /\ w.dj = v.dj
         /\ w.res \in {"OK", "DISK_ERR"}
         /\ w.res # "OK" => w.hit
<1>0. PICK s : s = [v |-> Ok(v), c |-> dirbase, done |-> dj.clust = dirbase]
  OBVIOUS
<1>1. PICK f : Rows(f, "sdi", dj, s, LastCluster) /\ w = f[LastCluster].v
  BY <1>0, SdiRows, Zenon
<1> DEFINE I == {i \in 0..LastCluster : Walking(f[i], v, ch, dj, k)}
<1>2. LastCluster \in Nat
  BY VolumeAssumption
<1>3. 0 \in I
  <2>0. f[0] = s
    BY <1>1, <1>2 DEF Rows
  <2>a. DOMAIN f[0] = {"v", "c", "done"} /\ f[0].v = Ok(v) /\ f[0].c = dirbase
    BY <1>0, <2>0
  <2>b. f[0].done = (dj.clust = dirbase)
    BY <1>0, <2>0
  <2>1. DOMAIN f[0] = {"v", "c", "done"} /\ f[0].v = Ok(v) /\ f[0].c = dirbase /\ (dj.clust # dirbase \/ f[0].done)
    BY <2>a, <2>b, Zenon
  <2>2. Core(v, Ok(v)) /\ Still(v, Ok(v)) /\ Ok(v).res = "OK" /\ Sane(v)
    BY BaseFacts, Results
  <2>3. Reads(v, Ok(v), Dir(ch)) /\ Ok(v).dj = v.dj
    BY <2>2, CoreReads DEF Still
  <2>4. ~f[0].done => 1 \in 1..(k - 1) /\ dirbase = Dir(ch)[1]
    <3>1. PICK l \in Nat : l = Len(Dir(ch)) /\ k \in 1..l /\ dj.clust = Dir(ch)[k] /\ Dir(ch)[1] = dirbase
      BY DirFacts DEF DirAt
    <3> QED BY <2>1, <3>1
  <2>5. Walking(f[0], v, ch, dj, k)
    BY <2>1, <2>2, <2>3, <2>4 DEF Walking
  <2> QED BY <1>2, <2>5
<1>4. ASSUME NEW i \in 1..LastCluster, i - 1 \in I PROVE i \in I
  <2> DEFINE p == f[i - 1]
  <2>1. f[i] = IF p.done THEN p ELSE SdiStep(p, dj)
    BY <1>1 DEF Rows, StepOf
  <2>2. Walking(p, v, ch, dj, k)
    BY <1>4
  <2> HIDE DEF p
  <2>3. Walking(f[i], v, ch, dj, k)
    <3>1. CASE p.done
      BY <2>1, <2>2, <3>1
    <3>2. CASE ~p.done
      BY <2>1, <2>2, <3>2, SdiStepIs
    <3> QED BY <3>1, <3>2
  <2> QED BY <2>3
<1>5. 0..LastCluster \subseteq I
  <2> HIDE DEF I
  <2> QED BY <1>2, <1>3, <1>4, UpTo, Zenon
<1> QED BY <1>1, <1>2, <1>5 DEF Walking

(* dir_remove. *)
LEMMA RemoveEntry ==
  ASSUME NEW v, NEW ch, NEW x, NEW g, Base(v, ch, x, g), NEW dj, NEW k, DirAt(ch, dj, k),
         Nth(v, ch, k, dj.at) # Blank, NEW w, w = dir_remove(v, dj)
  PROVE  /\ Base(w, ch, x, g) /\ Still(v, w) /\ w.res \in {"OK", "DISK_ERR"}
         /\ w.res # "OK" => w.hit /\ Flushed(w) = Flushed(v)
         /\ w.res = "OK" => Flushed(w) = EntrySet(Flushed(v), Dir(ch)[k], dj.at, Deleted)
<1> DEFINE t == dir_sdi(v, dj)
           m == move_window(t, clust2sect(dj.clust))
           u == Store(m, dj, Deleted)
<1>1. w = IF t.res # "OK" THEN t ELSE IF m.res = "OK" THEN u ELSE m
  BY DEF dir_remove, OnOk
<1>m. t = dir_sdi(v, dj) /\ m = move_window(t, clust2sect(dj.clust)) /\ u = Store(m, dj, Deleted)
  OBVIOUS
<1> HIDE DEF t, m, u
<1>t. /\ Reads(v, t, Dir(ch)) /\ t.dj = v.dj /\ Still(v, t) /\ t.res \in {"OK", "DISK_ERR"} /\ (t.res # "OK" => t.hit)
      /\ Base(t, ch, x, g) /\ Flushed(t) = Flushed(v)
  BY <1>m, Walks, BaseReads DEF Reads, Still, Dir
<1>2. /\ Reads(t, m, Dir(ch)) /\ Still(t, m) /\ m.res \in {"OK", "DISK_ERR"} /\ (m.res # "OK" => m.hit)
      /\ m.res = "OK" => m.winsect = clust2sect(dj.clust)
  BY <1>m, <1>t, MoveToDir
<1>3. Base(m, ch, x, g) /\ Flushed(m) = Flushed(v) /\ Still(v, m)
  BY <1>t, <1>2, BaseReads, StillTrans DEF Dir, Reads
<1>s. CASE t.res # "OK"
  BY <1>1, <1>s, <1>t
<1>4. CASE t.res = "OK" /\ m.res # "OK"
  BY <1>1, <1>2, <1>3, <1>4
<1>5. CASE t.res = "OK" /\ m.res = "OK"
  <2>0. Deleted \in Entries /\ Deleted # Blank /\ IsBlank(Deleted) /\ Deleted.name \notin Names
    BY NamesAssumption DEF Entries, Deleted, Blank, IsBlank
  <2>1. /\ Still(m, u) /\ u.res = m.res
        /\ Flushed(u) = EntrySet(Flushed(m), Dir(ch)[k], dj.at, Deleted)
    BY <1>m, <1>2, <1>3, <1>5, <2>0, StoreIs
  <2>2. Tree(Flushed(v), ch, x) /\ k \in 1..Len(Dir(ch)) /\ dj.at \in 1..TableEntries
    BY BaseFacts DEF DirAt
  <2>3. Free(Flushed(v), Dir(ch), k, dj.at) /\ Sole(Flushed(v), Dir(ch), k, dj.at, Deleted)
    BY <2>0 DEF Free, Sole, Nth
  <2>4. Tree(EntrySet(Flushed(v), Dir(ch)[k], dj.at, Deleted), ch, x)
    BY <2>0, <2>2, <2>3, EntryTree, Zenon
  <2>5. g => x = {}
    BY DEF Base
  <2>6. Base(u, ch, x, g)
    BY <1>m, <1>2, <1>3, <1>5, <2>0, <2>4, <2>5, BaseStore
  <2> QED BY <1>1, <1>2, <1>3, <1>5, <2>1, <2>6, StillTrans
<1> QED BY <1>t, <1>s, <1>4, <1>5

-----------------------------------------------------------------------------
(* The directory is stretched. *)

LEMMA AppendIs ==
  ASSUME NEW S, NEW s \in Seq(S), NEW c \in S, NEW t, t = Append(s, c)
  PROVE  /\ t \in Seq(S) /\ Len(t) = Len(s) + 1 /\ t[Len(s) + 1] = c
         /\ \A i \in 1..Len(s) : t[i] = s[i]
BY AppendProperties

(* Between the link and the clearing, it ends in a cluster of no entries. *)
LEMMA Torn ==
  ASSUME NEW card, NEW ch, NEW x, Tree(card, ch, x), NEW c \in Clusters, ~Owned(ch, c), FatOf(card)[c] = LastLink,
         NEW card2, card2 = LinkSet(card, Dir(ch)[Len(Dir(ch))], c)
  PROVE  /\ WellTyped(card2) /\ ~Sound(card2) /\ Shape(FatOf(card2), Longer(ch, "none", c))
         /\ Alike(card, card2) /\ ~IsTable(card2, c)
         /\ \A d \in Clusters : card2[clust2sect(d)] = card[clust2sect(d)]
<1> DEFINE d == Dir(ch)
           L == d[Len(d)]
           ch2 == Longer(ch, "none", c)
<1>1. /\ InOrder(card, d) /\ d \in Seq(Clusters) /\ Len(d) \in Nat /\ WellTyped(card) /\ ch \in Layouts
      /\ Shape(FatOf(card), ch) /\ d = ch["none"] /\ d # <<>> /\ d[1] = dirbase
      /\ FatOf(card) \in [Clusters -> Links]
  BY TreeFacts, WellTypedFacts DEF Dir, Tree, Shape
<1>2. L \in Clusters /\ Len(d) \in 1..Len(d)
  BY <1>1, LayoutFacts
<1>3. c \in Links /\ c # dirbase /\ ~IsTable(card, c)
  <2>1. \A k \in 1..Len(d) : d[k] # c
    BY <1>1 DEF Owned
  <2>2. 1 \in 1..Len(d)
    BY <1>2
  <2> QED BY <1>1, <2>1, <2>2 DEF Links, InOrder
<1>4. /\ WellTyped(card2) /\ Alike(card, card2)
      /\ FatOf(card2) = [FatOf(card) EXCEPT ![L] = c]
      /\ \A b \in Clusters : card2[clust2sect(b)] = card[clust2sect(b)]
  <2>1. card2 = LinkSet(card, L, c)
    OBVIOUS
  <2> HIDE DEF L
  <2>2. WellTyped(card) /\ L \in Clusters /\ c \in Links
    BY <1>1, <1>2, <1>3
  <2> QED BY <2>1, <2>2, LinkSetFacts
<1>5. /\ Shape(FatOf(card2), ch2) /\ ch2["none"] = Append(d, c)
      /\ Len(ch2["none"]) = Len(d) + 1 /\ ch2["none"][Len(d) + 1] = c
      /\ \A i \in 1..Len(d) : ch2["none"][i] = d[i]
  <2>1. ch2 = [ch EXCEPT !["none"] = Append(ch["none"], c)] /\ FatOf(card2) = [FatOf(card) EXCEPT ![ch["none"][Len(ch["none"])]] = c]
    BY <1>1, <1>4 DEF Longer
  <2>2. "none" \in Names \cup {"none"} /\ ch["none"] # <<>>
    BY <1>1
  <2>3. ~Owned(ch, c) /\ FatOf(card)[c] = LastLink
    OBVIOUS
  <2> DEFINE F == FatOf(card)
             F2 == FatOf(card2)
  <2>4. F \in [Clusters -> Links] /\ Shape(F, ch) /\ F[c] = LastLink
        /\ F2 = [F EXCEPT ![ch["none"][Len(ch["none"])]] = c]
    BY <1>1, <2>1, <2>3
  <2> DEFINE n == "none"
  <2>6. /\ F \in [Clusters -> Links] /\ Shape(F, ch) /\ n \in Names \cup {"none"} /\ ch[n] # <<>> /\ F[c] = LastLink
        /\ F2 = [F EXCEPT ![ch[n][Len(ch[n])]] = c] /\ ch2 = [ch EXCEPT ![n] = Append(ch[n], c)]
    BY <2>1, <2>2, <2>4
  <2> HIDE DEF ch2, F, F2, n
  <2>7. Shape(F2, ch2)
    BY <2>3, <2>6, ShapeExtend, ZenonT(60)
  <2>8. ch2["none"] = Append(d, c)
    BY <1>1, <2>1 DEF Layouts
  <2> HIDE DEF d
  <2>9. /\ Len(ch2["none"]) = Len(d) + 1 /\ ch2["none"][Len(d) + 1] = c
        /\ \A i \in 1..Len(d) : ch2["none"][i] = d[i]
    BY <1>1, <2>8, AppendIs
  <2> QED BY <2>7, <2>8, <2>9 DEF F2
<1>6. ~IsTable(card2, c)
  BY <1>3, <1>4 DEF Alike
<1>7. ~Sound(card2)
  <2> DEFINE q == ch2["none"]
  <2>1. q \in Seq(Clusters) /\ q # <<>> /\ q[1] = dirbase /\ Linked(FatOf(card2), q)
    <3>1. Append(d, c) \in Seq(Clusters)
      BY <1>1
    <3> QED BY <1>5, <3>1, Zenon DEF Shape
  <2>2. Len(d) + 1 \in 1..Len(q) /\ q[Len(d) + 1] = c
    BY <1>1, <1>5
  <2> HIDE DEF q
  <2>3. Chain(FatOf(card2), dirbase) = q
    BY <2>1, ChainIs
  <2>4. DOMAIN q = 1..Len(q)
    BY <2>1
  <2>5. ~SoundChain(FatOf(card2), dirbase, "table", card2)
    BY <1>6, <2>2, <2>3, <2>4 DEF SoundChain, IsTable
  <2> QED BY <2>5 DEF Sound
<1> QED BY <1>4, <1>5, <1>6, <1>7

LEMMA Cleared ==
  ASSUME NEW card, NEW ch, NEW x, Tree(card, ch, x), NEW c \in Clusters, ~Owned(ch, c), FatOf(card)[c] = LastLink,
         NEW card2, card2 = LinkSet(card, Dir(ch)[Len(Dir(ch))], c),
         NEW card3, card3 = [card2 EXCEPT ![clust2sect(c)] = [table |-> EmptyTable]]
  PROVE  /\ Tree(card3, Longer(ch, "none", c), x)
         /\ \A j \in 1..TableEntries : EntryOf(card3, c, j) = Blank
         /\ \A k \in 1..Len(Dir(ch)), j \in 1..TableEntries :
              EntryOf(card3, Dir(ch)[k], j) = EntryOf(card, Dir(ch)[k], j)
<1> DEFINE d == Dir(ch)
           ch2 == Longer(ch, "none", c)
           e == Dir(ch2)
<1>1. /\ InOrder(card, d) /\ d \in Seq(Clusters) /\ Len(d) \in Nat /\ ch \in Layouts /\ d = ch["none"]
      /\ Match(card, ch, x) /\ \A k \in 1..Len(d) : d[k] \in Clusters /\ IsTable(card, d[k])
      /\ \A k \in 1..Len(d) : d[k] # c
  BY TreeFacts DEF Dir, Tree, Shape, Owned
<1>2. /\ WellTyped(card2) /\ Shape(FatOf(card2), ch2)
      /\ \A b \in Clusters : card2[clust2sect(b)] = card[clust2sect(b)]
  BY Torn
<1>3. /\ e \in Seq(Clusters) /\ Len(e) = Len(d) + 1 /\ e[Len(d) + 1] = c /\ (\A k \in 1..Len(d) : e[k] = d[k])
      /\ e = ch2["none"] /\ \A n \in Names : ch2[n] = ch[n]
  <2>1. e = Append(d, c) /\ e = ch2["none"] /\ \A n \in Names : ch2[n] = ch[n]
    BY <1>1, NamesAssumption DEF Longer, Layouts, Dir
  <2> HIDE DEF ch2, e, d
  <2>2. e = Append(d, c) /\ d \in Seq(Clusters)
    BY <1>1, <2>1
  <2>3. e \in Seq(Clusters) /\ Len(e) = Len(d) + 1 /\ e[Len(d) + 1] = c /\ (\A k \in 1..Len(d) : e[k] = d[k])
    BY <2>2, AppendIs
  <2> QED BY <2>1, <2>3
<1>4. /\ WellTyped(card3) /\ FatOf(card3) = FatOf(card2) /\ IsTable(card3, c)
      /\ \A b \in Clusters : b # c => card3[clust2sect(b)] = card[clust2sect(b)]
      /\ \A j \in 1..TableEntries : EntryOf(card3, c, j) = Blank
  BY <1>2, TableSetFacts
<1> HIDE DEF d, e, ch2
<1>5. \A b \in Clusters : IsTable(card3, b) <=> IsTable(card, b) \/ b = c
  BY <1>4 DEF IsTable
<1>6. \A k \in 1..Len(d), j \in 1..TableEntries : EntryOf(card3, e[k], j) = EntryOf(card, d[k], j)
  BY <1>1, <1>3, <1>4 DEF EntryOf
<1>7. Blank.name = "blank" /\ IsBlank(Blank) /\ "blank" \notin Names
  BY NamesAssumption DEF Blank, IsBlank
<1>8. \A k \in 1..Len(e) : k \in 1..Len(d) \/ k = Len(d) + 1
  BY <1>1, <1>3
<1>9. \A k \in 1..Len(e) : e[k] \in Clusters
  BY <1>3
<1>10. InOrder(card3, e)
  <2>1. ASSUME NEW b \in Clusters PROVE IsTable(card3, b) <=> \E k \in 1..Len(e) : e[k] = b
    <3>1. IsTable(card, b) => \E k \in 1..Len(e) : e[k] = b
      <4>1. IsTable(card, b) => \E k \in 1..Len(d) : d[k] = b
        BY <1>1 DEF InOrder
      <4>2. \A k \in 1..Len(d) : k \in 1..Len(e)
        BY <1>1, <1>3
      <4> QED BY <1>3, <4>1, <4>2
    <3>2. b = c => \E k \in 1..Len(e) : e[k] = b
      <4>1. Len(d) + 1 \in 1..Len(e)
        BY <1>1, <1>3
      <4> QED BY <1>3, <4>1
    <3>3. \A k \in 1..Len(e) : e[k] = b => IsTable(card, b) \/ b = c
      BY <1>1, <1>3, <1>8
    <3> QED BY <1>5, <3>1, <3>2, <3>3
  <2>2. ASSUME NEW k \in 1..Len(e), NEW l \in 1..Len(e), NEW i \in 1..TableEntries, NEW j \in 1..TableEntries,
               EntryOf(card3, e[k], i).name = EntryOf(card3, e[l], j).name, ~IsBlank(EntryOf(card3, e[k], i))
        PROVE  k = l /\ i = j
    <3>1. k \in 1..Len(d)
      BY <1>3, <1>4, <1>7, <1>8, <2>2
    <3>2. l \in 1..Len(d)
      <4>1. ~IsBlank(EntryOf(card3, e[l], j))
        BY <2>2 DEF IsBlank
      <4> QED BY <1>3, <1>4, <1>7, <1>8, <4>1
    <3> QED BY <1>1, <1>6, <2>2, <3>1, <3>2 DEF InOrder
  <2>3. ASSUME NEW k \in 1..Len(e), NEW l \in 1..Len(e), NEW i \in 1..TableEntries, NEW j \in 1..TableEntries,
               EntryOf(card3, e[k], i) = Blank, k < l \/ (k = l /\ i < j)
        PROVE  EntryOf(card3, e[l], j) = Blank
    <3>1. CASE l = Len(d) + 1
      BY <1>3, <1>4, <3>1, Zenon
    <3>2. CASE l \in 1..Len(d)
      <4>1. k \in 1..Len(d)
        BY <1>1, <1>8, <2>3, <3>2
      <4>2. EntryOf(card, d[k], i) = Blank
        BY <1>6, <2>3, <4>1
      <4>3. EntryOf(card, d[l], j) = Blank
        <5>1. InOrder(card, d) /\ (k < l \/ (k = l /\ i < j))
          BY <1>1, <2>3
        <5> QED BY <3>2, <4>1, <4>2, <5>1 DEF InOrder
      <4> QED BY <1>6, <3>2, <4>3, Zenon
    <3> QED BY <1>8, <3>1, <3>2
  <2> QED BY <2>1, <2>2, <2>3, SMTT(30) DEF InOrder
<1>11. Match(card3, ch2, x)
  <2> SUFFICES ASSUME NEW k \in 1..Len(e), NEW i \in 1..TableEntries,
                      EntryOf(card3, e[k], i).name \in Names, EntryOf(card3, e[k], i).name \notin x
               PROVE  Fits(EntryOf(card3, e[k], i), ch2)
    BY <1>3 DEF Match
  <2>1. k \in 1..Len(d)
    BY <1>3, <1>4, <1>7, <1>8
  <2>2. Fits(EntryOf(card3, e[k], i), ch)
    BY <1>1, <1>6, <2>1, Zenon DEF Match
  <2> QED BY <1>3, <2>2 DEF Fits
<1>12. Orderly(card3, ch2["none"])
  BY <1>3, <1>10, OrderlyIs
<1>13. \A k \in 1..Len(d), j \in 1..TableEntries : EntryOf(card3, d[k], j) = EntryOf(card, d[k], j)
  BY <1>3, <1>6, Zenon
<1> QED BY <1>2, <1>4, <1>11, <1>12, <1>13 DEF Tree, d, ch2

(* Cluster c is linked to the end of the directory and not cleared yet. *)
HalfLinked(w, ch, x, c) ==
  /\ WellTyped(w.card) /\ K(w.card) /\ ~Owned(ch, c)
  /\ \E card : /\ Tree(card, ch, x) /\ FatOf(card)[c] = LastLink
               /\ Flushed(w) = LinkSet(card, Dir(ch)[Len(Dir(ch))], c)

LEMMA CreateDir ==
  ASSUME NEW v, NEW ch, NEW x, NEW g, Base(v, ch, x, g),
         NEW w, w = create_chain(v, Dir(ch)[Len(Dir(ch))])
  PROVE  /\ Still(v, w) /\ Sane(w) /\ Same(v, w)
         /\ w.val \in Clusters \cup {0, 1, NoValue}
         /\ w.val \notin Clusters => Base(w, ch, x, g)
         /\ w.val \in Clusters => HalfLinked(w, ch, x, w.val)
<1> DEFINE clst == Dir(ch)[Len(Dir(ch))]
           u == get_fat(v, clst)
           F == FatOf(Flushed(v))
<1>1. /\ clst \in Clusters /\ clst # 0 /\ clst \in 1..LastCluster /\ Sane(v)
      /\ F[clst] = LastLink
  <2>1. Shape(F, ch) /\ Sane(v)
    BY BaseFacts
  <2>2. Len(Dir(ch)) \in 1..Len(Dir(ch)) /\ Dir(ch) = ch["none"]
    BY DirFacts DEF Dir
  <2>3. clst \in Clusters /\ F[clst] = LastLink
    BY <2>1, <2>2, LinkAfter
  <2>4. clst \in 1..LastCluster /\ clst # 0
    BY <2>3 DEF Clusters
  <2> QED BY <2>1, <2>3, <2>4
<1>2. w = CASE u.val < 2 -> Val(u, 1)
            [] u.val \in Clusters -> u
            [] OTHER -> TakeOf(FindFree(MarkOf(u, clst), clst), clst)
  BY <1>1, CreateIs
<1>3. Reads(v, u, ch["none"]) /\ Gets(v, u, clst)
  BY <1>1, GetFat
<1> HIDE DEF u
<1>4. Base(u, ch, x, g) /\ Still(v, u) /\ Flushed(u) = Flushed(v) /\ Sane(u)
  BY <1>3, BaseReads DEF Gets, Reads, Still
<1>5. LastLink \notin Clusters /\ ~(LastLink < 2) /\ ~(NoValue < 2) /\ \A c \in Clusters : ~(c < 2)
  BY VolumeAssumption DEF LastLink, Clusters, NoValue, n_fatent
<1>6. u.val = LastLink \/ u.val = NoValue
  BY <1>1, <1>3 DEF Gets
<1> DEFINE y == MarkOf(u, clst)
           f == FindFree(y, clst)
<1>7. w = TakeOf(f, clst)
  BY <1>2, <1>5, <1>6, NoClusters
<1>y. Core(u, y) /\ Still(u, y)
  BY <1>4, MarkIs DEF Sane
<1> HIDE DEF y
<1>z. Base(y, ch, x, g) /\ Sane(y) /\ Still(v, y) /\ Flushed(y) = Flushed(v)
  BY <1>4, <1>y, BaseCore, BaseFacts, CoreFlushed, StillTrans DEF Still
<1>8. Reads(y, f, ch["none"]) /\ f.dj = y.dj /\ FoundOk(y, f)
  BY <1>1, <1>z, FindFreeFinds, Zenon
<1> HIDE DEF f, clst
<1>9. Base(f, ch, x, g) /\ Sane(f) /\ Still(y, f) /\ FoundOk(f, f) /\ Flushed(f) = Flushed(v)
  BY <1>z, <1>8, BaseReads DEF Reads, Still, FoundOk
<1>10. Sane(w) /\ Still(f, w) /\ Same(f, w) /\ w.val \in Clusters \cup {0, 1, NoValue}
  BY <1>1, <1>7, <1>9, TakeRaw DEF FoundOk
<1>11. Still(v, w) /\ Same(v, w)
  BY <1>z, <1>9, <1>10, StillTrans, SameFlushed, SameTrans
<1>12. CASE f.val \notin Clusters
  <2>1. w = f
    BY <1>7, <1>12 DEF TakeOf
  <2> QED BY <1>9, <1>10, <1>11, <1>12, <2>1
<1>13. CASE f.val \in Clusters
  <2> DEFINE m == put_fat(f, f.val, LastLink)
             l == PutOf(f, clst)
  <2>1. w = TakenOf(l, f.val) /\ l = IF m.res = "OK" THEN put_fat(m, clst, f.val) ELSE m
    BY <1>1, <1>7, <1>13 DEF TakeOf, PutOf, LinkOf
  <2>a. FatOf(Flushed(f))[f.val] = 0 /\ f.winsect # 0
    BY <1>9, <1>13 DEF FoundOk
  <2>b. m = put_fat(f, f.val, LastLink)
    OBVIOUS
  <2> HIDE DEF m, l
  <2>2. /\ Base(m, ch, x, g) /\ m.winsect # 0 /\ ~Owned(ch, f.val)
        /\ m.res = "OK" => FatOf(Flushed(m))[f.val] = LastLink
    BY <1>9, <1>13, <2>a, <2>b, TakeFirst
  <2>3. CASE m.res # "OK"
    <3>1. l = m /\ IsVol(l)
      BY <2>1, <2>2, <2>3, BaseFacts
    <3>2. Core(l, w) /\ Still(l, w) /\ w.val \in {1, NoValue}
      BY <2>1, <2>3, <3>1, TakenFacts
    <3>3. Base(w, ch, x, g) /\ w.val \notin Clusters
      BY <2>2, <3>1, <3>2, BaseCore, NoClusters DEF Still
    <3> QED BY <1>10, <1>11, <3>3
  <2>4. CASE m.res = "OK"
    <3>1. l = put_fat(m, clst, f.val)
      BY <2>1, <2>4
    <3>2. Puts(m, l, clst, f.val)
      BY <1>1, <2>2, <3>1, PutFat, BaseFacts
    <3>3. IsVol(l)
      BY <3>2 DEF Puts, Sane
    <3>4. /\ Core(l, w) /\ Still(l, w)
          /\ l.res = "OK" => w.val = f.val
          /\ l.res # "OK" => w.val \in {1, NoValue}
      BY <2>1, <3>3, TakenFacts
    <3>5. CASE l.res # "OK"
      <4>1. Base(l, ch, x, g)
        BY <1>1, <2>2, <3>2, <3>5, BasePuts
      <4>2. Base(w, ch, x, g) /\ w.val \notin Clusters
        BY <3>4, <3>5, <4>1, BaseCore, NoClusters DEF Still
      <4> QED BY <1>10, <1>11, <4>2
    <3>6. CASE l.res = "OK"
      <4>1. Flushed(l) = LinkSet(Flushed(m), clst, f.val) /\ (l.card = m.card \/ l.card = Flushed(m))
        BY <3>2, <3>6 DEF Puts
      <4>2. Tree(Flushed(m), ch, x) /\ WellTyped(m.card) /\ K(m.card)
        BY <2>2 DEF Base
      <4>3. WellTyped(l.card) /\ K(l.card)
        BY <4>1, <4>2, TreeK
      <4>4. w.card = l.card /\ Flushed(w) = Flushed(l) /\ w.val = f.val
        BY <3>4, <3>6, CoreFlushed DEF Core
      <4>5. HalfLinked(w, ch, x, w.val)
        BY <2>2, <2>4, <4>1, <4>2, <4>3, <4>4 DEF HalfLinked, clst
      <4> QED BY <1>10, <1>11, <1>13, <4>4, <4>5
    <3> QED BY <3>5, <3>6
  <2> QED BY <2>3, <2>4
<1> QED BY <1>12, <1>13

(* A fault came where the directory ended in a cluster of no entries. *)
Wreck(w) ==
  /\ Sane(w) /\ w.mounted /\ w.stretched /\ w.hit
  /\ WellTyped(w.card) /\ K(w.card) /\ WellTyped(Flushed(w)) /\ ~Sound(Flushed(w))

(* The directory may have become longer.  The entries that were there and  *)
(* the files have stayed the same.                                         *)
MoreDir(v, ch, w, ch2) ==
  /\ ch2 \in Layouts /\ \A n \in Names : ch2[n] = ch[n]
  /\ Len(Dir(ch)) <= Len(Dir(ch2))
  /\ \A k \in 1..Len(Dir(ch)) :
       /\ Dir(ch2)[k] = Dir(ch)[k]
       /\ \A i \in 1..TableEntries : Nth(w, ch2, k, i) = Nth(v, ch, k, i)
  /\ \A k \in 1..Len(Dir(ch2)) : k \in 1..Len(Dir(ch)) \/ \A i \in 1..TableEntries : Nth(w, ch2, k, i) = Blank

LEMMA MoreDirSelf ==
  ASSUME NEW v, NEW ch \in Layouts, NEW w, Same(v, w)
  PROVE  MoreDir(v, ch, w, ch)
<1>1. Dir(ch) \in Seq(Clusters)
  BY LayoutFacts DEF Dir
<1>2. Len(Dir(ch)) \in Nat /\ \A k \in 1..Len(Dir(ch)) : Dir(ch)[k] \in Clusters
  BY <1>1, LenProperties
<1>3. \A k \in 1..Len(Dir(ch)), i \in 1..TableEntries : Nth(w, ch, k, i) = Nth(v, ch, k, i)
  BY <1>2 DEF Same, Nth, EntryOf
<1> QED BY <1>2, <1>3 DEF MoreDir

StretchOut(v, ch, w, x, g) ==
  \/ w.res = "OK" /\ \E ch2 : /\ Base(w, ch2, x, g) /\ MoreDir(v, ch, w, ch2) /\ w.dj.at = 1
                              /\ DirAt(ch2, w.dj, Len(Dir(ch2)))
                              /\ Len(Dir(ch2)) = Len(Dir(ch)) + 1
  \/ w.res # "OK" /\ \E ch2 : Base(w, ch2, x, g) /\ MoreDir(v, ch, w, ch2)
  \/ w.res # "OK" /\ Wreck(w)

ClearedOf(m, c) == [m EXCEPT !.winsect = clust2sect(c), !.wflag = TRUE, !.win = [table |-> EmptyTable]]

LEMMA StretchIs ==
  ASSUME NEW v, NEW n, n = create_chain([v EXCEPT !.stretched = TRUE], v.dj.clust),
         NEW m, m = move_window(n, 0),
         NEW q, q = ClearedOf(m, n.val),
         NEW z, z = move_window(q, 0)
  PROVE  /\ n.val = 0 => StretchTable(v) = Err(n, "DENIED")
         /\ n.val \in {1, NoValue} /\ n.val # 0 => StretchTable(v) = Err(n, ErrorOf(n.val))
         /\ n.val \in Clusters /\ m.res # "OK" => StretchTable(v) = m
         /\ n.val \in Clusters /\ m.res = "OK" /\ z.res # "OK" => StretchTable(v) = z
         /\ n.val \in Clusters /\ m.res = "OK" /\ z.res = "OK" => StretchTable(v) = TopOf(z, n.val)
<1>1. StretchTable(v) =
        CASE n.val = 0 -> Err(n, "DENIED")
          [] n.val \in {1, NoValue} -> Err(n, ErrorOf(n.val))
          [] OTHER -> IF (IF m.res = "OK" THEN z ELSE m).res = "OK" THEN TopOf(IF m.res = "OK" THEN z ELSE m, n.val)
                      ELSE IF m.res = "OK" THEN z ELSE m
  BY DEF StretchTable, OnOk, ClearedOf
<1> QED BY <1>1, NoClusters

LEMMA TopFacts ==
  ASSUME NEW v, IsVol(v), NEW c, NEW w, w = TopOf(v, c)
  PROVE  Core(v, w) /\ Later(v, w) /\ (w.stretched <=> v.stretched) /\ w.res = "OK" /\ w.dj = [clust |-> c, at |-> 1]
<1> DEFINE o == Ok(v)
<1>1. w = [o EXCEPT !.dj = [clust |-> c, at |-> 1]]
  BY DEF TopOf
<1>2. Core(v, o) /\ Still(v, o) /\ o.res = "OK"
  BY Results
<1> HIDE DEF o
<1>3. IsVol(o)
  BY <1>2 DEF Still, Later
<1>4. /\ IsVol(w) /\ w.card = o.card /\ w.winsect = o.winsect /\ w.win = o.win /\ w.left = o.left /\ w.res = o.res
      /\ w.dj = [clust |-> c, at |-> 1]
  BY <1>1, <1>3 DEF IsVol
<1>5. /\ (w.hit <=> o.hit) /\ (w.gone <=> o.gone) /\ (w.mounted <=> o.mounted)
      /\ (w.stretched <=> o.stretched) /\ (o.lost => w.lost) /\ (w.wflag <=> o.wflag)
  BY <1>1, <1>3 DEF IsVol
<1>6. Core(o, w) /\ Later(o, w)
  BY <1>4, <1>5 DEF Core, Later, Dead
<1> QED BY <1>2, <1>4, <1>5, <1>6, CoreTrans, LaterTrans DEF Still

(* The new cluster is in the window, cleared. *)
LEMMA ClearWindow ==
  ASSUME NEW m, Sane(m), ~m.wflag, NEW c \in Clusters,
         NEW q, q = ClearedOf(m, c)
  PROVE  /\ Sane(q) /\ Later(m, q) /\ (q.stretched <=> m.stretched) /\ (q.hit <=> m.hit)
         /\ q.card = m.card /\ q.winsect = clust2sect(c) /\ q.wflag /\ q.dj = m.dj
         /\ Flushed(q) = [Flushed(m) EXCEPT ![clust2sect(c)] = [table |-> EmptyTable]]
<1>0. IsVol(m) /\ IsCard(m.card) /\ DOMAIN m.card = 1..clust2sect(LastCluster) /\ Flushed(m) = m.card
  BY SaneFacts, Zenon DEF Sane, Flushed
<1>1. clust2sect(c) # 0 /\ clust2sect(c) \in 1..clust2sect(LastCluster)
  <2>1. InfoSector \in Nat /\ clust2sect(LastCluster) \in Nat
        /\ clust2sect(c) \in (InfoSector + 1)..clust2sect(LastCluster)
    BY Sectors
  <2> QED BY <2>1
<1>2. /\ IsVol(q) /\ q.card = m.card /\ q.winsect = clust2sect(c) /\ q.win = [table |-> EmptyTable] /\ q.left = m.left
      /\ q.dj = m.dj /\ q.wflag = TRUE
  BY <1>0 DEF IsVol, ClearedOf
<1>3. /\ (q.hit <=> m.hit) /\ (q.gone <=> m.gone) /\ (q.mounted <=> m.mounted)
      /\ (q.stretched <=> m.stretched) /\ (m.lost => q.lost)
  BY <1>0 DEF IsVol, ClearedOf
<1>4. Later(m, q)
  BY <1>2, <1>3 DEF Later, Dead
<1>5. Sane(q)
  BY <1>0, <1>1, <1>2, Zenon DEF Sane, True
<1>6. Flushed(q) = [m.card EXCEPT ![clust2sect(c)] = [table |-> EmptyTable]]
  BY <1>2 DEF Flushed
<1> QED BY <1>0, <1>2, <1>3, <1>4, <1>5, <1>6

LEMMA Stretch ==
  ASSUME NEW v, NEW ch, NEW x, NEW g, Base(v, ch, x, g), v.dj.clust = Dir(ch)[Len(Dir(ch))],
         NEW w, w = StretchTable(v)
  PROVE  Later(v, w) /\ w.stretched /\ StretchOut(v, ch, w, x, g)
<1> DEFINE s == [v EXCEPT !.stretched = TRUE]
           n == create_chain(s, v.dj.clust)
           m == move_window(n, 0)
           c == n.val
           q == ClearedOf(m, c)
           z == move_window(q, 0)
<1>1. /\ n.val = 0 => w = Err(n, "DENIED")
      /\ n.val \in {1, NoValue} /\ n.val # 0 => w = Err(n, ErrorOf(n.val))
      /\ n.val \in Clusters /\ m.res # "OK" => w = m
      /\ n.val \in Clusters /\ m.res = "OK" /\ z.res # "OK" => w = z
      /\ n.val \in Clusters /\ m.res = "OK" /\ z.res = "OK" => w = TopOf(z, n.val)
  BY StretchIs
<1>2. IsVol(v) /\ Core(v, s) /\ Later(v, s) /\ s.stretched
  BY BaseFacts DEF IsVol, Core, Later, Dead
<1>d. /\ n = create_chain(s, Dir(ch)[Len(Dir(ch))]) /\ m = move_window(n, 0) /\ z = move_window(q, 0)
      /\ q = ClearedOf(m, n.val)
  OBVIOUS
<1> HIDE DEF s, n, m, q, z
<1>3. Base(s, ch, x, g) /\ Flushed(s) = Flushed(v) /\ ch \in Layouts
  BY <1>2, BaseCore, CoreFlushed, BaseFacts
<1>4. /\ Still(s, n) /\ Sane(n) /\ Same(s, n) /\ n.val \in Clusters \cup {0, 1, NoValue}
      /\ n.val \notin Clusters => Base(n, ch, x, g)
      /\ n.val \in Clusters => HalfLinked(n, ch, x, n.val)
  BY <1>3, <1>d, CreateDir
<1>5. Later(v, n) /\ n.stretched /\ Same(v, n)
  BY <1>2, <1>3, <1>4, LaterTrans, SameFlushed, SameTrans DEF Still
<1>6. CASE n.val \notin Clusters
  <2>1. PICK r : w = Err(n, r) /\ r # "OK"
    BY <1>1, <1>4, <1>6 DEF ErrorOf
  <2>2. Core(n, w) /\ Still(n, w) /\ w.res = r
    BY <1>4, <2>1, Results DEF Sane
  <2>3. Base(w, ch, x, g) /\ Same(v, w) /\ Later(v, w) /\ w.stretched
    BY <1>4, <1>5, <1>6, <2>2, BaseCore, SameCore, SameTrans, LaterTrans DEF Still
  <2>4. MoreDir(v, ch, w, ch)
    BY <1>3, <2>3, MoreDirSelf
  <2> QED BY <2>1, <2>2, <2>3, <2>4 DEF StretchOut
<1>7. CASE n.val \in Clusters
  <2>1. PICK card : /\ Tree(card, ch, x) /\ FatOf(card)[c] = LastLink /\ ~Owned(ch, c)
                    /\ Flushed(n) = LinkSet(card, Dir(ch)[Len(Dir(ch))], c)
    BY <1>4, <1>7 DEF HalfLinked
  <2>2. WellTyped(Flushed(n)) /\ ~Sound(Flushed(n)) /\ WellTyped(n.card) /\ K(n.card)
    BY <1>4, <1>7, <2>1, Torn DEF HalfLinked
  <2>3. Moves(n, m, 0) /\ Sane(m)
    <3>1. Placed(0, <<>>)
      BY Sectors DEF Placed
    <3> QED BY <1>4, <1>d, <3>1, MoveReads DEF Reads
  <2>4. /\ Later(v, m) /\ m.stretched /\ Flushed(m) = Flushed(n) /\ WellTyped(m.card) /\ K(m.card)
    BY <1>5, <2>2, <2>3, LaterTrans DEF Moves, Still, Later, K
  <2>5. m.mounted
    BY <2>4 DEF Later, Base
  <2>6. CASE m.res # "OK"
    <3>1. Wreck(m) /\ w = m
      BY <1>1, <1>7, <2>2, <2>3, <2>4, <2>5, <2>6 DEF Wreck, Moves
    <3> QED BY <2>4, <2>6, <3>1 DEF StretchOut
  <2>7. CASE m.res = "OK"
    <3>1. ~m.wflag /\ m.card = Flushed(m) /\ m.card = Flushed(n)
      BY <2>3, <2>4, <2>7 DEF Moves, Flushed
    <3>2. /\ Sane(q) /\ Later(m, q) /\ (q.stretched <=> m.stretched)
          /\ q.card = m.card /\ q.winsect = clust2sect(c) /\ q.wflag
          /\ Flushed(q) = [Flushed(m) EXCEPT ![clust2sect(c)] = [table |-> EmptyTable]]
      <4>1. c \in Clusters /\ Sane(m) /\ ~m.wflag
            /\ q = ClearedOf(m, c)
        BY <1>7, <1>d, <2>3, <3>1
      <4> HIDE DEF c
      <4> QED BY <4>1, ClearWindow
    <3> DEFINE ch2 == Longer(ch, "none", c)
    <3>3. /\ Tree(Flushed(q), ch2, x)
          /\ \A j \in 1..TableEntries : EntryOf(Flushed(q), c, j) = Blank
          /\ \A k \in 1..Len(Dir(ch)), j \in 1..TableEntries :
               EntryOf(Flushed(q), Dir(ch)[k], j) = EntryOf(card, Dir(ch)[k], j)
      BY <1>7, <2>1, <2>4, <3>2, Cleared
    <3>4. /\ ch2 \in Layouts /\ Dir(ch2) \in Seq(Clusters) /\ Len(Dir(ch2)) = Len(Dir(ch)) + 1
          /\ Dir(ch2)[Len(Dir(ch)) + 1] = c /\ (\A k \in 1..Len(Dir(ch)) : Dir(ch2)[k] = Dir(ch)[k])
          /\ \A i \in Names : ch2[i] = ch[i]
      <4>1. Dir(ch2) = Append(Dir(ch), c) /\ \A i \in Names : ch2[i] = ch[i]
        BY <1>3, NamesAssumption DEF Longer, Layouts, Dir
      <4>2. Dir(ch) \in Seq(Clusters)
        BY <1>3, LayoutFacts DEF Dir
      <4>3. ch2 \in Layouts
        BY <3>3 DEF Tree, Shape
      <4> HIDE DEF ch2
      <4>4. Dir(ch2) = Append(Dir(ch), c)
        BY <4>1
      <4>5. /\ Dir(ch2) \in Seq(Clusters) /\ Len(Dir(ch2)) = Len(Dir(ch)) + 1
            /\ Dir(ch2)[Len(Dir(ch)) + 1] = c /\ (\A k \in 1..Len(Dir(ch)) : Dir(ch2)[k] = Dir(ch)[k])
        BY <1>7, <4>2, <4>4, AppendIs
      <4> QED BY <4>1, <4>3, <4>5
    <3> HIDE DEF ch2
    <3>5. Moves(q, z, 0) /\ Sane(z)
      <4>1. Placed(0, <<>>)
        BY Sectors DEF Placed
      <4> QED BY <1>d, <3>2, <4>1, MoveReads DEF Reads
    <3>6. /\ Later(v, z) /\ z.stretched /\ Flushed(z) = Flushed(q) /\ z.mounted
          /\ z.winsect \in {0, clust2sect(c)} /\ (z.res # "OK" => z.hit)
      BY <2>4, <2>5, <3>2, <3>5, LaterTrans DEF Moves, Still, Later
    <3>7. WellTyped(z.card) /\ K(z.card)
      BY <2>4, <3>2, <3>3, <3>5, TreeK DEF Moves
    <3>8. z.res = "OK" => z.card = Flushed(z)
      BY <3>5, <3>6 DEF Moves, Flushed
    <3>9. Placed(z.winsect, ch2["none"])
      <4>1. Len(Dir(ch)) + 1 \in 1..Len(ch2["none"])
        BY <3>4, DirFacts DEF Dir
      <4>2. 0 \in 0..(InfoSector - 1)
        BY Sectors
      <4>3. ch2["none"][Len(Dir(ch)) + 1] = c
        BY <3>4 DEF Dir
      <4> QED BY <3>6, <4>1, <4>2, <4>3 DEF Placed
    <3>10. Base(z, ch2, x, g)
      <4>1. g => x = {}
        BY DEF Base
      <4>2. x = {} /\ z.res = "OK" => Sound(z.card)
        BY <3>3, <3>6, <3>8, TreeK
      <4> QED BY <3>3, <3>5, <3>6, <3>7, <3>9, <4>1, <4>2 DEF Base
    <3>11. MoreDir(v, ch, z, ch2)
      <4>1. ASSUME NEW k \in 1..Len(Dir(ch)), NEW j \in 1..TableEntries
            PROVE  Nth(z, ch2, k, j) = Nth(v, ch, k, j)
        <5>1. EntryOf(Flushed(z), Dir(ch)[k], j) = EntryOf(card, Dir(ch)[k], j)
          BY <3>3, <3>6
        <5>2. EntryOf(Flushed(n), Dir(ch)[k], j) = EntryOf(card, Dir(ch)[k], j)
          <6>1. Dir(ch)[k] \in Clusters
            BY DirFacts
          <6>2. Flushed(n)[clust2sect(Dir(ch)[k])] = card[clust2sect(Dir(ch)[k])]
            BY <1>7, <2>1, <6>1, Torn
          <6> QED BY <6>2 DEF EntryOf
        <5>3. EntryOf(Flushed(n), Dir(ch)[k], j) = EntryOf(Flushed(v), Dir(ch)[k], j)
          BY <1>5, DirFacts DEF Same, EntryOf
        <5> QED BY <3>4, <5>1, <5>2, <5>3 DEF Nth
      <4>2. ASSUME NEW k \in 1..Len(Dir(ch2)), k \notin 1..Len(Dir(ch)), NEW j \in 1..TableEntries
            PROVE  Nth(z, ch2, k, j) = Blank
        <5>1. k = Len(Dir(ch)) + 1
          BY <3>4, <4>2, DirFacts
        <5> QED BY <3>3, <3>4, <3>6, <5>1 DEF Nth
      <4>3. Len(Dir(ch)) <= Len(Dir(ch2))
        BY <3>4, DirFacts
      <4> QED BY <3>4, <4>1, <4>2, <4>3 DEF MoreDir
    <3>12. CASE z.res # "OK"
      BY <1>1, <1>7, <2>7, <3>6, <3>10, <3>11, <3>12 DEF StretchOut
    <3>13. CASE z.res = "OK"
      <4>1. w = TopOf(z, c)
        BY <1>1, <1>7, <2>7, <3>13
      <4>2. Core(z, w) /\ Later(z, w) /\ (w.stretched <=> z.stretched) /\ w.res = "OK" /\ w.dj = [clust |-> c, at |-> 1]
        BY <3>5, <4>1, TopFacts DEF Sane
      <4>3. Base(w, ch2, x, g) /\ Later(v, w) /\ w.stretched /\ Flushed(w) = Flushed(z)
        BY <3>6, <3>10, <4>2, BaseCore, LaterTrans, CoreFlushed
      <4>4. MoreDir(v, ch, w, ch2)
        BY <3>11, <4>3 DEF MoreDir, Nth
      <4>5. DirAt(ch2, w.dj, Len(Dir(ch2))) /\ w.dj.at = 1
        BY <3>4, <4>2, DirFacts DEF DirAt
      <4> QED BY <3>4, <4>2, <4>3, <4>4, <4>5 DEF StretchOut
    <3> QED BY <3>12, <3>13
  <2> QED BY <2>6, <2>7
<1> QED BY <1>6, <1>7

-----------------------------------------------------------------------------
(* dir_register. *)

LEMMA RewoundFacts ==
  ASSUME NEW v, NEW ch, NEW x, NEW g, Base(v, ch, x, g), NEW w, w = Rewound(v)
  PROVE  Base(w, ch, x, g) /\ Core(v, w) /\ Later(v, w) /\ (w.stretched <=> v.stretched) /\ w.dj = DirTop /\ w.res = v.res
         /\ DirAt(ch, w.dj, 1) /\ w.dj.at = 1 /\ Reads(v, w, Dir(ch))
<1>0. IsVol(v) /\ Sane(v)
  BY BaseFacts
<1>1. w = [v EXCEPT !.dj = DirTop]
  BY DEF Rewound
<1>2. /\ IsVol(w) /\ w.card = v.card /\ w.winsect = v.winsect /\ w.win = v.win /\ w.left = v.left /\ w.res = v.res
      /\ w.dj = DirTop
  BY <1>0, <1>1 DEF IsVol
<1>3. /\ (w.hit <=> v.hit) /\ (w.gone <=> v.gone) /\ (w.mounted <=> v.mounted)
      /\ (w.stretched <=> v.stretched) /\ (v.lost => w.lost) /\ (w.wflag <=> v.wflag)
  BY <1>0, <1>1 DEF IsVol
<1>4. Core(v, w) /\ Later(v, w)
  BY <1>2, <1>3 DEF Core, Later, Dead
<1>5. 1 \in 1..Len(Dir(ch)) /\ Dir(ch)[1] = dirbase /\ 1 \in 1..TableEntries
  BY DirFacts
<1>6. DirTop.at = 1 /\ DirTop = [clust |-> dirbase, at |-> 1]
  BY DEF DirTop
<1>7. DirAt(ch, w.dj, 1) /\ w.dj.at = 1
  BY <1>2, <1>5, <1>6 DEF DirAt
<1> QED BY <1>0, <1>2, <1>3, <1>4, <1>7, BaseCore, CoreReads

(* No entry has the name. *)
Absent(v, ch, n) == \A k \in 1..Len(Dir(ch)), i \in 1..TableEntries : Nth(v, ch, k, i).name # n

FirstAt(v, ch, k, i) == DirAt(ch, v.dj, k) /\ v.dj.at = i

LEMMA NotBefore ==
  ASSUME NEW l \in Nat, l >= 1, NEW j \in Nat, j >= 1
  PROVE  ~Before(l, j, 1, 1)
BY DEF Before

(* dir_find. *)
Finds(v, w, ch, n) ==
  /\ w.res \in {"OK", "NO_FILE", "DISK_ERR", "INT_ERR"}
  /\ w.res = "OK" => \E k \in 1..Len(Dir(ch)) :
       /\ DirAt(ch, w.dj, k) /\ w.winsect = clust2sect(w.dj.clust)
       /\ EntryAt(w, w.dj) = Nth(v, ch, k, w.dj.at) /\ Nth(v, ch, k, w.dj.at).name = n
  /\ w.res = "NO_FILE" => Absent(v, ch, n)

LEMMA DirFind ==
  ASSUME NEW v, NEW ch, NEW x, NEW g, Base(v, ch, x, g), NEW n \in Names, NEW w, w = dir_find(v, n)
  PROVE  Reads(v, w, Dir(ch)) /\ Base(w, ch, x, g) /\ Finds(v, w, ch, n)
<1> DEFINE r == Rewound(v)
<1>1. /\ Base(r, ch, x, g) /\ DirAt(ch, r.dj, 1) /\ r.dj.at = 1 /\ Reads(v, r, Dir(ch))
  BY RewoundFacts
<1>2. w = Scan(r, n)
  BY DEF dir_find
<1> HIDE DEF r
<1>3. Reads(r, w, Dir(ch)) /\ Scanned(r, w, ch, n, 1, 1)
  BY <1>1, <1>2, Scans
<1>4. Reads(v, w, Dir(ch)) /\ Base(w, ch, x, g) /\ Flushed(r) = Flushed(v)
  BY <1>1, <1>3, ReadsTrans, BaseReads DEF Dir, Reads
<1>5. \A k, i : Nth(r, ch, k, i) = Nth(v, ch, k, i)
  BY <1>4 DEF Nth
<1>6. n # "blank" /\ n # "any"
  BY NamesAssumption
<1>7. ASSUME w.res = "OK"
      PROVE  \E k \in 1..Len(Dir(ch)) :
               /\ DirAt(ch, w.dj, k) /\ w.winsect = clust2sect(w.dj.clust)
               /\ EntryAt(w, w.dj) = Nth(v, ch, k, w.dj.at) /\ Nth(v, ch, k, w.dj.at).name = n
  <2>1. PICK k \in 1..Len(Dir(ch)) :
          /\ DirAt(ch, w.dj, k) /\ w.winsect = clust2sect(w.dj.clust)
          /\ EntryAt(w, w.dj) = Nth(r, ch, k, w.dj.at) /\ Wanted(Nth(r, ch, k, w.dj.at), n)
    BY <1>3, <1>7 DEF Scanned, Hits
  <2>2. Nth(v, ch, k, w.dj.at).name = n
    BY <1>5, <1>6, <2>1 DEF Wanted
  <2> QED BY <1>5, <2>1, <2>2
<1>8. ASSUME w.res = "NO_FILE" PROVE Absent(v, ch, n)
  <2> SUFFICES ASSUME NEW k \in 1..Len(Dir(ch)), NEW i \in 1..TableEntries PROVE Nth(v, ch, k, i).name # n
    BY DEF Absent
  <2>1. ~Before(k, i, 1, 1)
    BY NotBefore
  <2>2. ~Wanted(Nth(r, ch, k, i), n)
    BY <1>3, <1>8, <2>1 DEF Scanned, Misses
  <2> QED BY <1>5, <1>6, <2>2 DEF Wanted
<1> QED BY <1>3, <1>4, <1>7, <1>8 DEF Finds, Scanned

(* A blank entry is found, or made by stretching the directory. *)
PlaceOf(v) == LET p == Scan(Rewound(v), "blank") IN IF p.res = "NO_FILE" THEN StretchTable(p) ELSE p

Placing(v, ch, w, x, g) ==
  \/ w.res = "OK" /\ \E ch2 : \E k \in 1..Len(Dir(ch2)) :
       /\ Base(w, ch2, x, g) /\ MoreDir(v, ch, w, ch2) /\ DirAt(ch2, w.dj, k)
       /\ IsBlank(Nth(w, ch2, k, w.dj.at)) /\ Free(Flushed(w), Dir(ch2), k, w.dj.at)
  \/ w.res # "OK" /\ \E ch2 : Base(w, ch2, x, g) /\ MoreDir(v, ch, w, ch2)
  \/ w.res # "OK" /\ Wreck(w)

LEMMA Places1 ==
  ASSUME NEW v, NEW ch, NEW x, NEW g, Base(v, ch, x, g), NEW w, w = PlaceOf(v)
  PROVE  Later(v, w) /\ Placing(v, ch, w, x, g)
<1> DEFINE r == Rewound(v)
           p == Scan(r, "blank")
<1>1. /\ Base(r, ch, x, g) /\ DirAt(ch, r.dj, 1) /\ r.dj.at = 1 /\ Reads(v, r, Dir(ch))
  BY RewoundFacts
<1>2. w = IF p.res = "NO_FILE" THEN StretchTable(p) ELSE p
  BY DEF PlaceOf
<1>p. p = Scan(r, "blank")
  OBVIOUS
<1> HIDE DEF r, p
<1>3. Reads(r, p, Dir(ch)) /\ Scanned(r, p, ch, "blank", 1, 1)
  BY <1>1, <1>p, Scans
<1>4. Reads(v, p, Dir(ch)) /\ Base(p, ch, x, g) /\ Flushed(p) = Flushed(v) /\ Flushed(r) = Flushed(v) /\ Later(v, p)
  BY <1>1, <1>3, ReadsTrans, BaseReads DEF Dir, Reads
<1>5. /\ \A k, i : Nth(r, ch, k, i) = Nth(p, ch, k, i) /\ Nth(p, ch, k, i) = Nth(v, ch, k, i)
      /\ MoreDir(v, ch, p, ch)
  BY <1>4, SameFlushed, MoreDirSelf, BaseFacts DEF Nth
<1>6. \A e : Wanted(e, "blank") <=> IsBlank(e)
  BY DEF Wanted
<1>7. IsBlank(Blank)
  BY DEF IsBlank, Blank
<1>8. CASE p.res = "OK"
  <2>1. PICK k \in 1..Len(Dir(ch)) :
          /\ DirAt(ch, p.dj, k) /\ Wanted(Nth(r, ch, k, p.dj.at), "blank")
          /\ Passed(r, ch, "blank", 1, 1, k, p.dj.at)
    BY <1>3, <1>8 DEF Scanned, Hits
  <2>2. ASSUME NEW l \in 1..Len(Dir(ch)), NEW j \in 1..TableEntries, Before(l, j, k, p.dj.at)
        PROVE  EntryOf(Flushed(p), Dir(ch)[l], j) # Blank
    <3>1. ~Before(l, j, 1, 1)
      BY NotBefore
    <3>2. ~IsBlank(Nth(r, ch, l, j))
      BY <1>6, <2>1, <2>2, <3>1 DEF Passed
    <3> QED BY <1>5, <1>7, <3>2 DEF Nth
  <2>3. Free(Flushed(p), Dir(ch), k, p.dj.at)
    BY <2>2 DEF Free
  <2>4. IsBlank(Nth(p, ch, k, p.dj.at))
    BY <1>5, <1>6, <2>1
  <2>5. w = p
    BY <1>2, <1>8
  <2> QED BY <1>4, <1>5, <1>8, <2>1, <2>3, <2>4, <2>5 DEF Placing
<1>9. CASE p.res = "NO_FILE"
  <2>1. w = StretchTable(p)
    BY <1>2, <1>9
  <2>2. DirAt(ch, p.dj, Len(Dir(ch)))
        /\ \A l \in 1..Len(Dir(ch)), j \in 1..TableEntries : ~IsBlank(Nth(p, ch, l, j))
    <3>1. Misses(r, p, ch, "blank", 1, 1)
      BY <1>3, <1>9 DEF Scanned
    <3>2. \A l \in 1..Len(Dir(ch)), j \in 1..TableEntries : ~IsBlank(Nth(r, ch, l, j))
      BY <1>6, <3>1, NotBefore DEF Misses
    <3> QED BY <1>5, <3>1, <3>2 DEF Misses
  <2>3. p.dj.clust = Dir(ch)[Len(Dir(ch))]
    BY <2>2 DEF DirAt
  <2>4. Later(p, w) /\ StretchOut(p, ch, w, x, g)
    BY <1>4, <2>1, <2>3, Stretch
  <2>5. Later(v, w)
    BY <1>4, <2>4, LaterTrans
  <2>6. \A ch2 : MoreDir(p, ch, w, ch2) => MoreDir(v, ch, w, ch2)
    BY <1>5 DEF MoreDir
  <2>7. CASE w.res # "OK"
    BY <2>4, <2>5, <2>6, <2>7 DEF StretchOut, Placing
  <2>8. CASE w.res = "OK"
    <3>1. PICK ch2 : /\ Base(w, ch2, x, g) /\ MoreDir(p, ch, w, ch2) /\ w.dj.at = 1
                     /\ DirAt(ch2, w.dj, Len(Dir(ch2)))
                     /\ Len(Dir(ch2)) = Len(Dir(ch)) + 1
      BY <2>4, <2>8 DEF StretchOut
    <3>2. /\ Len(Dir(ch)) \in Nat /\ Len(Dir(ch2)) \in 1..Len(Dir(ch2)) /\ Len(Dir(ch2)) \notin 1..Len(Dir(ch))
          /\ 1 \in 1..TableEntries
      BY <3>1, DirFacts DEF DirAt
    <3>3. Nth(w, ch2, Len(Dir(ch2)), 1) = Blank
      BY <3>1, <3>2 DEF MoreDir
    <3>4. ASSUME NEW l \in 1..Len(Dir(ch2)), NEW j \in 1..TableEntries, Before(l, j, Len(Dir(ch2)), 1)
          PROVE  EntryOf(Flushed(w), Dir(ch2)[l], j) # Blank
      <4>1. l \in 1..Len(Dir(ch))
        BY <3>1, <3>2, <3>4 DEF Before
      <4>2. Nth(w, ch2, l, j) = Nth(p, ch, l, j)
        BY <3>1, <4>1 DEF MoreDir
      <4> QED BY <1>7, <2>2, <4>1, <4>2 DEF Nth
    <3>5. Free(Flushed(w), Dir(ch2), Len(Dir(ch2)), w.dj.at)
      BY <3>1, <3>4 DEF Free
    <3> QED BY <1>7, <2>5, <2>6, <2>8, <3>1, <3>2, <3>3, <3>5 DEF Placing
  <2> QED BY <2>7, <2>8
<1>10. CASE p.res \notin {"OK", "NO_FILE"}
  BY <1>2, <1>4, <1>5, <1>10 DEF Placing
<1> QED BY <1>8, <1>9, <1>10

LEMMA NthSet ==
  ASSUME NEW v, NEW ch, NEW x, NEW g, Base(v, ch, x, g), NEW k \in 1..Len(Dir(ch)), NEW i \in 1..TableEntries,
         NEW e \in Entries, NEW w, Flushed(w) = EntrySet(Flushed(v), Dir(ch)[k], i, e)
  PROVE  \A l \in 1..Len(Dir(ch)), j \in 1..TableEntries :
           Nth(w, ch, l, j) = IF l = k /\ j = i THEN e ELSE Nth(v, ch, l, j)
<1>1. /\ WellTyped(Flushed(v)) /\ Shape(FatOf(Flushed(v)), ch)
      /\ \A l \in 1..Len(Dir(ch)) : Dir(ch)[l] \in Clusters /\ IsTable(Flushed(v), Dir(ch)[l])
  BY DirFacts, BaseFacts
<1>2. \A l, m \in 1..Len(Dir(ch)) : Dir(ch)[l] = Dir(ch)[m] => l = m
  BY <1>1 DEF Shape, Apart, Dir
<1>3. \A c \in Clusters : \A j \in 1..TableEntries : IsTable(Flushed(v), c) =>
         EntryOf(Flushed(w), c, j) = IF c = Dir(ch)[k] /\ j = i THEN e ELSE EntryOf(Flushed(v), c, j)
  BY <1>1, EntrySetFacts
<1> QED BY <1>1, <1>2, <1>3 DEF Nth

(* An entry that is not blank was put at (k, i), where there was none. *)
Stored(v, ch, w, ch2, k, i, e) ==
  /\ ch2 \in Layouts /\ \A n \in Names : ch2[n] = ch[n]
  /\ Len(Dir(ch)) <= Len(Dir(ch2))
  /\ \A l \in 1..Len(Dir(ch)) : Dir(ch2)[l] = Dir(ch)[l]
  /\ Nth(w, ch2, k, i) = e
  /\ \A l \in 1..Len(Dir(ch2)), j \in 1..TableEntries : ~(l = k /\ j = i) =>
       Nth(w, ch2, l, j) = IF l \in 1..Len(Dir(ch)) THEN Nth(v, ch, l, j) ELSE Blank
  /\ k \in 1..Len(Dir(ch)) => IsBlank(Nth(v, ch, k, i))

Fresh(n) == [Blank EXCEPT !.name = n]

LEMMA FreshFacts ==
  ASSUME NEW n \in Names
  PROVE  /\ Fresh(n) \in Entries /\ Fresh(n).name = n /\ Fresh(n).start = 0 /\ Fresh(n).size = 0 /\ Fresh(n) # Blank
         /\ ~IsBlank(Fresh(n)) /\ \A ch : Fits(Fresh(n), ch)
<1>1. n \notin {"blank", "deleted"}
  BY NamesAssumption
<1>2. Fresh(n) = [name |-> n, start |-> 0, size |-> 0]
  BY DEF Fresh, Blank
<1>3. Fresh(n).name = n /\ Fresh(n).start = 0 /\ Fresh(n).size = 0 /\ Blank.name = "blank"
  BY <1>2 DEF Blank
<1>4. Fresh(n) \in Entries
  BY <1>2 DEF Entries
<1> QED BY <1>1, <1>3, <1>4 DEF IsBlank, Fits

Registering(v, ch, w, x, g, n) ==
  \/ w.res = "OK" /\ \E ch2 : \E k \in 1..Len(Dir(ch2)) :
       /\ Base(w, ch2, x, g) /\ DirAt(ch2, w.dj, k) /\ w.winsect = clust2sect(w.dj.clust) /\ w.wflag
       /\ Stored(v, ch, w, ch2, k, w.dj.at, Fresh(n)) /\ EntryAt(w, w.dj) = Fresh(n)
  \/ w.res # "OK" /\ \E ch2 : Base(w, ch2, x, g) /\ MoreDir(v, ch, w, ch2)
  \/ w.res # "OK" /\ Wreck(w)

LEMMA Registers ==
  ASSUME NEW v, NEW ch, NEW x, NEW g, Base(v, ch, x, g), NEW n \in Names, Absent(v, ch, n),
         NEW w, w = dir_register(v, n)
  PROVE  Later(v, w) /\ Registering(v, ch, w, x, g, n)
<1> DEFINE p == PlaceOf(v)
           m == move_window(p, clust2sect(p.dj.clust))
           e == Fresh(n)
           s == Store(m, m.dj, e)
<1>1. /\ p.res # "OK" => w = p
      /\ p.res = "OK" /\ m.res # "OK" => w = m
      /\ p.res = "OK" /\ m.res = "OK" => w = s
  <2>1. w = LET a == IF p.res = "OK" THEN m ELSE p IN IF a.res = "OK" THEN Store(a, a.dj, e) ELSE a
    BY DEF dir_register, OnOk, PlaceOf, Fresh
  <2> HIDE DEF p, m, e
  <2> QED BY <2>1
<1>2. Later(v, p) /\ Placing(v, ch, p, x, g)
  BY Places1
<1>m. m = move_window(p, clust2sect(p.dj.clust)) /\ s = Store(m, m.dj, e)
  OBVIOUS
<1> HIDE DEF p, m, s
<1>3. CASE p.res # "OK"
  BY <1>1, <1>2, <1>3 DEF Placing, Registering
<1>4. CASE p.res = "OK"
  <2>1. PICK ch2, k : /\ k \in 1..Len(Dir(ch2))
                      /\ Base(p, ch2, x, g) /\ MoreDir(v, ch, p, ch2) /\ DirAt(ch2, p.dj, k)
                      /\ IsBlank(Nth(p, ch2, k, p.dj.at)) /\ Free(Flushed(p), Dir(ch2), k, p.dj.at)
    BY <1>2, <1>4 DEF Placing
  <2>2. /\ Reads(p, m, Dir(ch2)) /\ m.dj = p.dj /\ m.res \in {"OK", "DISK_ERR"}
        /\ m.res = "OK" => m.winsect = clust2sect(p.dj.clust)
    BY <1>m, <2>1, MoveToDir
  <2>3. Base(m, ch2, x, g) /\ Flushed(m) = Flushed(p) /\ Later(v, m)
    BY <1>2, <2>1, <2>2, BaseReads, LaterTrans DEF Dir, Reads
  <2>4. MoreDir(v, ch, m, ch2)
    BY <2>1, <2>3 DEF MoreDir, Nth
  <2>5. CASE m.res # "OK"
    BY <1>1, <1>4, <2>3, <2>4, <2>5 DEF Registering
  <2>6. CASE m.res = "OK"
    <3>1. w = s
      BY <1>1, <1>4, <2>6
    <3>2. e \in Entries /\ e.name = n /\ ~IsBlank(e) /\ e # Blank /\ Fits(e, ch2)
      BY FreshFacts
    <3> DEFINE i == m.dj.at
    <3>3. DirAt(ch2, m.dj, k) /\ m.winsect = clust2sect(m.dj.clust) /\ i \in 1..TableEntries
      BY <2>1, <2>2, <2>6 DEF DirAt
    <3> HIDE DEF e
    <3>4. /\ Still(m, s) /\ s.res = m.res /\ s.winsect = m.winsect /\ s.wflag
          /\ Flushed(s) = EntrySet(Flushed(m), Dir(ch2)[k], i, e) /\ EntryAt(s, m.dj) = e
      BY <1>m, <2>3, <3>2, <3>3, StoreIs
    <3>5. \A l \in 1..Len(Dir(ch2)), j \in 1..TableEntries : Nth(m, ch2, l, j).name # n
      <4>1. Blank.name # n
        BY NamesAssumption DEF Blank
      <4> QED BY <2>4, <4>1 DEF MoreDir, Absent
    <3>6. Sole(Flushed(m), Dir(ch2), k, i, e) /\ Free(Flushed(m), Dir(ch2), k, i)
      BY <2>1, <2>2, <2>3, <3>2, <3>5 DEF Sole, Nth
    <3>7. Tree(EntrySet(Flushed(m), Dir(ch2)[k], i, e), ch2, x)
      <4>1. Tree(Flushed(m), ch2, x)
        BY <2>3, BaseFacts
      <4> QED BY <2>1, <3>2, <3>3, <3>6, <4>1, EntryTree, Zenon
    <3>8. g => x = {}
      BY DEF Base
    <3>9. Base(s, ch2, x, g)
      BY <1>m, <2>3, <3>2, <3>3, <3>7, <3>8, BaseStore
    <3>10. \A l \in 1..Len(Dir(ch2)), j \in 1..TableEntries :
             Nth(s, ch2, l, j) = IF l = k /\ j = i THEN e ELSE Nth(m, ch2, l, j)
      BY <2>1, <2>3, <3>2, <3>3, <3>4, NthSet
    <3>11. k \in 1..Len(Dir(ch)) => IsBlank(Nth(v, ch, k, i))
      <4>1. Nth(m, ch2, k, i) = Nth(p, ch2, k, i)
        BY <2>3 DEF Nth
      <4> QED BY <2>1, <2>2, <2>4, <3>3, <4>1 DEF MoreDir
    <3>12. Stored(v, ch, s, ch2, k, i, e)
      BY <2>1, <2>4, <3>3, <3>10, <3>11 DEF MoreDir, Stored
    <3>13. s.dj = m.dj /\ Later(v, s)
      BY <2>3, <3>4, LaterTrans DEF Still
    <3> QED BY <2>1, <2>6, <3>1, <3>3, <3>4, <3>9, <3>12, <3>13 DEF Registering, e
  <2> QED BY <2>2, <2>5, <2>6
<1> QED BY <1>3, <1>4

-----------------------------------------------------------------------------
(* Transfers past the window: data, and FSInfo. *)

(* The tables are the same. *)
Tabled(v, w) ==
  \A c \in Clusters : IsTable(Flushed(v), c) => Flushed(w)[clust2sect(c)] = Flushed(v)[clust2sect(c)]

LEMMA TabledTrans ==
  ASSUME NEW v, NEW w, NEW u, Tabled(v, w), Tabled(w, u)
  PROVE  Tabled(v, u)
BY DEF Tabled, IsTable

LEMMA SameTabled ==
  ASSUME NEW v, NEW w, Same(v, w)
  PROVE  Tabled(v, w)
BY DEF Same, Tabled

Written(card, s, y) == [card EXCEPT ![s] = y]

LEMMA DiskWrites ==
  ASSUME NEW v, IsVol(v), NEW s, NEW y, NEW w, w = disk_write(v, s, y)
  PROVE  /\ Still(v, w) /\ w.winsect = v.winsect /\ w.win = v.win /\ (w.wflag <=> v.wflag)
         /\ w.res \in {"OK", "DISK_ERR"}
         /\ w.res = "OK" => w.card = Written(v.card, s, y)
         /\ w.res # "OK" => w.hit /\ w.card = v.card
BY DiskWrite DEF Written

(* A sector that is none of the FAT's and no table. *)
Beside(card, s, y) ==
  s = InfoSector \/ \E c \in Clusters : s = clust2sect(c) /\ ~IsTable(card, c) /\
                                        "data" \in DOMAIN y /\ "table" \notin DOMAIN y

LEMMA BesideFacts ==
  ASSUME NEW card, WellTyped(card), K(card), NEW s, NEW y, Beside(card, s, y),
         NEW card2, card2 = Written(card, s, y)
  PROVE  /\ WellTyped(card2) /\ Alike(card, card2) /\ FatOf(card2) = FatOf(card)
         /\ K(card2) /\ (Sound(card) => Sound(card2))
<1>1. WellTyped(card2) /\ Alike(card, card2) /\ FatOf(card2) = FatOf(card)
  BY DataSetFacts, Zenon DEF Beside, Written
<1>2. Alike(card2, card)
  BY <1>1 DEF Alike
<1>3. Sound(card) => Sound(card2) /\ (Formatted(card) => Formatted(card2))
  BY <1>1, AlikeSound
<1>4. Sound(card2) => Sound(card)
  BY <1>1, <1>2, AlikeSound
<1> QED BY <1>1, <1>3, <1>4 DEF K

LEMMA AlikeTabled ==
  ASSUME NEW v, NEW w, Alike(Flushed(v), Flushed(w))
  PROVE  Tabled(v, w)
BY DEF Alike, Tabled

(* It is written beside the window. *)
LEMMA BaseBeside ==
  ASSUME NEW v, NEW ch, NEW x, NEW g, Base(v, ch, x, g), NEW s, NEW y,
         s # v.winsect, Beside(Flushed(v), s, y), s \in 1..clust2sect(LastCluster),
         NEW w, Still(v, w), w.winsect = v.winsect, w.win = v.win, w.wflag <=> v.wflag,
         w.card = Written(v.card, s, y)
  PROVE  Base(w, ch, x, g) /\ Tabled(v, w)
<1>1. /\ Sane(v) /\ IsVol(v) /\ True(v) /\ WellTyped(Flushed(v)) /\ Tree(Flushed(v), ch, x)
      /\ Shape(FatOf(Flushed(v)), ch) /\ WellTyped(v.card) /\ K(v.card) /\ Placed(v.winsect, ch["none"])
      /\ g => x = {} /\ ((v.stretched /\ v.hit) \/ Sound(v.card))
  BY BaseFacts DEF Base, Sane
<1>2. /\ DOMAIN v.card = 1..clust2sect(LastCluster) /\ DOMAIN Flushed(v) = DOMAIN v.card
      /\ \A t \in DOMAIN v.card : t # v.winsect => Flushed(v)[t] = v.card[t]
  BY <1>1, SaneFacts, FlushedFacts
<1>3. Beside(v.card, s, y)
  BY <1>2 DEF Beside, IsTable
<1>4. Flushed(w) = Written(Flushed(v), s, y)
  BY <1>2 DEF Flushed, Written
<1>5. /\ WellTyped(w.card) /\ K(w.card) /\ (Sound(v.card) => Sound(w.card))
  BY <1>1, <1>3, BesideFacts
<1>6. K(Flushed(v))
  BY <1>1, TreeK
<1>7. /\ WellTyped(Flushed(w)) /\ Alike(Flushed(v), Flushed(w)) /\ FatOf(Flushed(w)) = FatOf(Flushed(v))
  <2>1. WellTyped(Flushed(v)) /\ K(Flushed(v)) /\ Beside(Flushed(v), s, y)
    BY <1>1, <1>6
  <2> QED BY <1>4, <2>1, BesideFacts
<1>8. Tree(Flushed(w), ch, x)
  <2>1. GrowsTo(ch, x, ch, x)
    BY DEF GrowsTo
  <2> QED BY <1>1, <1>7, <2>1, AlikeTree
<1>9. Sane(w)
  <2>1. IsCard(w.card)
    BY <1>1, CardSet DEF Sane, Written
  <2>2. True(w)
    BY <1>1, <1>2, Zenon DEF True, Written
  <2> QED BY <2>1, <2>2 DEF Sane, Still, Later
<1>10. w.mounted
  BY DEF Base, Still, Later
<1>11. g => x = {} /\ ((w.stretched /\ w.hit) \/ Sound(w.card))
  BY <1>1, <1>5 DEF Still, Later
<1> QED BY <1>1, <1>5, <1>7, <1>8, <1>9, <1>10, <1>11, AlikeTabled DEF Base

(* A cluster that is not the directory's is written. *)
LEMMA AsideWrite ==
  ASSUME NEW v, NEW ch, NEW x, NEW g, Base(v, ch, x, g), NEW c \in Clusters, \A j \in 1..Len(Dir(ch)) : Dir(ch)[j] # c, NEW b,
         NEW w, w = disk_write(v, clust2sect(c), [data |-> b])
  PROVE  /\ Base(w, ch, x, g) /\ Still(v, w) /\ Tabled(v, w)
         /\ w.res \in {"OK", "DISK_ERR"} /\ (w.res # "OK" => w.hit)
<1> DEFINE s == clust2sect(c)
           y == [data |-> b]
<1>1. IsVol(v) /\ Tree(Flushed(v), ch, x) /\ Shape(FatOf(Flushed(v)), ch) /\ Placed(v.winsect, ch["none"])
  BY BaseFacts DEF Base
<1>2. c \in Clusters /\ ~IsTable(Flushed(v), c)
  <2>1. Orderly(Flushed(v), ch["none"]) /\ ch["none"] \in Seq(Clusters)
    BY <1>1, BaseFacts, LayoutFacts DEF Tree
  <2>2. InOrder(Flushed(v), ch["none"])
    BY <2>1, OrderlyIs
  <2>3. IsTable(Flushed(v), c) => \E j \in 1..Len(ch["none"]) : ch["none"][j] = c
    BY <2>2 DEF InOrder
  <2> QED BY <2>3 DEF Dir
<1>3. "data" \in DOMAIN y /\ "table" \notin DOMAIN y
  OBVIOUS
<1>4. s \in (InfoSector + 1)..clust2sect(LastCluster) /\ s \in 1..clust2sect(LastCluster) /\ InfoSector \in Nat
  BY <1>2, Sectors, SMTT(30)
<1>5. s # v.winsect
  <2>1. ASSUME NEW j \in 1..Len(ch["none"]) PROVE s # clust2sect(ch["none"][j])
    <3>1. ch["none"][j] \in Clusters
      BY <1>1, TreeFacts
    <3>2. c # ch["none"][j]
      BY DEF Dir
    <3> QED BY <1>2, <3>1, <3>2, Sectors, Zenon
  <2> QED BY <1>1, <1>4, <2>1 DEF Placed
<1>6. Beside(Flushed(v), s, y)
  BY <1>2, <1>3 DEF Beside
<1>7. w = disk_write(v, s, y)
  OBVIOUS
<1> HIDE DEF s, y
<1>8. /\ Still(v, w) /\ w.winsect = v.winsect /\ w.win = v.win /\ (w.wflag <=> v.wflag)
      /\ w.res \in {"OK", "DISK_ERR"}
      /\ w.res = "OK" => w.card = Written(v.card, s, y)
      /\ w.res # "OK" => w.hit /\ w.card = v.card
  <2>1. IsVol(v)
    BY <1>1
  <2> QED BY <1>7, <2>1, DiskWrites
<1>9. CASE w.res = "OK"
  <2>1. /\ s # v.winsect /\ Beside(Flushed(v), s, y) /\ s \in 1..clust2sect(LastCluster)
        /\ Still(v, w) /\ w.winsect = v.winsect /\ w.win = v.win /\ (w.wflag <=> v.wflag)
        /\ w.card = Written(v.card, s, y)
    BY <1>4, <1>5, <1>6, <1>8, <1>9
  <2>2. Base(w, ch, x, g) /\ Tabled(v, w)
    BY <2>1, BaseBeside
  <2> QED BY <1>8, <1>9, <2>2
<1>10. CASE w.res # "OK"
  <2>1. Core(v, w)
    BY <1>8, <1>10 DEF Core
  <2> QED BY <1>8, <1>10, <2>1, BaseCore, SameCore, SameTabled DEF Still
<1> QED BY <1>8, <1>9, <1>10

(* A cluster of a file is none of the directory's. *)
LEMMA FileAside ==
  ASSUME NEW v, NEW ch, NEW x, NEW g, Base(v, ch, x, g), NEW n \in Names, NEW k \in 1..Len(ch[n])
  PROVE  ch[n][k] \in Clusters /\ \A j \in 1..Len(Dir(ch)) : Dir(ch)[j] # ch[n][k]
<1>1. Tree(Flushed(v), ch, x) /\ Shape(FatOf(Flushed(v)), ch)
  BY BaseFacts DEF Base
<1>2. ch[n][k] \in Clusters
  BY <1>1, FilesHoldData
<1>3. \A j \in 1..Len(ch["none"]) : ch[n][k] # ch["none"][j]
  BY <1>1, NamesAssumption DEF Shape, Apart
<1> QED BY <1>2, <1>3 DEF Dir

LEMMA DataWrite ==
  ASSUME NEW v, NEW ch, NEW x, NEW g, Base(v, ch, x, g), NEW n \in Names, NEW k \in 1..Len(ch[n]), NEW b,
         NEW w, w = disk_write(v, clust2sect(ch[n][k]), [data |-> b])
  PROVE  /\ Base(w, ch, x, g) /\ Still(v, w) /\ Tabled(v, w)
         /\ w.res \in {"OK", "DISK_ERR"} /\ (w.res # "OK" => w.hit)
BY FileAside, AsideWrite

-----------------------------------------------------------------------------
(* sync. *)

(* The window is given up for FSInfo. *)
InfoWindow(m, y) == [m EXCEPT !.winsect = 0, !.win = y]
InfoClean(d) == [d EXCEPT !.fsi_flag = FALSE]

LEMMA InfoWindowFacts ==
  ASSUME NEW m, Sane(m), ~m.wflag, NEW y, NEW b, b = InfoWindow(m, y), NEW d
  PROVE  Reads(m, b, d) /\ Still(m, b) /\ ~b.wflag /\ b.winsect = 0 /\ Flushed(b) = Flushed(m) /\ b.card = m.card
<1>0. IsVol(m) /\ IsCard(m.card)
  BY DEF Sane
<1>1. /\ IsVol(b) /\ b.winsect = 0 /\ b.card = m.card /\ b.dj = m.dj /\ b.left = m.left
  BY <1>0 DEF InfoWindow, IsVol
<1>2. /\ (b.hit <=> m.hit) /\ (b.gone <=> m.gone) /\ (b.mounted <=> m.mounted)
      /\ (b.stretched <=> m.stretched) /\ (m.lost => b.lost) /\ (b.wflag <=> m.wflag)
  BY <1>0 DEF InfoWindow, IsVol
<1>3. Flushed(b) = Flushed(m) /\ Flushed(m) = m.card
  BY <1>1, <1>2 DEF Flushed
<1>4. Still(m, b)
  BY <1>1, <1>2 DEF Still, Later, Dead
<1>5. Sane(b)
  BY <1>0, <1>1, <1>2 DEF Sane, True
<1>6. Placed(b.winsect, d)
  <2>1. 0 \in 0..(InfoSector - 1)
    BY Sectors
  <2> QED BY <1>1, <2>1 DEF Placed
<1> QED BY <1>1, <1>2, <1>3, <1>4, <1>5, <1>6 DEF Reads, Still

LEMMA InfoCleanFacts ==
  ASSUME NEW d, IsVol(d), NEW e, e = InfoClean(d)
  PROVE  Core(d, e) /\ Still(d, e)
<1>1. /\ IsVol(e) /\ e.winsect = d.winsect /\ e.win = d.win /\ e.card = d.card /\ e.dj = d.dj /\ e.left = d.left
  BY DEF InfoClean, IsVol
<1>2. /\ (e.hit <=> d.hit) /\ (e.gone <=> d.gone) /\ (e.mounted <=> d.mounted)
      /\ (e.stretched <=> d.stretched) /\ (d.lost => e.lost) /\ (e.wflag <=> d.wflag)
  BY DEF InfoClean, IsVol
<1> QED BY <1>1, <1>2 DEF Core, Still, Later, Dead

SyncInfo(v) == [free |-> v.free_clust, last |-> v.last_clust]

LEMMA SyncIs ==
  ASSUME NEW v, NEW a, a = move_window(v, 0),
         NEW b, b = InfoWindow(a, SyncInfo(a)), NEW d, d = disk_write(b, InfoSector, SyncInfo(a)),
         NEW e, e = InfoClean(d)
  PROVE  /\ a.res # "OK" => sync(v) = a
         /\ a.res = "OK" => sync(v) = disk_read(IF a.fsi_flag THEN e ELSE a)
BY DEF sync, OnOk, InfoWindow, InfoClean, SyncInfo

(* What syncing does. *)
Syncs(v, w) ==
  /\ Still(v, w) /\ Same(v, w)
  /\ w.res \in {"OK", "DISK_ERR"}
  /\ w.res = "OK" => ~w.wflag
  /\ w.res # "OK" => w.hit

LEMMA Synchronizes ==
  ASSUME NEW v, NEW ch, NEW x, NEW g, Base(v, ch, x, g), NEW w, w = sync(v)
  PROVE  Base(w, ch, x, g) /\ Syncs(v, w)
<1> DEFINE a == move_window(v, 0)
           b == InfoWindow(a, SyncInfo(a))
           d == disk_write(b, InfoSector, SyncInfo(a))
           e == InfoClean(d)
<1>1. /\ a.res # "OK" => w = a
      /\ a.res = "OK" => w = disk_read(IF a.fsi_flag THEN e ELSE a)
  BY SyncIs
<1>d. a = move_window(v, 0) /\ b = InfoWindow(a, SyncInfo(a)) /\ d = disk_write(b, InfoSector, SyncInfo(a)) /\ e = InfoClean(d)
  OBVIOUS
<1> HIDE DEF a, b, d, e
<1>2. Moves(v, a, 0) /\ Reads(v, a, ch["none"])
  <2>1. Placed(0, ch["none"])
    BY Sectors DEF Placed
  <2>2. Sane(v)
    BY BaseFacts
  <2> QED BY <1>d, <2>1, <2>2, MoveReads
<1>3. Base(a, ch, x, g) /\ Still(v, a) /\ Same(v, a) /\ Sane(a)
      /\ a.res \in {"OK", "DISK_ERR"} /\ (a.res = "OK" => ~a.wflag) /\ (a.res # "OK" => a.hit)
  <2>1. Flushed(a) = Flushed(v)
    BY <1>2 DEF Moves
  <2> QED BY <1>2, <2>1, BaseReads, BaseFacts, SameFlushed DEF Moves
<1>4. CASE a.res # "OK"
  BY <1>1, <1>3, <1>4 DEF Syncs
<1>5. ASSUME NEW u, Base(u, ch, x, g), Still(v, u), Same(v, u), ~u.wflag, w = disk_read(u)
      PROVE  Base(w, ch, x, g) /\ Syncs(v, w)
  <2>1. IsVol(u)
    BY <1>5, BaseFacts
  <2>2. /\ Core(u, w) /\ Still(u, w) /\ w.res \in {"OK", "DISK_ERR"} /\ (w.res # "OK" => w.hit)
    BY <1>5, <2>1, DiskRead
  <2>3. Base(w, ch, x, g) /\ Same(u, w)
    BY <1>5, <2>2, BaseCore, SameCore DEF Still
  <2>4. Still(v, w) /\ Same(v, w)
    BY <1>5, <2>2, <2>3, StillTrans, SameTrans
  <2> QED BY <1>5, <2>2, <2>3, <2>4 DEF Syncs, Core
<1>6. CASE a.res = "OK" /\ ~a.fsi_flag
  BY <1>1, <1>3, <1>5, <1>6
<1>7. CASE a.res = "OK" /\ a.fsi_flag
  <2>1. w = disk_read(e)
    BY <1>1, <1>7
  <2>2. /\ Reads(a, b, ch["none"]) /\ Still(a, b) /\ ~b.wflag /\ b.winsect = 0 /\ Flushed(b) = Flushed(a)
    BY <1>d, <1>3, <1>7, InfoWindowFacts
  <2>3. Base(b, ch, x, g) /\ IsVol(b)
    BY <1>3, <2>2, BaseReads, BaseFacts
  <2>4. /\ Still(b, d) /\ d.winsect = b.winsect /\ d.win = b.win /\ (d.wflag <=> b.wflag)
        /\ d.res = "OK" => d.card = Written(b.card, InfoSector, SyncInfo(a))
        /\ d.res # "OK" => d.card = b.card
    BY <1>d, <2>3, DiskWrites
  <2>5. Base(d, ch, x, g)
    <3>1. CASE d.res = "OK"
      <4>1. /\ InfoSector # b.winsect /\ InfoSector \in 1..clust2sect(LastCluster)
        BY <2>2, Sectors
      <4>2. Beside(Flushed(b), InfoSector, SyncInfo(a))
        BY DEF Beside
      <4>3. d.card = Written(b.card, InfoSector, SyncInfo(a))
        BY <2>4, <3>1
      <4> QED BY <2>3, <2>4, <4>1, <4>2, <4>3, BaseBeside
    <3>2. CASE d.res # "OK"
      <4>1. Core(b, d)
        BY <2>4, <3>2 DEF Core
      <4> QED BY <2>3, <2>4, <4>1, BaseCore DEF Still
    <3> QED BY <3>1, <3>2
  <2>6. Same(b, d)
    <3>1. \A c \in Clusters : d.card[clust2sect(c)] = b.card[clust2sect(c)]
      <4>1. \A c \in Clusters : clust2sect(c) # InfoSector
        BY Sectors
      <4>2. \A c \in Clusters : Written(b.card, InfoSector, SyncInfo(a))[clust2sect(c)] = b.card[clust2sect(c)]
        <5>1. DOMAIN b.card = 1..clust2sect(LastCluster)
          BY <2>3, BaseFacts, SaneFacts
        <5>2. \A c \in Clusters : clust2sect(c) \in DOMAIN b.card
          BY <5>1, Sectors
        <5> QED BY <4>1, <5>2 DEF Written
      <4> QED BY <2>4, <4>2
    <3> QED BY <2>2, <2>4, <3>1 DEF Same, Flushed
  <2>7. IsVol(d)
    BY <2>5, BaseFacts
  <2>8. Core(d, e) /\ Still(d, e)
    BY <1>d, <2>7, InfoCleanFacts
  <2>9. Base(e, ch, x, g) /\ Same(d, e)
    BY <2>5, <2>8, BaseCore, SameCore DEF Still
  <2>10. Still(v, e)
    BY <1>3, <2>2, <2>4, <2>8, StillTrans
  <2>11. Same(v, e)
    BY <1>3, <2>2, <2>6, <2>9, SameFlushed, SameTrans
  <2>12. ~e.wflag
    BY <2>2, <2>4, <2>8 DEF Core
  <2> QED BY <1>5, <2>1, <2>9, <2>10, <2>11, <2>12
<1> QED BY <1>3, <1>4, <1>6, <1>7

(* A clean window hides nothing. *)
LEMMA CleanSound ==
  ASSUME NEW v, NEW ch, NEW g, Base(v, ch, {}, g), ~v.wflag
  PROVE  Base(v, ch, {}, TRUE)
<1>1. Flushed(v) = v.card
  BY DEF Flushed
<1>2. Sound(v.card)
  BY <1>1, TreeSound DEF Base
<1> QED BY <1>2 DEF Base

-----------------------------------------------------------------------------
(* A volume that is not mounted. *)
Idle(v, g) ==
  /\ Sane(v) /\ ~v.mounted /\ v.winsect = 0 /\ ~v.wflag
  /\ WellTyped(v.card) /\ K(v.card)
  /\ g => Sound(v.card)

(* What the calls start from. *)
Mounted(i, fr, la) ==
  [Ok(i) EXCEPT !.mounted = TRUE, !.winsect = 0, !.wflag = FALSE, !.fsi_flag = FALSE,
                !.free_clust = fr, !.last_clust = la]

LEMMA MountIs ==
  ASSUME NEW v, NEW wp, NEW b, b = disk_read(v), NEW i, i = disk_read(b), NEW c, c = chk_mounted(v, wp)
  PROVE  \/ wp /\ v.protect /\ c = Err(v, "WRITE_PROTECTED")
         \/ v.mounted /\ c = Ok(v)
         \/ ~v.mounted /\ b.res # "OK" /\ c = b
         \/ ~v.mounted /\ b.res = "OK" /\ \E fr, la : c = Mounted(i, fr, la)
<1> DEFINE fr == IF i.res = "OK" THEN v.card[InfoSector].free ELSE NoValue
           la == IF i.res = "OK" THEN v.card[InfoSector].last ELSE 0
<1>1. CASE wp /\ v.protect
  BY <1>1 DEF chk_mounted
<1>2. CASE ~(wp /\ v.protect) /\ v.mounted
  BY <1>2 DEF chk_mounted
<1>3. CASE ~(wp /\ v.protect) /\ ~v.mounted
  <2>1. c = IF b.res = "OK" THEN Mounted(i, fr, la) ELSE b
    BY <1>3 DEF chk_mounted, OnOk, Mounted
  <2> HIDE DEF fr, la
  <2> QED BY <1>3, <2>1
<1> QED BY <1>1, <1>2, <1>3

LEMMA MountedFacts ==
  ASSUME NEW i, Sane(i), ~i.wflag, NEW fr, NEW la, NEW c, c = Mounted(i, fr, la)
  PROVE  /\ Sane(c) /\ c.mounted /\ c.winsect = 0 /\ ~c.wflag /\ c.card = i.card /\ c.res = "OK"
         /\ (c.hit <=> i.hit) /\ (c.gone <=> i.gone) /\ (c.stretched <=> i.stretched) /\ (i.lost => c.lost)
<1>0. IsVol(i) /\ IsCard(i.card)
  BY DEF Sane
<1>1. /\ IsVol(c) /\ c.winsect = 0 /\ c.card = i.card /\ c.res = "OK"
  BY <1>0 DEF Mounted, IsVol, Ok
<1>2. /\ c.mounted /\ ~c.wflag /\ (c.hit <=> i.hit) /\ (c.gone <=> i.gone) /\ (c.stretched <=> i.stretched) /\ (i.lost => c.lost)
  BY <1>0 DEF Mounted, IsVol, Ok
<1> QED BY <1>0, <1>1, <1>2 DEF Sane, True

(* chk_mounted gives a volume with a layout, or the card fails and nothing is *)
(* mounted, or it finds that it may not write.                                *)
THEOREM Mounts ==
  ASSUME NEW v, NEW g, Idle(v, g), Formatted(v.card), NEW wp, NEW c, c = chk_mounted(v, wp)
  PROVE  \/ c.res = "OK" /\ \E ch : Base(c, ch, {}, TRUE)
         \/ c.res = "DISK_ERR" /\ c.hit /\ Idle(c, g)
         \/ wp /\ v.protect /\ c = Err(v, "WRITE_PROTECTED")
<1> DEFINE b == disk_read(v)
           i == disk_read(b)
<1>1. Sane(v) /\ IsVol(v) /\ ~v.mounted /\ v.winsect = 0 /\ ~v.wflag
  BY DEF Idle, Sane
<1>2. /\ Core(v, b) /\ Still(v, b) /\ b.res \in {"OK", "DISK_ERR"} /\ (b.res # "OK" => b.hit)
  BY <1>1, DiskRead
<1>i. i = disk_read(b) /\ b = disk_read(v)
  OBVIOUS
<1> HIDE DEF b, i
<1>3. IsVol(b)
  BY <1>2 DEF Still, Later
<1>4. /\ Core(b, i) /\ Still(b, i)
  BY <1>3, <1>i, DiskRead
<1>5. Reads(v, b, <<>>) /\ Core(v, i) /\ Still(v, i)
  BY <1>1, <1>2, <1>4, CoreReads, CoreTrans, StillTrans DEF Still
<1>6. Reads(v, i, <<>>)
  BY <1>1, <1>5, CoreReads DEF Still
<1>m. \/ wp /\ v.protect /\ c = Err(v, "WRITE_PROTECTED")
      \/ b.res # "OK" /\ c = b
      \/ b.res = "OK" /\ \E fr, la : c = Mounted(i, fr, la)
  BY <1>1, <1>i, MountIs
<1>7. CASE b.res # "OK" /\ c = b
  <2>1. c = b
    BY <1>7
  <2>2. Idle(b, g)
    BY <1>1, <1>2, <1>5 DEF Idle, Core, Reads, Still, Later
  <2> QED BY <1>2, <1>7, <2>1, <2>2, Zenon
<1>8. CASE b.res = "OK" /\ \E fr, la : c = Mounted(i, fr, la)
  <2>1. PICK fr, la : c = Mounted(i, fr, la)
    BY <1>8
  <2>2. Sane(i) /\ ~i.wflag /\ i.card = v.card
    BY <1>1, <1>5, <1>6 DEF Reads, Core
  <2>3. Sane(c) /\ c.mounted /\ c.winsect = 0 /\ ~c.wflag /\ c.card = v.card /\ c.res = "OK"
    BY <2>1, <2>2, MountedFacts
  <2>4. PICK ch : Tree(v.card, ch, {})
    BY FormattedTree
  <2>5. Flushed(c) = v.card
    BY <2>3 DEF Flushed
  <2>6. Placed(c.winsect, ch["none"])
    BY <2>3, Sectors DEF Placed
  <2>7. Sound(v.card) /\ WellTyped(v.card) /\ K(v.card)
    BY DEF Formatted, K
  <2>8. Base(c, ch, {}, TRUE)
    BY <2>3, <2>4, <2>5, <2>6, <2>7 DEF Base
  <2> QED BY <2>3, <2>8, Zenon
<1> QED BY <1>m, <1>7, <1>8, Zenon

-----------------------------------------------------------------------------
(* The open file. *)
IsFp(p) ==
  /\ DOMAIN p = {"open", "name", "write", "written", "dirty", "error", "fptr", "fsize", "org_clust",
                 "curr_clust", "dsect", "buf", "dir"}
  /\ p.fptr \in Nat /\ p.fsize \in Nat

(* It is as long as its clusters at most, a dirty buffer belongs to one of *)
(* them, and its entry is where it was opened.                             *)
Holds(p, q) ==
  /\ p.org_clust = IF q = <<>> THEN 0 ELSE q[1]
  /\ p.fsize <= Len(q) * SectorPieces
DirtyIn(p) == p.dirty => \E c \in Clusters : p.dsect = clust2sect(c)

(* The sector of a dirty buffer is not one of the directory's.             *)
OffTable(p, ch) ==
  p.dirty => \/ \E k \in 1..Len(ch[p.name]) : p.dsect = clust2sect(ch[p.name][k])
             \/ \E c \in Clusters : /\ p.dsect = clust2sect(c)
                                   /\ \A k \in 1..Len(Dir(ch)) : Dir(ch)[k] # c
Extent(p, ch) == Holds(p, ch[p.name]) /\ OffTable(p, ch)

Entered(v, p, ch) == \E k : DirAt(ch, p.dir, k) /\ Nth(v, ch, k, p.dir.at).name = p.name

(* Where it is to go on: in or at the end of one of its clusters, of which *)
(* the sector is in the buffer if it is in the middle.                     *)
Within(p, q) == p.fptr > 0 => \E k \in 1..Len(q) : p.curr_clust = q[k] /\ p.fptr <= k * SectorPieces
Buffered(p) == p.fptr % SectorPieces # 0 => p.dsect = clust2sect(p.curr_clust)
Position(p, q) == p.error \/ (Within(p, q) /\ Buffered(p))

FileIn(v, p, ch) ==
  /\ IsFp(p) /\ p.name \in Names
  /\ Holds(p, ch[p.name]) /\ DirtyIn(p)
  /\ Entered(v, p, ch)

FpOK(v, p, ch) == p.open => FileIn(v, p, ch) /\ Position(p, ch[p.name])

FileOf(v, p, ch) ==
  /\ IsFp(p) /\ p.name \in Names
  /\ Extent(p, ch)
  /\ Entered(v, p, ch)

LEMMA FileOfIn ==
  ASSUME NEW v, NEW ch, NEW x, NEW g, Base(v, ch, x, g), NEW w, NEW p, FileOf(w, p, ch)
  PROVE  FileIn(w, p, ch)
<1>1. DirtyIn(p)
  BY FileAside DEF FileOf, Extent, OffTable, DirtyIn
<1> QED BY <1>1 DEF FileOf, FileIn, Extent

LEMMA EnteredTabled ==
  ASSUME NEW v, NEW ch, NEW x, NEW g, Base(v, ch, x, g), NEW w, Tabled(v, w), NEW p, Entered(v, p, ch)
  PROVE  Entered(w, p, ch)
<1>1. PICK k : DirAt(ch, p.dir, k) /\ Nth(v, ch, k, p.dir.at).name = p.name
  BY DEF Entered
<1>2. Dir(ch)[k] \in Clusters /\ IsTable(Flushed(v), Dir(ch)[k])
  BY <1>1, DirFacts DEF DirAt
<1>3. Nth(w, ch, k, p.dir.at) = Nth(v, ch, k, p.dir.at)
  BY <1>2 DEF Tabled, Nth, EntryOf
<1> QED BY <1>1, <1>3 DEF Entered

LEMMA FpTabled ==
  ASSUME NEW v, NEW ch, NEW x, NEW g, Base(v, ch, x, g), NEW w, Tabled(v, w), NEW p, FpOK(v, p, ch)
  PROVE  FpOK(w, p, ch)
BY EnteredTabled DEF FpOK, FileIn

(* Other entries, and the clusters of other files, do not matter. *)
LEMMA FpOther ==
  ASSUME NEW v, NEW ch, NEW w, NEW ch2, NEW p, FpOK(v, p, ch),
         p.open => ch2[p.name] = ch[p.name],
         Len(Dir(ch)) \in Nat, Len(Dir(ch2)) \in Nat, Len(Dir(ch)) <= Len(Dir(ch2)),
         \A k \in 1..Len(Dir(ch)) : Dir(ch2)[k] = Dir(ch)[k],
         \A k \in 1..Len(Dir(ch)), i \in 1..TableEntries :
           p.open /\ Nth(v, ch, k, i).name = p.name => Nth(w, ch2, k, i).name = p.name
  PROVE  FpOK(w, p, ch2)
<1> SUFFICES ASSUME p.open PROVE FileIn(w, p, ch2) /\ Position(p, ch2[p.name])
  BY DEF FpOK
<1>1. FileIn(v, p, ch) /\ Position(p, ch[p.name])
  BY DEF FpOK
<1>2. PICK k : DirAt(ch, p.dir, k) /\ Nth(v, ch, k, p.dir.at).name = p.name
  BY <1>1 DEF FileIn, Entered
<1>3. DirAt(ch2, p.dir, k) /\ Nth(w, ch2, k, p.dir.at).name = p.name
  BY <1>2 DEF DirAt
<1>4. Entered(w, p, ch2)
  BY <1>3 DEF Entered
<1> QED BY <1>1, <1>4 DEF FileIn

LEMMA FpMoreDir ==
  ASSUME NEW v, NEW ch, NEW w, NEW ch2, NEW p, FpOK(v, p, ch), ch \in Layouts, MoreDir(v, ch, w, ch2)
  PROVE  FpOK(w, p, ch2)
<1>1. Len(Dir(ch)) \in Nat /\ Len(Dir(ch2)) \in Nat
  BY LayoutFacts DEF Dir, MoreDir
<1>2. p.open => ch2[p.name] = ch[p.name]
  BY DEF MoreDir, FpOK, FileIn
<1> QED BY <1>1, <1>2, FpOther DEF MoreDir

-----------------------------------------------------------------------------
(* The loops have the volume, the file and more.  Theirs is a file that is *)
(* open, in a volume v that was at hand.                                   *)
Has(p, d) == {"v", "fp", "done"} \subseteq d /\ DOMAIN p = d

(* The buffer is written back. *)
LEMMA Flushes ==
  ASSUME NEW v, NEW ch, NEW x, NEW g, Base(v, ch, x, g), NEW p, p.name \in Names, Extent(p, ch),
         NEW w, w = FlushBuf(v, p)
  PROVE  /\ Base(w, ch, x, g) /\ Still(v, w) /\ Tabled(v, w)
         /\ w.res \in {"OK", "DISK_ERR"} /\ (w.res # "OK" => w.hit)
<1>1. CASE p.dirty
  <2>1. PICK c \in Clusters : p.dsect = clust2sect(c) /\ \A j \in 1..Len(Dir(ch)) : Dir(ch)[j] # c
    BY <1>1, FileAside DEF Extent, OffTable
  <2>2. w = disk_write(v, clust2sect(c), [data |-> p.buf])
    BY <1>1, <2>1 DEF FlushBuf
  <2> QED BY <2>1, <2>2, AsideWrite
<1>2. CASE ~p.dirty
  <2>1. w = Ok(v) /\ IsVol(v)
    BY <1>2, BaseFacts DEF FlushBuf
  <2>2. Core(v, w) /\ Still(v, w) /\ w.res = "OK"
    BY <2>1, Results
  <2> QED BY <2>2, BaseCore, SameCore, SameTabled DEF Still
<1> QED BY <1>1, <1>2

(* Products, as far as they matter. *)
LEMMA Products ==
  ASSUME NEW k \in Nat, NEW l \in Nat
  PROVE  /\ k * SectorPieces \in Nat
         /\ k <= l => k * SectorPieces <= l * SectorPieces
         /\ k + 1 <= l => k * SectorPieces + SectorPieces <= l * SectorPieces
         /\ (k + 1) * SectorPieces = k * SectorPieces + SectorPieces
<1>1. SectorPieces \in Nat \ {0}
  BY VolumeAssumption
<1>2. PICK s \in Nat : s = SectorPieces
  BY <1>1
<1>3. k * s \in Nat /\ l * s \in Nat /\ (k + 1) * s = k * s + s /\ (l - k) * s = l * s - k * s
  OBVIOUS
<1>4. k <= l => (l - k) * s >= 0
  OBVIOUS
<1>5. k + 1 <= l => (l - k - 1) * s >= 0 /\ (l - k - 1) * s = l * s - k * s - s
  OBVIOUS
<1> QED BY <1>2, <1>3, <1>4, <1>5

(* What the loops do to the file. *)
FpErr(f) == [f EXCEPT !.error = TRUE]
FpClean(f) == [f EXCEPT !.dirty = FALSE]
FpCurr(f, c) == [f EXCEPT !.curr_clust = c]
FpOrg(f, c) == [f EXCEPT !.org_clust = c]
FpSect(f, s) == [f EXCEPT !.dsect = s]
FpLoad(f, s, b) == [f EXCEPT !.dsect = s, !.buf = b]
FpPut(f, b, c) == [f EXCEPT !.buf = b, !.dirty = TRUE, !.fptr = @ + c]
FpPast(f, b, c) == [f EXCEPT !.fptr = @ + c, !.buf = b]
FpAt(f, c) == [f EXCEPT !.fptr = c]

(* It is still the same file. *)
Kin(q, p) ==
  /\ IsFp(p) /\ p.name = q.name /\ p.dir = q.dir /\ p.write = q.write
  /\ (p.open <=> q.open) /\ (p.written <=> q.written)

LEMMA KinSelf ==
  ASSUME NEW f, IsFp(f)
  PROVE  Kin(f, f)
BY DEF Kin

LEMMA KinTrans ==
  ASSUME NEW f, NEW h, NEW k, Kin(f, h), Kin(h, k)
  PROVE  Kin(f, k)
BY DEF Kin

(* All but what is named. *)
SameSize(f, h) == h.fsize = f.fsize
SamePlace(f, h) == h.fptr = f.fptr
SameClusters(f, h) == h.org_clust = f.org_clust
SameBuffer(f, h) == h.dsect = f.dsect /\ (h.dirty <=> f.dirty)
SameCurr(f, h) == h.curr_clust = f.curr_clust
SameError(f, h) == h.error <=> f.error

LEMMA FpErrIs ==
  ASSUME NEW f, IsFp(f), NEW h, h = FpErr(f)
  PROVE  /\ Kin(f, h) /\ SameSize(f, h) /\ SamePlace(f, h) /\ SameClusters(f, h) /\ SameBuffer(f, h) /\ SameCurr(f, h)
         /\ h.error
BY DEF FpErr, IsFp, Kin, SameSize, SamePlace, SameClusters, SameBuffer, SameCurr

LEMMA FpCleanIs ==
  ASSUME NEW f, IsFp(f), NEW h, h = FpClean(f)
  PROVE  /\ Kin(f, h) /\ SameSize(f, h) /\ SamePlace(f, h) /\ SameClusters(f, h) /\ SameCurr(f, h) /\ SameError(f, h)
         /\ ~h.dirty /\ h.dsect = f.dsect
BY DEF FpClean, IsFp, Kin, SameSize, SamePlace, SameClusters, SameCurr, SameError

LEMMA FpCurrIs ==
  ASSUME NEW f, IsFp(f), NEW c, NEW h, h = FpCurr(f, c)
  PROVE  /\ Kin(f, h) /\ SameSize(f, h) /\ SamePlace(f, h) /\ SameClusters(f, h) /\ SameBuffer(f, h) /\ SameError(f, h)
         /\ h.curr_clust = c
BY DEF FpCurr, IsFp, Kin, SameSize, SamePlace, SameClusters, SameBuffer, SameError

LEMMA FpOrgIs ==
  ASSUME NEW f, IsFp(f), NEW c, NEW h, h = FpOrg(f, c)
  PROVE  /\ Kin(f, h) /\ SameSize(f, h) /\ SamePlace(f, h) /\ SameCurr(f, h) /\ SameBuffer(f, h) /\ SameError(f, h)
         /\ h.org_clust = c
BY DEF FpOrg, IsFp, Kin, SameSize, SamePlace, SameCurr, SameBuffer, SameError

LEMMA FpLoadIs ==
  ASSUME NEW f, IsFp(f), NEW s, NEW b, NEW h, h = FpLoad(f, s, b) \/ h = FpSect(f, s)
  PROVE  /\ Kin(f, h) /\ SameSize(f, h) /\ SamePlace(f, h) /\ SameClusters(f, h) /\ SameCurr(f, h) /\ SameError(f, h)
         /\ h.dsect = s /\ (h.dirty <=> f.dirty)
BY ZenonT(60) DEF FpLoad, FpSect, IsFp, Kin, SameSize, SamePlace, SameClusters, SameCurr, SameError

LEMMA FpPutIs ==
  ASSUME NEW f, IsFp(f), NEW b, NEW c \in Nat, NEW h, h = FpPut(f, b, c)
  PROVE  /\ Kin(f, h) /\ SameSize(f, h) /\ SameClusters(f, h) /\ SameCurr(f, h) /\ SameError(f, h)
         /\ h.dsect = f.dsect /\ h.dirty /\ h.fptr = f.fptr + c
BY DEF FpPut, IsFp, Kin, SameSize, SameClusters, SameCurr, SameError

LEMMA FpPastIs ==
  ASSUME NEW f, IsFp(f), NEW b, NEW c \in Nat, NEW h, h = FpPast(f, b, c)
  PROVE  /\ Kin(f, h) /\ SameSize(f, h) /\ SameClusters(f, h) /\ SameCurr(f, h) /\ SameError(f, h) /\ SameBuffer(f, h)
         /\ h.fptr = f.fptr + c
BY DEF FpPast, IsFp, Kin, SameSize, SameClusters, SameCurr, SameError, SameBuffer

LEMMA FpAtIs ==
  ASSUME NEW f, IsFp(f), NEW c \in Nat, NEW h, h = FpAt(f, c)
  PROVE  /\ Kin(f, h) /\ SameSize(f, h) /\ SameClusters(f, h) /\ SameCurr(f, h) /\ SameError(f, h) /\ SameBuffer(f, h)
         /\ h.fptr = c
BY DEF FpAt, IsFp, Kin, SameSize, SameClusters, SameCurr, SameError, SameBuffer

(* The parts of it that a layout is about. *)
LEMMA FileKin ==
  ASSUME NEW v, NEW ch, NEW f, FileOf(v, f, ch), NEW h, Kin(f, h), Extent(h, ch)
  PROVE  FileOf(v, h, ch)
BY DEF FileOf, Kin, Entered

LEMMA ExtentSame ==
  ASSUME NEW f, NEW h, NEW ch, Extent(f, ch), Kin(f, h), SameSize(f, h), SameClusters(f, h),
         h.dirty => (SameBuffer(f, h) \/ \E k \in 1..Len(ch[f.name]) : h.dsect = clust2sect(ch[f.name][k]))
  PROVE  Extent(h, ch)
<1>1. h.name = f.name
  BY DEF Kin
<1>2. Holds(h, ch[f.name])
  BY DEF Extent, Holds, SameSize, SameClusters
<1>3. OffTable(h, ch)
  BY <1>1 DEF Extent, OffTable, SameBuffer
<1> QED BY <1>1, <1>2, <1>3 DEF Extent

LEMMA PositionSame ==
  ASSUME NEW f, NEW h, NEW q, Position(f, q), SamePlace(f, h), SameCurr(f, h), SameError(f, h), h.dsect = f.dsect
  PROVE  Position(h, q)
BY DEF Position, SamePlace, SameCurr, SameError, Within, Buffered

-----------------------------------------------------------------------------
(* The volume and the file between two steps of a loop. *)
Fine(v, f, x, g) == \E ch : Base(v, ch, x, g) /\ FileOf(v, f, ch) /\ Position(f, ch[f.name])

(* In the k-th cluster, at its start. *)
InCluster(v, f, ch, x, g, k) ==
  /\ Base(v, ch, x, g) /\ FileOf(v, f, ch)
  /\ k \in 1..Len(ch[f.name]) /\ f.curr_clust = ch[f.name][k]
  /\ f.fptr % SectorPieces = 0 /\ f.fptr + SectorPieces <= k * SectorPieces

(* An error. *)
LEMMA FineErr ==
  ASSUME NEW v, NEW ch, NEW x, NEW g, Base(v, ch, x, g), NEW f, FileOf(v, f, ch), NEW h, h = FpErr(f)
  PROVE  Fine(v, h, x, g)
<1>1. IsFp(f) /\ Extent(f, ch)
  BY DEF FileOf
<1>2. Kin(f, h) /\ SameSize(f, h) /\ SameClusters(f, h) /\ SameBuffer(f, h) /\ h.error
  BY <1>1, FpErrIs
<1>3. FileOf(v, h, ch)
  BY <1>1, <1>2, ExtentSame, FileKin
<1> QED BY <1>2, <1>3 DEF Fine, Position

LEMMA FileTabled ==
  ASSUME NEW v, NEW ch, NEW x, NEW g, Base(v, ch, x, g), NEW w, Tabled(v, w), NEW f, FileOf(v, f, ch)
  PROVE  FileOf(w, f, ch)
BY EnteredTabled DEF FileOf

(* A card that is gone stays as it was. *)
LEMMA LostStill ==
  ASSUME NEW v, NEW g, Lost(v, g), NEW w, Still(v, w), Sane(w)
  PROVE  Lost(w, g)
BY LostLater DEF Still

LEMMA LostCore ==
  ASSUME NEW v, NEW g, Lost(v, g), NEW w, Core(v, w), Still(v, w)
  PROVE  Lost(w, g)
<1>1. Sane(v)
  BY DEF Lost
<1>2. Reads(v, w, <<>>)
  BY <1>1, CoreReads DEF Still
<1> QED BY <1>2, LostStill DEF Reads

LEMMA LostWrite ==
  ASSUME NEW v, NEW g, Lost(v, g), NEW s, NEW y, NEW w, w = disk_write(v, s, y)
  PROVE  Lost(w, g) /\ Still(v, w) /\ w.res = "DISK_ERR"
<1>1. IsVol(v) /\ v.left = 0
  BY DEF Lost, Sane, Dead
<1>2. w = Failed(v)
  BY <1>1 DEF disk_write
<1>3. w.res = "DISK_ERR"
  BY <1>1, <1>2 DEF Failed, IsVol
<1>4. /\ Still(v, w) /\ w.winsect = v.winsect /\ w.win = v.win /\ (w.wflag <=> v.wflag)
      /\ w.res # "OK" => w.card = v.card
  BY <1>1, DiskWrites
<1>5. Core(v, w)
  BY <1>3, <1>4 DEF Core
<1> QED BY <1>3, <1>4, <1>5, LostCore

LEMMA LostRead ==
  ASSUME NEW v, NEW g, Lost(v, g), NEW w, w = disk_read(v)
  PROVE  Lost(w, g) /\ Still(v, w) /\ w.res = "DISK_ERR"
<1>1. IsVol(v) /\ v.left = 0
  BY DEF Lost, Sane, Dead
<1>2. w = Failed(v)
  BY <1>1 DEF disk_read
<1>3. w.res = "DISK_ERR"
  BY <1>1, <1>2 DEF Failed, IsVol
<1>4. Core(v, w) /\ Still(v, w)
  BY <1>1, DiskRead
<1> QED BY <1>3, <1>4, LostCore

LEMMA LostFlush ==
  ASSUME NEW v, NEW g, Lost(v, g), NEW f, NEW w, w = FlushBuf(v, f)
  PROVE  Lost(w, g) /\ Still(v, w)
<1>1. CASE f.dirty
  BY <1>1, LostWrite DEF FlushBuf
<1>2. CASE ~f.dirty
  <2>1. w = Ok(v) /\ IsVol(v)
    BY <1>2 DEF FlushBuf, Lost, Sane
  <2> QED BY <2>1, Results, LostCore
<1> QED BY <1>1, <1>2

LEMMA LostResult ==
  ASSUME NEW v, NEW g, Lost(v, g), NEW r
  PROVE  /\ Lost(Ok(v), g) /\ Still(v, Ok(v))
         /\ Lost(Err(v, r), g) /\ Still(v, Err(v, r))
         /\ Lost(Val(v, r), g) /\ Still(v, Val(v, r))
<1>1. IsVol(v)
  BY DEF Lost, Sane
<1> QED BY <1>1, Results, LostCore

LEMMA BaseResult ==
  ASSUME NEW v, NEW ch, NEW x, NEW g, Base(v, ch, x, g), NEW r
  PROVE  /\ Base(Ok(v), ch, x, g) /\ Still(v, Ok(v)) /\ Same(v, Ok(v))
         /\ Base(Err(v, r), ch, x, g) /\ Still(v, Err(v, r)) /\ Same(v, Err(v, r))
         /\ Base(Val(v, r), ch, x, g) /\ Still(v, Val(v, r)) /\ Same(v, Val(v, r))
<1>1. IsVol(v)
  BY BaseFacts
<1> QED BY <1>1, Results, BaseCore, SameCore DEF Still

(* Creating a cluster with the card gone. *)
LEMMA LostCreate ==
  ASSUME NEW v, NEW g, Lost(v, g), NEW clst \in Clusters \cup {0}, NEW w, w = create_chain(v, clst)
  PROVE  Lost(w, g) /\ Still(v, w) /\ w.val \in Clusters \cup {0, 1, NoValue}
<1>1. Sane(v) /\ IsVol(v)
  BY DEF Lost, Sane
<1>2. ASSUME NEW u, Lost(u, g), Still(v, u), NEW scl \in 1..LastCluster, w = TakeOf(FindFree(u, scl), clst)
      PROVE  Lost(w, g) /\ Still(v, w) /\ w.val \in Clusters \cup {0, 1, NoValue}
  <2> DEFINE f == FindFree(u, scl)
  <2>0. Sane(u)
    BY <1>2 DEF Lost
  <2>1. Reads(u, f, <<>>) /\ f.dj = u.dj /\ FoundOk(u, f)
    BY <2>0, FindFreeFinds
  <2>2. w = TakeOf(f, clst)
    BY <1>2
  <2> HIDE DEF f
  <2>3. Sane(f) /\ Still(u, f) /\ (f.val \in Clusters => f.winsect # 0) /\ f.val \in Clusters \cup {0, 1, NoValue}
    BY <2>1 DEF Reads, Still, FoundOk
  <2>4. Sane(w) /\ Still(f, w) /\ w.val \in Clusters \cup {0, 1, NoValue}
    BY <2>2, <2>3, TakeRaw
  <2>5. Still(v, w)
    BY <1>2, <2>3, <2>4, StillTrans
  <2> QED BY <2>4, <2>5, LostStill
<1>3. CASE clst = 0
  BY <1>1, <1>2, <1>3, CreateIs, HintIs, LaterSelf DEF Still
<1>4. CASE clst # 0
  <2> DEFINE u == get_fat(v, clst)
  <2>1. w = CASE u.val < 2 -> Val(u, 1)
              [] u.val \in Clusters -> u
              [] OTHER -> TakeOf(FindFree(MarkOf(u, clst), clst), clst)
    BY <1>4, CreateIs
  <2>2. clst \in Clusters /\ clst \in 1..LastCluster
    BY <1>4, VolumeAssumption DEF Clusters
  <2>3. Reads(v, u, <<>>) /\ Gets(v, u, clst)
    BY <1>1, <2>2, GetFat
  <2> HIDE DEF u
  <2>4. Still(v, u) /\ Sane(u) /\ Lost(u, g)
    BY <2>3, LostStill DEF Reads, Gets, Still
  <2>5. CASE u.val < 2
    <3>1. w = Val(u, 1)
      <4>1. ~(u.val \in Clusters)
        BY <2>5 DEF Clusters
      <4> QED BY <2>1, <2>5, <4>1
    <3>2. IsVol(u)
      BY <2>4 DEF Sane
    <3> QED BY <2>4, <3>1, <3>2, LostResult, Results, StillTrans
  <2>6. CASE ~(u.val < 2) /\ u.val \in Clusters
    <3>1. w = u
      BY <2>1, <2>6
    <3> QED BY <2>4, <2>6, <3>1
  <2>7. CASE ~(u.val < 2) /\ u.val \notin Clusters
    <3> DEFINE y == MarkOf(u, clst)
    <3>1. w = TakeOf(FindFree(y, clst), clst)
      BY <2>1, <2>7, SMTT(30)
    <3>2. Core(u, y) /\ Still(u, y)
      BY <2>4, MarkIs DEF Sane
    <3> HIDE DEF y
    <3>3. Lost(y, g) /\ Still(v, y)
      BY <2>4, <3>2, LostCore, StillTrans
    <3> QED BY <1>2, <2>2, <3>1, <3>3
  <2> QED BY <2>5, <2>6, <2>7
<1> QED BY <1>3, <1>4

-----------------------------------------------------------------------------
(* f_write: a step of its loop, in pieces. *)
WCluster(p) ==
  CASE p.fp.fptr > 0 -> create_chain(p.v, p.fp.curr_clust)
    [] p.fp.fptr = 0 /\ p.fp.org_clust = 0 -> create_chain(p.v, 0)
    [] OTHER -> Val(p.v, p.fp.org_clust)

WPart(p, d) ==
  LET at == p.fp.fptr % SectorPieces
      cnt == Lesser(SectorPieces - at, p.n)
  IN [p EXCEPT !.fp.buf = [i \in 1..SectorPieces |-> IF i > at /\ i <= at + cnt THEN d ELSE @[i]],
               !.fp.dirty = TRUE, !.fp.fptr = @ + cnt,
               !.n = @ - cnt, !.done = p.n = cnt]

WWhole(d) == [i \in 1..SectorPieces |-> d]
WDirect(p, sect, d) ==
  [p EXCEPT !.fp.fptr = @ + SectorPieces, !.fp.buf = IF p.fp.dsect = sect THEN WWhole(d) ELSE @,
            !.n = @ - SectorPieces, !.done = p.n = SectorPieces]

WInSector(p, sect, d) ==
  CASE sect = 0 -> Abort(p, "INT_ERR")
    [] sect # 0 /\ p.n >= SectorPieces ->
         LET w == disk_write(p.v, sect, [data |-> WWhole(d)])
         IN IF w.res = "OK" THEN WDirect([p EXCEPT !.v = w], sect, d) ELSE Abort([p EXCEPT !.v = w], "DISK_ERR")
    [] OTHER -> LET r == Fill(p, sect, p.fp.fptr < p.fp.fsize) IN IF r.fp.error THEN r ELSE WPart(r, d)

WAt(p, clst, d) ==
  CASE clst = 0 -> [p EXCEPT !.done = TRUE]
    [] clst \in {1, NoValue} -> Abort(p, ErrorOf(clst))
    [] OTHER -> LET u == [p EXCEPT !.fp.curr_clust = clst]
                    w == FlushBuf(p.v, p.fp)
                IN IF w.res = "OK" THEN WInSector(Cleaned([u EXCEPT !.v = w]), clust2sect(clst), d)
                   ELSE Abort([u EXCEPT !.v = w], "DISK_ERR")

WFollow(p, c, d) ==
  WAt([p EXCEPT !.v = Ok(c), !.fp.org_clust = IF p.fp.fptr = 0 THEN c.val ELSE @], c.val, d)

LEMMA WriteStepIs ==
  ASSUME NEW p, NEW d
  PROVE  WriteStep(p, d) = IF p.fp.fptr % SectorPieces # 0 THEN WPart(p, d) ELSE WFollow(p, WCluster(p), d)
BY Zenon DEF WriteStep, WCluster, WPart, WDirect, WInSector, WAt, WFollow, WWhole, OnTransfer, Unless

(* A step's state: the volume, the file, and what is left to be done. *)
IsStep(p) ==
  /\ DOMAIN p = {"v", "fp", "n", "done"}
  /\ p.n \in Nat

(* Nothing is left to do only when it is done. *)
Ongoing(q) == q.done \/ q.n # 0

(* What a piece of a step makes of p. *)
Wrote(p, q) ==
  /\ IsStep(q) /\ Still(p.v, q.v) /\ Kin(p.fp, q.fp) /\ SameSize(p.fp, q.fp)
  /\ q.done \/ ~q.fp.error
  /\ Ongoing(q)

(* With the card gone, the file need only know its cluster. *)
Drifting(f) ==
  /\ f.fptr > 0 => f.curr_clust \in Clusters
  /\ f.org_clust \in Clusters \cup {0}

Afloat(q, x, g) ==
  \/ Fine(q.v, q.fp, x, g)
  \/ Lost(q.v, g) /\ (q.done \/ Drifting(q.fp))

InLoop(p) == {"v", "fp", "done"} \subseteq DOMAIN p

(* An error was passed over: a link was given up for it, or it became the  *)
(* start of the file.                                                      *)
Strayed(v, f) == IsVol(v) /\ ~v.gone /\ (v.lost \/ (IsFp(f) /\ f.org_clust \notin Clusters \cup {0}))
Adrift(q) == InLoop(q) /\ (Astray(q.v) \/ (q.done /\ Strayed(q.v, q.fp)))

LEMMA RoundUp ==
  ASSUME NEW a \in Nat, NEW k \in Nat, a <= k * SectorPieces
  PROVE  /\ a % SectorPieces \in 0..(SectorPieces - 1) /\ a - (a % SectorPieces) \in Nat
         /\ a % SectorPieces # 0 => a - (a % SectorPieces) + SectorPieces <= k * SectorPieces
<1>1. PICK s \in Nat : s = SectorPieces /\ s > 0
  BY VolumeAssumption
<1>2. PICK m \in Nat, r \in 0..(s - 1) : a = m * s + r /\ r = a % s
  <2>1. a = s * (a \div s) + (a % s) /\ a \div s \in Nat /\ a % s \in 0..(s - 1)
    BY <1>1
  <2>2. s * (a \div s) = (a \div s) * s
    BY <1>1, <2>1
  <2> QED BY <2>1, <2>2, Zenon
<1>3. ASSUME r # 0 PROVE m * s + s <= k * s
  <2>1. m * s < k * s
    <3>1. m * s \in Nat /\ k * s \in Nat
      BY <1>1
    <3> QED BY <1>1, <1>2, <1>3, <3>1
  <2>2. m < k
    <3>1. SUFFICES ASSUME ~(m < k) PROVE FALSE
      OBVIOUS
    <3>2. (m - k) * s >= 0 /\ (m - k) * s = m * s - k * s
      BY <1>1, <3>1
    <3> QED BY <2>1, <3>2
  <2> QED BY <1>1, <2>2, Products
<1>4. m * s \in Nat /\ k * s \in Nat
  BY <1>1
<1> QED BY <1>1, <1>2, <1>3, <1>4

(* Pieces are put into the buffer. *)
LEMMA WPartIs ==
  ASSUME NEW p, IsStep(p), IsFp(p.fp), p.n # 0, ~p.fp.error, NEW d, NEW q, q = WPart(p, d)
  PROVE  \E b : \E c \in Nat : /\ q.v = p.v /\ q.fp = FpPut(p.fp, b, c) /\ IsStep(q) /\ Ongoing(q)
                        /\ c <= SectorPieces - (p.fp.fptr % SectorPieces) /\ c > 0
<1> DEFINE at == p.fp.fptr % SectorPieces
           cnt == Lesser(SectorPieces - at, p.n)
           b == [i \in 1..SectorPieces |-> IF i > at /\ i <= at + cnt THEN d ELSE p.fp.buf[i]]
<1>1. PICK s \in Nat : s = SectorPieces /\ s > 0
  BY VolumeAssumption
<1>2. at \in 0..(s - 1)
  <2>1. p.fp.fptr \in Nat
    BY DEF IsFp
  <2> QED BY <1>1, <2>1
<1>3. cnt \in Nat /\ cnt <= SectorPieces - at /\ cnt > 0 /\ cnt <= p.n
  BY <1>1, <1>2 DEF Lesser, IsStep
<1>4. q = [p EXCEPT !.fp.buf = b, !.fp.dirty = TRUE, !.fp.fptr = @ + cnt, !.n = @ - cnt, !.done = p.n = cnt]
  BY DEF WPart, IsStep, IsFp
<1> HIDE DEF b, cnt, at
<1>5. q.v = p.v /\ q.fp = FpPut(p.fp, b, cnt) /\ DOMAIN q = DOMAIN p /\ q.n = p.n - cnt
  BY <1>4 DEF IsStep, FpPut
<1>6. q.n \in Nat
  BY <1>3, <1>5 DEF IsStep
<1>7. Ongoing(q)
  <2>1. q.done <=> p.n = cnt
    BY <1>4, Zenon DEF IsStep
  <2>2. p.n \in Nat
    BY DEF IsStep
  <2> QED BY <1>3, <1>5, <2>1, <2>2 DEF Ongoing
<1> QED BY <1>3, <1>5, <1>6, <1>7 DEF IsStep, at

(* The pieces the loops have in common: of a step, they change the volume, *)
(* the file and whether it is done.                                        *)
Rest(p, q) == DOMAIN q = DOMAIN p /\ \A z \in DOMAIN p \ {"v", "fp", "done"} : q[z] = p[z]

LEMMA RestStep ==
  ASSUME NEW p, IsStep(p), NEW q, Rest(p, q)
  PROVE  IsStep(q) /\ q.n = p.n
<1>1. "n" \in DOMAIN p \ {"v", "fp", "done"}
  BY DEF IsStep
<1>2. q["n"] = p["n"]
  BY <1>1 DEF Rest
<1> QED BY <1>2 DEF IsStep, Rest

LEMMA RestTrans ==
  ASSUME NEW p, NEW q, NEW r, Rest(p, q), Rest(q, r)
  PROVE  Rest(p, r)
BY DEF Rest

LEMMA AbortIs ==
  ASSUME NEW p, InLoop(p), NEW r, NEW q, q = Abort(p, r)
  PROVE  InLoop(q) /\ Rest(p, q) /\ q.v = Err(p.v, r) /\ q.fp = FpErr(p.fp) /\ q.done
<1>1. q = [p EXCEPT !.v = Err(p.v, r), !.fp = FpErr(p.fp), !.done = TRUE]
  BY DEF Abort, FpErr, InLoop
<1>2. DOMAIN q = DOMAIN p /\ q.v = Err(p.v, r) /\ q.fp = FpErr(p.fp) /\ q.done
  BY <1>1 DEF InLoop
<1>3. \A z \in DOMAIN p \ {"v", "fp", "done"} : q[z] = p[z]
  BY <1>1, Zenon
<1> QED BY <1>2, <1>3 DEF Rest, InLoop

(* The volume goes on to w, the file to f. *)
SetV(p, w) == [p EXCEPT !.v = w]
SetFp(p, f) == [p EXCEPT !.fp = f]

LEMMA SetVIs ==
  ASSUME NEW p, InLoop(p), NEW w, NEW q, q = SetV(p, w)
  PROVE  InLoop(q) /\ Rest(p, q) /\ q.v = w /\ q.fp = p.fp /\ q.done = p.done
BY DEF SetV, InLoop, Rest

LEMMA SetFpIs ==
  ASSUME NEW p, InLoop(p), NEW f, NEW q, q = SetFp(p, f)
  PROVE  InLoop(q) /\ Rest(p, q) /\ q.v = p.v /\ q.fp = f /\ q.done = p.done
BY DEF SetFp, InLoop, Rest

LEMMA FillIs ==
  ASSUME NEW p, InLoop(p), NEW sect, NEW need, NEW r, r = Fill(p, sect, need),
         NEW w, w = disk_read(p.v)
  PROVE  /\ InLoop(r) /\ Rest(p, r)
         /\ \/ r.v = p.v /\ r.fp = FpSect(p.fp, sect) /\ r.done = p.done
            \/ \E b : w.res = "OK" /\ r.v = w /\ r.fp = FpLoad(p.fp, sect, b) /\ r.done = p.done
            \/ w.res # "OK" /\ r.v = Err(w, "DISK_ERR") /\ r.fp = FpErr(p.fp) /\ r.done
<1> DEFINE a == SetV(p, w)
           b == w.card[sect].data
<1>1. /\ p.fp.dsect = sect \/ ~need => r = SetFp(p, FpSect(p.fp, sect))
      /\ ~(p.fp.dsect = sect \/ ~need) /\ w.res = "OK" => r = SetFp(a, FpLoad(a.fp, sect, b))
      /\ ~(p.fp.dsect = sect \/ ~need) /\ w.res # "OK" => r = Abort(a, "DISK_ERR")
  <2>1. r = IF p.fp.dsect = sect \/ ~need THEN [p EXCEPT !.fp.dsect = sect]
            ELSE IF w.res = "OK" THEN [a EXCEPT !.fp.dsect = sect, !.fp.buf = a.v.card[sect].data]
                 ELSE Abort(a, "DISK_ERR")
    BY DEF Fill, OnTransfer, SetV
  <2>2. [p EXCEPT !.fp.dsect = sect] = SetFp(p, FpSect(p.fp, sect))
    BY DEF SetFp, FpSect, InLoop
  <2>3. a.v = w /\ InLoop(a)
    BY SetVIs
  <2>4. [a EXCEPT !.fp.dsect = sect, !.fp.buf = w.card[sect].data] = SetFp(a, FpLoad(a.fp, sect, b))
    <3> HIDE DEF a
    <3> QED BY <2>3, Zenon DEF SetFp, FpLoad, InLoop
  <2> QED BY <2>1, <2>2, <2>3, <2>4
<1>2. InLoop(a) /\ Rest(p, a) /\ a.v = w /\ a.fp = p.fp /\ a.done = p.done
  BY SetVIs
<1> HIDE DEF a, b
<1>3. CASE p.fp.dsect = sect \/ ~need
  BY <1>1, <1>3, SetFpIs
<1>4. CASE ~(p.fp.dsect = sect \/ ~need) /\ w.res = "OK"
  <2>1. InLoop(r) /\ Rest(a, r) /\ r.v = a.v /\ r.fp = FpLoad(a.fp, sect, b) /\ r.done = a.done
    BY <1>1, <1>2, <1>4, SetFpIs
  <2> QED BY <1>2, <1>4, <2>1, RestTrans
<1>5. CASE ~(p.fp.dsect = sect \/ ~need) /\ w.res # "OK"
  <2>1. InLoop(r) /\ Rest(a, r) /\ r.v = Err(a.v, "DISK_ERR") /\ r.fp = FpErr(a.fp) /\ r.done
    BY <1>1, <1>2, <1>5, AbortIs
  <2> QED BY <1>2, <1>5, <2>1, RestTrans, Zenon
<1> QED BY <1>3, <1>4, <1>5

LEMMA ModNext ==
  ASSUME NEW a \in Nat, a % SectorPieces = 0
  PROVE  (a + SectorPieces) % SectorPieces = 0
<1>1. PICK s \in Nat : s = SectorPieces /\ s > 0
  BY VolumeAssumption
<1>2. a = s * (a \div s) + (a % s) /\ a \div s \in Nat
  BY <1>1
<1>3. PICK m \in Nat : m = a \div s
  BY <1>2
<1>4. a + s = s * (m + 1) + 0
  BY <1>1, <1>2, <1>3
<1>5. (s * (m + 1)) % s = 0
  <2>1. PICK j \in Nat : j = s * (m + 1)
    BY <1>1
  <2>2. j = s * (j \div s) + (j % s) /\ j \div s \in Nat /\ j % s \in 0..(s - 1)
    BY <1>1
  <2>3. PICK i \in Nat : i = j \div s
    BY <2>2
  <2>4. s * (m + 1 - i) = j % s
    BY <1>1, <2>1, <2>2, <2>3
  <2>5. m + 1 - i < 1
    <3>1. SUFFICES ASSUME m + 1 - i >= 1 PROVE FALSE
      OBVIOUS
    <3>2. s * (m + 1 - i) >= s
      BY <1>1, <3>1
    <3> QED BY <1>1, <2>2, <2>4, <3>2
  <2>6. m + 1 - i > -1
    <3>1. SUFFICES ASSUME m + 1 - i <= -1 PROVE FALSE
      OBVIOUS
    <3>2. s * (m + 1 - i) <= -s
      BY <1>1, <3>1
    <3> QED BY <1>1, <2>2, <2>4, <3>2
  <2>7. m + 1 - i = 0
    BY <2>5, <2>6
  <2>8. j % s = 0
    BY <1>1, <2>4, <2>7
  <2> QED BY <2>1, <2>8
<1> QED BY <1>1, <1>4, <1>5

(* Pieces into the buffer, of the cluster the file is in. *)
LEMMA WPartFine ==
  ASSUME NEW p, IsStep(p), p.n # 0, ~p.fp.error, NEW ch, NEW x, NEW g, Base(p.v, ch, x, g), FileOf(p.v, p.fp, ch),
         NEW k \in 1..Len(ch[p.fp.name]), p.fp.curr_clust = ch[p.fp.name][k], p.fp.dsect = clust2sect(p.fp.curr_clust),
         p.fp.fptr - (p.fp.fptr % SectorPieces) + SectorPieces <= k * SectorPieces,
         NEW d, NEW q, q = WPart(p, d)
  PROVE  Wrote(p, q) /\ Fine(q.v, q.fp, x, g)
<1>1. IsFp(p.fp) /\ Extent(p.fp, ch)
  BY DEF FileOf
<1>2. PICK b : \E c \in Nat : /\ q.v = p.v /\ q.fp = FpPut(p.fp, b, c) /\ IsStep(q) /\ Ongoing(q)
                              /\ c <= SectorPieces - (p.fp.fptr % SectorPieces) /\ c > 0
  BY <1>1, WPartIs
<1>3. PICK c \in Nat : /\ q.v = p.v /\ q.fp = FpPut(p.fp, b, c) /\ IsStep(q) /\ Ongoing(q)
                       /\ c <= SectorPieces - (p.fp.fptr % SectorPieces) /\ c > 0
  BY <1>2
<1>4. /\ Kin(p.fp, q.fp) /\ SameSize(p.fp, q.fp) /\ SameClusters(p.fp, q.fp) /\ SameCurr(p.fp, q.fp) /\ SameError(p.fp, q.fp)
      /\ q.fp.dsect = p.fp.dsect /\ q.fp.dirty /\ q.fp.fptr = p.fp.fptr + c
  BY <1>1, <1>3, FpPutIs
<1>5. Extent(q.fp, ch)
  BY <1>1, <1>4, ExtentSame
<1>6. FileOf(q.v, q.fp, ch)
  BY <1>3, <1>4, <1>5, FileKin
<1>7. q.fp.fptr <= k * SectorPieces
  <2>1. p.fp.fptr \in Nat /\ SectorPieces \in Nat /\ SectorPieces > 0
    BY <1>1, VolumeAssumption DEF IsFp
  <2>2. PICK r \in Nat : r = p.fp.fptr % SectorPieces
    BY <2>1
  <2>3. k * SectorPieces \in Nat
    BY Products
  <2> QED BY <1>3, <1>4, <2>1, <2>2, <2>3, SMTT(30)
<1>8. Position(q.fp, ch[p.fp.name])
  BY <1>4, <1>7 DEF Position, Within, Buffered, SameCurr
<1>9. q.fp.name = p.fp.name /\ ~q.fp.error
  BY <1>4 DEF Kin, SameError
<1>10. Still(p.v, q.v)
  <2>1. IsVol(p.v)
    BY BaseFacts
  <2> QED BY <1>3, <2>1, LaterSelf DEF Still
<1> QED BY <1>3, <1>4, <1>6, <1>8, <1>9, <1>10 DEF Wrote, Fine

LEMMA WPartLost ==
  ASSUME NEW p, IsStep(p), p.n # 0, ~p.fp.error, NEW g, Lost(p.v, g), IsFp(p.fp),
         p.fp.curr_clust \in Clusters, p.fp.org_clust \in Clusters \cup {0}, NEW d, NEW q, q = WPart(p, d)
  PROVE  Wrote(p, q) /\ Lost(q.v, g) /\ Drifting(q.fp)
<1>2. PICK b : \E c \in Nat : q.v = p.v /\ q.fp = FpPut(p.fp, b, c) /\ IsStep(q) /\ Ongoing(q)
  BY WPartIs
<1>3. PICK c \in Nat : q.v = p.v /\ q.fp = FpPut(p.fp, b, c) /\ IsStep(q) /\ Ongoing(q)
  BY <1>2
<1>4. /\ Kin(p.fp, q.fp) /\ SameSize(p.fp, q.fp) /\ SameClusters(p.fp, q.fp) /\ SameCurr(p.fp, q.fp) /\ SameError(p.fp, q.fp)
  BY <1>3, FpPutIs
<1>5. Still(p.v, q.v)
  BY <1>3, LaterSelf DEF Still, Lost, Sane
<1> QED BY <1>3, <1>4, <1>5 DEF Wrote, Drifting, SameCurr, SameClusters, SameError

(* A whole sector. *)
LEMMA WDirectIs ==
  ASSUME NEW p, IsStep(p), p.n >= SectorPieces, NEW sect, NEW d, NEW q, q = WDirect(p, sect, d)
  PROVE  \E b : q.v = p.v /\ q.fp = FpPast(p.fp, b, SectorPieces) /\ IsStep(q) /\ Ongoing(q)
<1> DEFINE b == IF p.fp.dsect = sect THEN WWhole(d) ELSE p.fp.buf
<1>1. q = [p EXCEPT !.fp.fptr = @ + SectorPieces, !.fp.buf = b, !.n = @ - SectorPieces, !.done = p.n = SectorPieces]
  BY DEF WDirect, IsStep
<1> HIDE DEF b
<1>2. q.v = p.v /\ q.fp = FpPast(p.fp, b, SectorPieces) /\ DOMAIN q = DOMAIN p /\ q.n = p.n - SectorPieces
  BY <1>1 DEF IsStep, FpPast
<1>3. q.n \in Nat
  BY <1>2, VolumeAssumption DEF IsStep
<1>4. Ongoing(q)
  <2>1. q.done <=> p.n = SectorPieces
    BY <1>1, Zenon DEF IsStep
  <2>2. p.n \in Nat /\ SectorPieces \in Nat
    BY VolumeAssumption DEF IsStep
  <2> QED BY <1>2, <2>1, <2>2 DEF Ongoing
<1> QED BY <1>2, <1>3, <1>4 DEF IsStep

LEMMA WDirectFine ==
  ASSUME NEW p, IsStep(p), p.n >= SectorPieces, ~p.fp.error, NEW ch, NEW x, NEW g, NEW k, InCluster(p.v, p.fp, ch, x, g, k),
         NEW sect, NEW d, NEW q, q = WDirect(p, sect, d)
  PROVE  Wrote(p, q) /\ Fine(q.v, q.fp, x, g)
<1>1. /\ IsFp(p.fp) /\ Extent(p.fp, ch) /\ Base(p.v, ch, x, g) /\ FileOf(p.v, p.fp, ch)
      /\ k \in 1..Len(ch[p.fp.name]) /\ p.fp.curr_clust = ch[p.fp.name][k]
      /\ p.fp.fptr % SectorPieces = 0 /\ p.fp.fptr + SectorPieces <= k * SectorPieces
  BY DEF InCluster, FileOf
<1>2. PICK b : q.v = p.v /\ q.fp = FpPast(p.fp, b, SectorPieces) /\ IsStep(q) /\ Ongoing(q)
  BY WDirectIs
<1>3. SectorPieces \in Nat
  BY VolumeAssumption
<1>4. /\ Kin(p.fp, q.fp) /\ SameSize(p.fp, q.fp) /\ SameClusters(p.fp, q.fp) /\ SameCurr(p.fp, q.fp) /\ SameError(p.fp, q.fp)
      /\ SameBuffer(p.fp, q.fp) /\ q.fp.fptr = p.fp.fptr + SectorPieces
  BY <1>1, <1>2, <1>3, FpPastIs
<1>5. Extent(q.fp, ch)
  BY <1>1, <1>4, ExtentSame
<1>6. FileOf(q.v, q.fp, ch)
  BY <1>1, <1>2, <1>4, <1>5, FileKin
<1>7. q.fp.fptr % SectorPieces = 0
  BY <1>1, <1>4, ModNext DEF IsFp
<1>8. Position(q.fp, ch[p.fp.name])
  BY <1>1, <1>4, <1>7 DEF Position, Within, Buffered, SameCurr
<1>9. q.fp.name = p.fp.name /\ ~q.fp.error
  BY <1>4 DEF Kin, SameError
<1>10. Still(p.v, q.v)
  <2>1. IsVol(p.v)
    BY <1>1, BaseFacts
  <2> QED BY <1>2, <2>1, LaterSelf DEF Still
<1> QED BY <1>1, <1>2, <1>4, <1>6, <1>8, <1>9, <1>10 DEF Wrote, Fine

(* A step out of others. *)
LEMMA WroteAfter ==
  ASSUME NEW p, NEW a, NEW q, Still(p.v, a.v), Kin(p.fp, a.fp), SameSize(p.fp, a.fp), Wrote(a, q)
  PROVE  Wrote(p, q)
<1>1. Still(p.v, q.v)
  BY StillTrans DEF Wrote
<1>2. Kin(p.fp, q.fp)
  BY KinTrans DEF Wrote
<1> QED BY <1>1, <1>2 DEF Wrote, SameSize

LEMMA WroteAbort ==
  ASSUME NEW p, NEW a, IsStep(a), Still(p.v, a.v), Kin(p.fp, a.fp), SameSize(p.fp, a.fp), IsVol(a.v),
         NEW r, NEW q, q = Abort(a, r)
  PROVE  Wrote(p, q) /\ q.v = Err(a.v, r) /\ q.fp = FpErr(a.fp) /\ q.done
<1>1. InLoop(a)
  BY DEF IsStep, InLoop
<1>2. Rest(a, q) /\ q.v = Err(a.v, r) /\ q.fp = FpErr(a.fp) /\ q.done
  BY <1>1, AbortIs
<1>3. IsStep(q)
  BY <1>2, RestStep
<1>4. IsFp(a.fp)
  BY DEF Kin
<1>5. Kin(a.fp, q.fp) /\ SameSize(a.fp, q.fp)
  BY <1>2, <1>4, FpErrIs
<1>6. Still(a.v, q.v)
  BY <1>2, Results
<1>7. Wrote(a, q)
  BY <1>2, <1>3, <1>5, <1>6 DEF Wrote, Ongoing
<1> QED BY <1>2, <1>7, WroteAfter

LEMMA StepLoop ==
  ASSUME NEW p, IsStep(p)
  PROVE  InLoop(p)
BY DEF IsStep, InLoop

LEMMA VolStill ==
  ASSUME NEW v, IsVol(v)
  PROVE  Still(v, v)
BY LaterSelf DEF Still

(* The sector of a cluster gets pieces. *)
LEMMA WInFine ==
  ASSUME NEW p, IsStep(p), p.n # 0, ~p.fp.error, NEW ch, NEW x, NEW g, NEW k, InCluster(p.v, p.fp, ch, x, g, k),
         NEW d, NEW sect, sect = clust2sect(p.fp.curr_clust), NEW q, q = WInSector(p, sect, d)
  PROVE  Wrote(p, q) /\ Fine(q.v, q.fp, x, g)
<1>1. /\ IsFp(p.fp) /\ Extent(p.fp, ch) /\ Base(p.v, ch, x, g) /\ FileOf(p.v, p.fp, ch)
      /\ k \in 1..Len(ch[p.fp.name]) /\ p.fp.curr_clust = ch[p.fp.name][k] /\ p.fp.name \in Names
      /\ p.fp.fptr % SectorPieces = 0 /\ p.fp.fptr + SectorPieces <= k * SectorPieces
  BY DEF InCluster, FileOf
<1>2. IsVol(p.v) /\ InLoop(p)
  BY <1>1, BaseFacts, StepLoop
<1>3. sect # 0
  <2>1. ch[p.fp.name][k] \in Clusters
    BY <1>1, BaseFacts, LayoutFacts
  <2> QED BY <1>1, <2>1, Sectors
<1>4. CASE p.n >= SectorPieces
  <2> DEFINE w == disk_write(p.v, sect, [data |-> WWhole(d)])
             a == SetV(p, w)
  <2>1. q = IF w.res = "OK" THEN WDirect(a, sect, d) ELSE Abort(a, "DISK_ERR")
    BY <1>3, <1>4 DEF WInSector, SetV
  <2>2. /\ Base(w, ch, x, g) /\ Still(p.v, w) /\ Tabled(p.v, w)
    BY <1>1, DataWrite
  <2>3. InLoop(a) /\ Rest(p, a) /\ a.v = w /\ a.fp = p.fp
    BY <1>2, SetVIs
  <2> HIDE DEF w, a
  <2>4. IsStep(a) /\ a.n = p.n
    BY <2>3, RestStep
  <2>5. FileOf(w, p.fp, ch)
    BY <1>1, <2>2, FileTabled
  <2>6. InCluster(a.v, a.fp, ch, x, g, k)
    BY <1>1, <2>2, <2>3, <2>5 DEF InCluster
  <2>7. Still(p.v, a.v) /\ Kin(p.fp, a.fp) /\ SameSize(p.fp, a.fp) /\ IsVol(a.v)
    BY <1>1, <2>2, <2>3, KinSelf, BaseFacts DEF SameSize
  <2>8. CASE w.res = "OK"
    <3>1. q = WDirect(a, sect, d)
      BY <2>1, <2>8
    <3>2. Wrote(a, q) /\ Fine(q.v, q.fp, x, g)
      BY <1>4, <2>3, <2>4, <2>6, <3>1, WDirectFine
    <3> QED BY <2>7, <3>2, WroteAfter
  <2>9. CASE w.res # "OK"
    <3>1. q = Abort(a, "DISK_ERR")
      BY <2>1, <2>9
    <3>2. Wrote(p, q) /\ q.v = Err(a.v, "DISK_ERR") /\ q.fp = FpErr(a.fp)
      BY <2>4, <2>7, <3>1, WroteAbort
    <3>3. Base(q.v, ch, x, g) /\ Same(a.v, q.v)
      BY <2>2, <2>3, <3>2, BaseResult
    <3>4. FileOf(q.v, a.fp, ch)
      BY <2>2, <2>3, <2>5, <3>3, FileTabled, SameTabled
    <3> QED BY <3>2, <3>3, <3>4, FineErr
  <2> QED BY <2>8, <2>9
<1>5. CASE ~(p.n >= SectorPieces)
  <2> DEFINE need == p.fp.fptr < p.fp.fsize
             r == Fill(p, sect, need)
             w == disk_read(p.v)
  <2>1. q = IF r.fp.error THEN r ELSE WPart(r, d)
    BY <1>3, <1>5 DEF WInSector
  <2>2. /\ InLoop(r) /\ Rest(p, r)
        /\ \/ r.v = p.v /\ r.fp = FpSect(p.fp, sect) /\ r.done = p.done
           \/ \E b : w.res = "OK" /\ r.v = w /\ r.fp = FpLoad(p.fp, sect, b) /\ r.done = p.done
           \/ w.res # "OK" /\ r.v = Err(w, "DISK_ERR") /\ r.fp = FpErr(p.fp) /\ r.done
    <3> HIDE DEF need
    <3> QED BY <1>2, FillIs
  <2>3. Core(p.v, w) /\ Still(p.v, w)
    BY <1>2, DiskRead
  <2> HIDE DEF r, w, need
  <2>4. IsStep(r) /\ r.n = p.n
    BY <2>2, RestStep
  <2>5. Base(w, ch, x, g) /\ Tabled(p.v, w)
    BY <1>1, <2>3, BaseCore, SameCore, SameTabled DEF Still
  <2>6. FileOf(w, p.fp, ch) /\ IsVol(w)
    BY <1>1, <2>5, FileTabled, BaseFacts
  <2>7. ASSUME NEW u, Base(u, ch, x, g), FileOf(u, p.fp, ch), r.v = u, Still(p.v, u),
               NEW b, r.fp = FpSect(p.fp, sect) \/ r.fp = FpLoad(p.fp, sect, b)
        PROVE  Wrote(p, q) /\ Fine(q.v, q.fp, x, g)
    <3>1. /\ Kin(p.fp, r.fp) /\ SameSize(p.fp, r.fp) /\ SamePlace(p.fp, r.fp) /\ SameClusters(p.fp, r.fp) /\ SameCurr(p.fp, r.fp)
          /\ SameError(p.fp, r.fp) /\ r.fp.dsect = sect
      <4>1. IsFp(p.fp) /\ (r.fp = FpLoad(p.fp, sect, b) \/ r.fp = FpSect(p.fp, sect))
        BY <1>1, <2>7
      <4> QED BY <4>1, FpLoadIs
    <3>2. q = WPart(r, d) /\ ~r.fp.error
      BY <2>1, <3>1 DEF SameError
    <3>3. Extent(r.fp, ch)
      BY <1>1, <3>1, ExtentSame
    <3>4. FileOf(r.v, r.fp, ch) /\ r.fp.name = p.fp.name
      BY <2>7, <3>1, <3>3, FileKin DEF Kin
    <3>5. r.fp.curr_clust = ch[p.fp.name][k] /\ r.fp.dsect = clust2sect(r.fp.curr_clust) /\ r.fp.fptr = p.fp.fptr
      BY <1>1, <3>1 DEF SameCurr, SamePlace
    <3>6. r.fp.fptr - (r.fp.fptr % SectorPieces) + SectorPieces <= k * SectorPieces
      <4>1. p.fp.fptr \in Nat
        BY <1>1 DEF IsFp
      <4> QED BY <1>1, <3>5, <4>1
    <3>7. Wrote(r, q) /\ Fine(q.v, q.fp, x, g)
      BY <1>1, <2>4, <2>7, <3>2, <3>4, <3>5, <3>6, WPartFine, Zenon
    <3> QED BY <2>7, <3>1, <3>7, WroteAfter
  <2>8. CASE r.v = p.v /\ r.fp = FpSect(p.fp, sect)
    BY <1>1, <1>2, <2>7, <2>8, VolStill
  <2>9. CASE \E b : w.res = "OK" /\ r.v = w /\ r.fp = FpLoad(p.fp, sect, b)
    BY <2>3, <2>5, <2>6, <2>7, <2>9
  <2>10. CASE w.res # "OK" /\ r.v = Err(w, "DISK_ERR") /\ r.fp = FpErr(p.fp) /\ r.done
    <3>1. /\ Kin(p.fp, r.fp) /\ SameSize(p.fp, r.fp) /\ r.fp.error
      BY <1>1, <2>10, FpErrIs
    <3>2. q = r
      BY <2>1, <3>1
    <3>3. Base(r.v, ch, x, g) /\ Same(w, r.v) /\ Still(w, r.v)
      BY <2>5, <2>10, BaseResult
    <3>4. FileOf(r.v, p.fp, ch)
      BY <2>5, <2>6, <3>3, FileTabled, SameTabled
    <3>5. Still(p.v, r.v)
      BY <2>3, <3>3, StillTrans
    <3>6. Fine(r.v, r.fp, x, g)
      BY <2>10, <3>3, <3>4, FineErr
    <3>7. Wrote(p, r)
      BY <2>4, <2>10, <3>1, <3>5 DEF Wrote, Ongoing
    <3> QED BY <3>2, <3>6, <3>7
  <2> QED BY <2>2, <2>8, <2>9, <2>10
<1> QED BY <1>4, <1>5

LEMMA WInLost ==
  ASSUME NEW p, IsStep(p), p.n # 0, ~p.fp.error, NEW g, Lost(p.v, g), IsFp(p.fp),
         p.fp.curr_clust \in Clusters, p.fp.org_clust \in Clusters \cup {0},
         NEW d, NEW sect, sect = clust2sect(p.fp.curr_clust), NEW q, q = WInSector(p, sect, d)
  PROVE  Wrote(p, q) /\ Lost(q.v, g) /\ (q.done \/ Drifting(q.fp))
<1>2. IsVol(p.v) /\ InLoop(p)
  BY StepLoop DEF Lost, Sane
<1>3. sect # 0
  BY Sectors
<1>4. CASE p.n >= SectorPieces
  <2> DEFINE w == disk_write(p.v, sect, [data |-> WWhole(d)])
             a == SetV(p, w)
  <2>1. q = IF w.res = "OK" THEN WDirect(a, sect, d) ELSE Abort(a, "DISK_ERR")
    BY <1>3, <1>4 DEF WInSector, SetV
  <2>2. Lost(w, g) /\ Still(p.v, w) /\ w.res = "DISK_ERR"
    BY LostWrite
  <2>3. InLoop(a) /\ Rest(p, a) /\ a.v = w /\ a.fp = p.fp
    BY <1>2, SetVIs
  <2> HIDE DEF w, a
  <2>4. IsStep(a) /\ a.n = p.n
    BY <2>3, RestStep
  <2>5. Still(p.v, a.v) /\ Kin(p.fp, a.fp) /\ SameSize(p.fp, a.fp) /\ IsVol(a.v)
    BY <2>2, <2>3, KinSelf DEF SameSize, Lost, Sane
  <2>6. q = Abort(a, "DISK_ERR")
    BY <2>1, <2>2
  <2>7. Wrote(p, q) /\ q.v = Err(a.v, "DISK_ERR") /\ q.done
    BY <2>4, <2>5, <2>6, WroteAbort
  <2> QED BY <2>2, <2>3, <2>7, LostResult, Zenon
<1>5. CASE ~(p.n >= SectorPieces)
  <2> DEFINE need == p.fp.fptr < p.fp.fsize
             r == Fill(p, sect, need)
             w == disk_read(p.v)
  <2>1. q = IF r.fp.error THEN r ELSE WPart(r, d)
    BY <1>3, <1>5 DEF WInSector
  <2>2. /\ InLoop(r) /\ Rest(p, r)
        /\ \/ r.v = p.v /\ r.fp = FpSect(p.fp, sect) /\ r.done = p.done
           \/ \E b : w.res = "OK" /\ r.v = w /\ r.fp = FpLoad(p.fp, sect, b) /\ r.done = p.done
           \/ w.res # "OK" /\ r.v = Err(w, "DISK_ERR") /\ r.fp = FpErr(p.fp) /\ r.done
    <3> HIDE DEF need
    <3> QED BY <1>2, FillIs
  <2>3. Lost(w, g) /\ Still(p.v, w) /\ w.res = "DISK_ERR"
    BY LostRead
  <2> HIDE DEF r, w, need
  <2>4. IsStep(r) /\ r.n = p.n
    BY <2>2, RestStep
  <2>8. CASE r.v = p.v /\ r.fp = FpSect(p.fp, sect)
    <3>1. /\ Kin(p.fp, r.fp) /\ SameSize(p.fp, r.fp) /\ SameClusters(p.fp, r.fp) /\ SameCurr(p.fp, r.fp)
          /\ SameError(p.fp, r.fp)
      BY <2>8, FpLoadIs
    <3>2. q = WPart(r, d) /\ ~r.fp.error /\ IsFp(r.fp)
      BY <2>1, <3>1 DEF SameError, Kin
    <3>3. r.fp.curr_clust \in Clusters /\ r.fp.org_clust \in Clusters \cup {0}
      BY <3>1 DEF SameCurr, SameClusters
    <3>4. Wrote(r, q) /\ Lost(q.v, g) /\ Drifting(q.fp)
      BY <2>4, <2>8, <3>2, <3>3, WPartLost
    <3>5. Still(p.v, r.v)
      BY <1>2, <2>8, VolStill
    <3> QED BY <3>1, <3>4, <3>5, WroteAfter
  <2>10. CASE w.res # "OK" /\ r.v = Err(w, "DISK_ERR") /\ r.fp = FpErr(p.fp) /\ r.done
    <3>1. /\ Kin(p.fp, r.fp) /\ SameSize(p.fp, r.fp) /\ r.fp.error
      BY <2>10, FpErrIs
    <3>2. q = r
      BY <2>1, <3>1
    <3>3. Lost(r.v, g) /\ Still(w, r.v)
      BY <2>3, <2>10, LostResult
    <3>5. Still(p.v, r.v)
      BY <2>3, <3>3, StillTrans
    <3>7. Wrote(p, r)
      BY <2>4, <2>10, <3>1, <3>5 DEF Wrote, Ongoing
    <3> QED BY <2>10, <3>2, <3>3, <3>7
  <2> QED BY <2>2, <2>3, <2>8, <2>10
<1> QED BY <1>4, <1>5

(* Whatever the volume. *)
Onward(p, q) == InLoop(q) /\ Still(p.v, q.v)

LEMMA OnwardTrans ==
  ASSUME NEW p, NEW q, NEW r, Onward(p, q), Onward(q, r)
  PROVE  Onward(p, r)
BY StillTrans DEF Onward

LEMMA OnwardStrayed ==
  ASSUME NEW p, Astray(p.v), NEW q, Onward(p, q)
  PROVE  Adrift(q) /\ Astray(q.v)
<1>1. Astray(q.v)
  BY AstrayLater DEF Onward, Still
<1> QED BY <1>1 DEF Adrift, Onward

LEMMA AnyAbort ==
  ASSUME NEW p, InLoop(p), IsVol(p.v), NEW r
  PROVE  Onward(p, Abort(p, r))
<1>1. PICK q : q = Abort(p, r)
  OBVIOUS
<1>2. InLoop(q) /\ q.v = Err(p.v, r)
  BY <1>1, AbortIs
<1> QED BY <1>1, <1>2, Results DEF Onward

LEMMA AnySet ==
  ASSUME NEW p, InLoop(p), NEW w, Still(p.v, w)
  PROVE  Onward(p, SetV(p, w)) /\ SetV(p, w).v = w /\ IsVol(w)
<1>1. PICK q : q = SetV(p, w)
  OBVIOUS
<1>2. InLoop(q) /\ q.v = w
  BY <1>1, SetVIs
<1> QED BY <1>1, <1>2 DEF Onward, Still, Later

LEMMA AnyPut ==
  ASSUME NEW p, InLoop(p), IsVol(p.v), NEW f
  PROVE  Onward(p, SetFp(p, f)) /\ SetFp(p, f).v = p.v
<1>1. PICK q : q = SetFp(p, f)
  OBVIOUS
<1>2. InLoop(q) /\ q.v = p.v
  BY <1>1, SetFpIs
<1> QED BY <1>1, <1>2, VolStill DEF Onward

LEMMA AnyFlush ==
  ASSUME NEW v, IsVol(v), NEW f
  PROVE  Still(v, FlushBuf(v, f))
BY DiskWrites, Results DEF FlushBuf

LEMMA AnyFill ==
  ASSUME NEW p, InLoop(p), IsVol(p.v), NEW sect, NEW need
  PROVE  Onward(p, Fill(p, sect, need))
<1>1. PICK r : r = Fill(p, sect, need)
  OBVIOUS
<1>2. PICK w : w = disk_read(p.v)
  OBVIOUS
<1>3. Still(p.v, w) /\ IsVol(w)
  BY <1>2, DiskRead DEF Still, Later
<1>4. InLoop(r) /\ (r.v = p.v \/ r.v = w \/ r.v = Err(w, "DISK_ERR"))
  BY <1>1, <1>2, FillIs
<1>5. Still(p.v, Err(w, "DISK_ERR"))
  BY <1>3, Results, StillTrans
<1> QED BY <1>1, <1>3, <1>4, <1>5, VolStill DEF Onward

LEMMA AnyPart ==
  ASSUME NEW p, InLoop(p), IsVol(p.v), NEW d
  PROVE  Onward(p, WPart(p, d))
<1>1. DOMAIN WPart(p, d) = DOMAIN p /\ WPart(p, d).v = p.v
  BY DEF WPart, InLoop
<1> QED BY <1>1, VolStill DEF Onward, InLoop

LEMMA AnyDirect ==
  ASSUME NEW p, InLoop(p), IsVol(p.v), NEW sect, NEW d
  PROVE  Onward(p, WDirect(p, sect, d))
<1>1. DOMAIN WDirect(p, sect, d) = DOMAIN p /\ WDirect(p, sect, d).v = p.v
  BY DEF WDirect, InLoop
<1> QED BY <1>1, VolStill DEF Onward, InLoop

LEMMA AnyInSector ==
  ASSUME NEW p, InLoop(p), IsVol(p.v), NEW sect, NEW d, NEW q, q = WInSector(p, sect, d)
  PROVE  Onward(p, q)
<1> DEFINE w == disk_write(p.v, sect, [data |-> WWhole(d)])
           a == SetV(p, w)
           r == Fill(p, sect, p.fp.fptr < p.fp.fsize)
<1>1. \/ q = Abort(p, "INT_ERR")
      \/ q = WDirect(a, sect, d) \/ q = Abort(a, "DISK_ERR")
      \/ q = r \/ q = WPart(r, d)
  BY Zenon DEF WInSector, SetV
<1>2. Still(p.v, w)
  BY DiskWrites
<1>3. Onward(p, r)
  BY AnyFill
<1> HIDE DEF w, r
<1>4. Onward(p, a) /\ a.v = w /\ IsVol(w)
  BY <1>2, AnySet
<1> HIDE DEF a
<1>5. InLoop(a) /\ IsVol(a.v) /\ InLoop(r) /\ IsVol(r.v)
  BY <1>3, <1>4 DEF Onward, Still, Later
<1>6. CASE q = Abort(p, "INT_ERR")
  BY <1>6, AnyAbort
<1>7. CASE q = WDirect(a, sect, d) \/ q = Abort(a, "DISK_ERR")
  <2>1. Onward(a, q)
    BY <1>5, <1>7, AnyDirect, AnyAbort
  <2> QED BY <1>4, <2>1, OnwardTrans
<1>8. CASE q = r
  BY <1>3, <1>8
<1>9. CASE q = WPart(r, d)
  <2>1. Onward(r, q)
    BY <1>5, <1>9, AnyPart
  <2> QED BY <1>3, <2>1, OnwardTrans
<1> QED BY <1>1, <1>6, <1>7, <1>8, <1>9

LEMMA CleanedIs ==
  ASSUME NEW p, InLoop(p)
  PROVE  Cleaned(p) = SetFp(p, FpClean(p.fp))
BY DEF Cleaned, SetFp, FpClean, InLoop

LEMMA AnyAt ==
  ASSUME NEW p, InLoop(p), IsVol(p.v), NEW clst, NEW d, NEW q, q = WAt(p, clst, d)
  PROVE  Onward(p, q)
<1> DEFINE u == [p EXCEPT !.fp.curr_clust = clst]
           w == FlushBuf(p.v, p.fp)
           a == SetV(u, w)
           b == Cleaned(a)
<1>1. \/ q = [p EXCEPT !.done = TRUE]
      \/ q = Abort(p, ErrorOf(clst))
      \/ q = WInSector(b, clust2sect(clst), d)
      \/ q = Abort(a, "DISK_ERR")
  BY DEF WAt, SetV
<1>2. InLoop(u) /\ u.v = p.v
  BY DEF InLoop
<1>3. Still(p.v, w)
  BY AnyFlush
<1> HIDE DEF u, w
<1>4. Onward(u, a) /\ a.v = w /\ IsVol(w)
  BY <1>2, <1>3, AnySet
<1>5. Onward(p, a) /\ InLoop(a) /\ IsVol(a.v)
  BY <1>2, <1>4 DEF Onward
<1> HIDE DEF a
<1>6. Onward(p, b) /\ InLoop(b) /\ IsVol(b.v)
  <2>1. Onward(a, b) /\ b.v = a.v
    BY <1>5, CleanedIs, AnyPut
  <2> HIDE DEF b
  <2> QED BY <1>5, <2>1, OnwardTrans DEF Onward
<1> HIDE DEF b
<1>7. CASE q = [p EXCEPT !.done = TRUE]
  <2>1. InLoop(q) /\ q.v = p.v
    BY <1>7 DEF InLoop
  <2> QED BY <2>1, VolStill DEF Onward
<1>8. CASE q = Abort(p, ErrorOf(clst))
  BY <1>8, AnyAbort
<1>9. CASE q = WInSector(b, clust2sect(clst), d)
  <2>1. Onward(b, q)
    BY <1>6, <1>9, AnyInSector
  <2> QED BY <1>6, <2>1, OnwardTrans
<1>10. CASE q = Abort(a, "DISK_ERR")
  <2>1. Onward(a, q)
    BY <1>5, <1>10, AnyAbort
  <2> QED BY <1>5, <2>1, OnwardTrans
<1> QED BY <1>1, <1>7, <1>8, <1>9, <1>10

LEMMA AnyFollow ==
  ASSUME NEW p, InLoop(p), NEW c, Still(p.v, c), NEW d, NEW q, q = WFollow(p, c, d)
  PROVE  Onward(p, q)
<1> DEFINE a == [p EXCEPT !.v = Ok(c), !.fp.org_clust = IF p.fp.fptr = 0 THEN c.val ELSE @]
<1>1. q = WAt(a, c.val, d)
  BY DEF WFollow
<1>2. InLoop(a) /\ a.v = Ok(c)
  BY DEF InLoop
<1>3. IsVol(c) /\ Still(c, Ok(c))
  BY Results DEF Still, Later
<1> HIDE DEF a
<1>4. Onward(p, a) /\ IsVol(a.v)
  BY <1>2, <1>3, StillTrans DEF Onward, Still, Later
<1>5. Onward(a, q)
  BY <1>1, <1>2, <1>4, AnyAt
<1> QED BY <1>4, <1>5, OnwardTrans

LEMMA AnyWrite ==
  ASSUME NEW p, InLoop(p), IsVol(p.v), NEW d, NEW q, q = WriteStep(p, d)
  PROVE  Onward(p, q)
<1>1. q = WPart(p, d) \/ q = WFollow(p, WCluster(p), d)
  BY WriteStepIs
<1>2. Still(p.v, WCluster(p))
  <2>1. \/ WCluster(p) = create_chain(p.v, p.fp.curr_clust) \/ WCluster(p) = create_chain(p.v, 0)
        \/ WCluster(p) = Val(p.v, p.fp.org_clust)
    BY DEF WCluster
  <2>2. Still(p.v, create_chain(p.v, p.fp.curr_clust)) /\ Still(p.v, create_chain(p.v, 0))
    BY AnyCreate
  <2>3. Still(p.v, Val(p.v, p.fp.org_clust))
    BY Results
  <2> QED BY <2>1, <2>2, <2>3
<1> QED BY <1>1, <1>2, AnyPart, AnyFollow

(* Another layout of the same volume. *)
LEMMA BaseLayout ==
  ASSUME NEW v, NEW ch, NEW x, NEW g, Base(v, ch, x, g), NEW ch2, Dir(ch2) = Dir(ch),
         NEW x2, Tree(Flushed(v), ch2, x2), g => x2 = {}
  PROVE  Base(v, ch2, x2, g)
BY DEF Base, Dir

LEMMA EnteredLayout ==
  ASSUME NEW v, NEW f, NEW ch, Entered(v, f, ch), NEW ch2, Dir(ch2) = Dir(ch)
  PROVE  Entered(v, f, ch2)
BY DEF Entered, DirAt, Nth, Dir

(* To a cluster. *)
LEMMA WAtFine ==
  ASSUME NEW p, IsStep(p), p.n # 0, ~p.fp.error, NEW ch, NEW x, NEW g, Base(p.v, ch, x, g), FileOf(p.v, p.fp, ch),
         NEW k \in 1..Len(ch[p.fp.name]), p.fp.fptr % SectorPieces = 0, p.fp.fptr + SectorPieces <= k * SectorPieces,
         NEW clst, clst = ch[p.fp.name][k], NEW d, NEW q, q = WAt(p, clst, d)
  PROVE  Wrote(p, q) /\ Fine(q.v, q.fp, x, g)
<1> DEFINE u == SetFp(p, FpCurr(p.fp, clst))
           w == FlushBuf(p.v, p.fp)
           a == SetV(u, w)
           b == SetFp(a, FpClean(a.fp))
<1>1. IsFp(p.fp) /\ Extent(p.fp, ch) /\ p.fp.name \in Names /\ IsVol(p.v) /\ InLoop(p)
  BY BaseFacts, StepLoop DEF FileOf
<1>2. clst \in Clusters
  BY <1>1, BaseFacts, LayoutFacts
<1>3. q = IF w.res = "OK" THEN WInSector(b, clust2sect(clst), d) ELSE Abort(a, "DISK_ERR")
  <2>1. q = IF w.res = "OK" THEN WInSector(Cleaned(a), clust2sect(clst), d) ELSE Abort(a, "DISK_ERR")
    <3>1. u = [p EXCEPT !.fp.curr_clust = clst]
      BY <1>1 DEF SetFp, FpCurr, InLoop
    <3>2. clst # 0 /\ clst \notin {1, NoValue}
      BY <1>2, NoClusters
    <3> QED BY <3>1, <3>2 DEF WAt, SetV
  <2>2. InLoop(u)
    BY <1>1, SetFpIs
  <2>3. InLoop(a)
    <3> HIDE DEF u, w
    <3> QED BY <2>2, SetVIs
  <2>4. Cleaned(a) = b
    <3> HIDE DEF a
    <3> QED BY <2>3 DEF Cleaned, SetFp, FpClean, InLoop
  <2> QED BY <2>1, <2>4
<1>4. Base(w, ch, x, g) /\ Still(p.v, w) /\ Tabled(p.v, w)
  BY <1>1, Flushes
<1>5. InLoop(u) /\ Rest(p, u) /\ u.fp = FpCurr(p.fp, clst)
  BY <1>1, SetFpIs
<1> HIDE DEF u, w
<1>6. InLoop(a) /\ Rest(u, a) /\ a.v = w /\ a.fp = u.fp
  BY <1>5, SetVIs
<1> HIDE DEF a
<1>7. InLoop(b) /\ Rest(a, b) /\ b.v = a.v /\ b.fp = FpClean(a.fp)
  BY <1>6, SetFpIs
<1> HIDE DEF b
<1>8. IsStep(a) /\ a.n = p.n /\ IsStep(b) /\ b.n = p.n
  BY <1>5, <1>6, <1>7, RestStep
<1>9. /\ Kin(p.fp, a.fp) /\ SameSize(p.fp, a.fp) /\ SamePlace(p.fp, a.fp) /\ SameClusters(p.fp, a.fp) /\ SameBuffer(p.fp, a.fp)
      /\ SameError(p.fp, a.fp) /\ a.fp.curr_clust = clst
  BY <1>1, <1>5, <1>6, FpCurrIs
<1>10. IsFp(a.fp) /\ FileOf(w, p.fp, ch) /\ a.fp.name = p.fp.name
  BY <1>4, <1>9, FileTabled DEF Kin
<1>11. Extent(a.fp, ch)
  BY <1>1, <1>9, ExtentSame
<1>12. FileOf(w, a.fp, ch)
  BY <1>9, <1>10, <1>11, FileKin
<1>13. Still(p.v, a.v) /\ IsVol(a.v)
  BY <1>4, <1>6, BaseFacts
<1>14. CASE w.res = "OK"
  <2>1. q = WInSector(b, clust2sect(clst), d)
    BY <1>3, <1>14
  <2>2. /\ Kin(a.fp, b.fp) /\ SameSize(a.fp, b.fp) /\ SamePlace(a.fp, b.fp) /\ SameClusters(a.fp, b.fp)
        /\ SameCurr(a.fp, b.fp) /\ SameError(a.fp, b.fp) /\ ~b.fp.dirty
    BY <1>7, <1>10, FpCleanIs
  <2>3. Extent(b.fp, ch)
    BY <1>10, <1>11, <2>2, ExtentSame
  <2>4. FileOf(b.v, b.fp, ch) /\ b.fp.name = p.fp.name
    BY <1>6, <1>7, <1>10, <1>12, <2>2, <2>3, FileKin DEF Kin
  <2>5. b.fp.curr_clust = clst /\ b.fp.fptr = p.fp.fptr /\ ~b.fp.error
    BY <1>9, <2>2 DEF SameCurr, SamePlace, SameError
  <2>6. InCluster(b.v, b.fp, ch, x, g, k)
    BY <1>4, <1>6, <1>7, <2>4, <2>5 DEF InCluster
  <2>7. Wrote(b, q) /\ Fine(q.v, q.fp, x, g)
    BY <1>8, <2>1, <2>5, <2>6, WInFine, Zenon
  <2>8. Still(p.v, b.v) /\ Kin(p.fp, b.fp) /\ SameSize(p.fp, b.fp)
    BY <1>7, <1>9, <1>13, <2>2, KinTrans DEF SameSize
  <2> QED BY <2>7, <2>8, WroteAfter
<1>15. CASE w.res # "OK"
  <2>1. q = Abort(a, "DISK_ERR")
    BY <1>3, <1>15
  <2>2. Wrote(p, q) /\ q.v = Err(a.v, "DISK_ERR") /\ q.fp = FpErr(a.fp)
    BY <1>8, <1>9, <1>13, <2>1, WroteAbort
  <2>3. Base(q.v, ch, x, g) /\ Same(w, q.v)
    BY <1>4, <1>6, <2>2, BaseResult, Zenon
  <2>4. FileOf(q.v, a.fp, ch)
    BY <1>4, <1>12, <2>3, FileTabled, SameTabled
  <2> QED BY <2>2, <2>3, <2>4, FineErr
<1> QED BY <1>14, <1>15

LEMMA WAtLost ==
  ASSUME NEW p, IsStep(p), p.n # 0, ~p.fp.error, NEW g, Lost(p.v, g), IsFp(p.fp),
         NEW clst \in Clusters \cup {0, 1, NoValue}, clst \in Clusters => p.fp.org_clust \in Clusters \cup {0},
         NEW d, NEW q, q = WAt(p, clst, d)
  PROVE  Wrote(p, q) /\ Lost(q.v, g) /\ (q.done \/ Drifting(q.fp))
<1>1. IsVol(p.v) /\ InLoop(p)
  BY StepLoop DEF Lost, Sane
<1>2. CASE clst = 0
  <2>1. q = [p EXCEPT !.done = TRUE]
    BY <1>2, NoClusters DEF WAt
  <2>2. IsStep(q) /\ q.v = p.v /\ q.fp = p.fp /\ q.done
    BY <2>1 DEF IsStep
  <2>3. Still(p.v, q.v) /\ Kin(p.fp, q.fp) /\ SameSize(p.fp, q.fp)
    BY <1>1, <2>2, VolStill, KinSelf DEF SameSize
  <2> QED BY <2>2, <2>3 DEF Wrote, Ongoing
<1>3. CASE clst \in {1, NoValue}
  <2>1. q = Abort(p, ErrorOf(clst))
    BY <1>3, NoClusters DEF WAt
  <2>2. Wrote(p, q) /\ q.v = Err(p.v, ErrorOf(clst)) /\ q.done
    BY <1>1, <2>1, WroteAbort, KinSelf, VolStill DEF SameSize
  <2> QED BY <2>2, LostResult
<1>4. CASE clst \in Clusters
  <2> DEFINE u == SetFp(p, FpCurr(p.fp, clst))
             w == FlushBuf(p.v, p.fp)
             a == SetV(u, w)
             b == SetFp(a, FpClean(a.fp))
  <2>3. q = IF w.res = "OK" THEN WInSector(b, clust2sect(clst), d) ELSE Abort(a, "DISK_ERR")
    <3>1. q = IF w.res = "OK" THEN WInSector(Cleaned(a), clust2sect(clst), d) ELSE Abort(a, "DISK_ERR")
      <4>1. u = [p EXCEPT !.fp.curr_clust = clst]
        BY <1>1 DEF SetFp, FpCurr, InLoop
      <4>2. clst # 0 /\ clst \notin {1, NoValue}
        BY <1>4, NoClusters
      <4> QED BY <4>1, <4>2 DEF WAt, SetV
    <3>2. InLoop(u)
      BY <1>1, SetFpIs
    <3>3. InLoop(a)
      <4> HIDE DEF u, w
      <4> QED BY <3>2, SetVIs
    <3>4. Cleaned(a) = b
      <4> HIDE DEF a
      <4> QED BY <3>3 DEF Cleaned, SetFp, FpClean, InLoop
    <3> QED BY <3>1, <3>4
  <2>4. Lost(w, g) /\ Still(p.v, w)
    BY LostFlush
  <2>5. InLoop(u) /\ Rest(p, u) /\ u.fp = FpCurr(p.fp, clst)
    BY <1>1, SetFpIs
  <2> HIDE DEF u, w
  <2>6. InLoop(a) /\ Rest(u, a) /\ a.v = w /\ a.fp = u.fp
    BY <2>5, SetVIs
  <2> HIDE DEF a
  <2>7. InLoop(b) /\ Rest(a, b) /\ b.v = a.v /\ b.fp = FpClean(a.fp)
    BY <2>6, SetFpIs
  <2> HIDE DEF b
  <2>8. IsStep(a) /\ a.n = p.n /\ IsStep(b) /\ b.n = p.n
    BY <2>5, <2>6, <2>7, RestStep
  <2>9. /\ Kin(p.fp, a.fp) /\ SameSize(p.fp, a.fp) /\ SameClusters(p.fp, a.fp)
        /\ SameError(p.fp, a.fp) /\ a.fp.curr_clust = clst
    BY <2>5, <2>6, FpCurrIs
  <2>10. IsFp(a.fp)
    BY <2>9 DEF Kin
  <2>13. Still(p.v, a.v) /\ IsVol(a.v)
    BY <2>4, <2>6 DEF Lost, Sane
  <2>14. CASE w.res = "OK"
    <3>1. q = WInSector(b, clust2sect(clst), d)
      BY <2>3, <2>14
    <3>2. /\ Kin(a.fp, b.fp) /\ SameSize(a.fp, b.fp) /\ SameClusters(a.fp, b.fp)
          /\ SameCurr(a.fp, b.fp) /\ SameError(a.fp, b.fp)
      BY <2>7, <2>10, FpCleanIs
    <3>3. b.fp.curr_clust = clst /\ ~b.fp.error /\ b.fp.org_clust \in Clusters \cup {0} /\ IsFp(b.fp)
      BY <1>4, <2>9, <3>2 DEF SameCurr, SameError, SameClusters, Kin
    <3>4. Wrote(b, q) /\ Lost(q.v, g) /\ (q.done \/ Drifting(q.fp))
      BY <1>4, <2>4, <2>6, <2>7, <2>8, <3>1, <3>3, WInLost
    <3>5. Still(p.v, b.v) /\ Kin(p.fp, b.fp) /\ SameSize(p.fp, b.fp)
      BY <2>7, <2>9, <2>13, <3>2, KinTrans DEF SameSize
    <3> QED BY <3>4, <3>5, WroteAfter
  <2>15. CASE w.res # "OK"
    <3>1. q = Abort(a, "DISK_ERR")
      BY <2>3, <2>15
    <3>2. Wrote(p, q) /\ q.v = Err(a.v, "DISK_ERR") /\ q.done
      BY <2>8, <2>9, <2>13, <3>1, WroteAbort
    <3> QED BY <2>4, <2>6, <3>2, LostResult
  <2> QED BY <2>14, <2>15
<1> QED BY <1>2, <1>3, <1>4

(* To none. *)
LEMMA WAtNone ==
  ASSUME NEW p, IsStep(p), ~p.fp.error, NEW ch, NEW x, NEW g, Base(p.v, ch, x, g), FileOf(p.v, p.fp, ch),
         Position(p.fp, ch[p.fp.name]), NEW clst \in {0, 1, NoValue}, NEW d, NEW q, q = WAt(p, clst, d)
  PROVE  Wrote(p, q) /\ Fine(q.v, q.fp, x, g)
<1>1. IsFp(p.fp) /\ IsVol(p.v)
  BY BaseFacts DEF FileOf
<1>2. CASE clst = 0
  <2>1. q = [p EXCEPT !.done = TRUE]
    BY <1>2, NoClusters DEF WAt
  <2>2. IsStep(q) /\ q.v = p.v /\ q.fp = p.fp /\ q.done
    BY <2>1 DEF IsStep
  <2>3. Still(p.v, q.v) /\ Kin(p.fp, q.fp) /\ SameSize(p.fp, q.fp)
    BY <1>1, <2>2, VolStill, KinSelf DEF SameSize
  <2> QED BY <2>2, <2>3 DEF Wrote, Fine, Ongoing
<1>3. CASE clst # 0
  <2>1. q = Abort(p, ErrorOf(clst))
    BY <1>3 DEF WAt
  <2>2. Wrote(p, q) /\ q.v = Err(p.v, ErrorOf(clst)) /\ q.fp = FpErr(p.fp)
    BY <1>1, <2>1, WroteAbort, KinSelf, VolStill DEF SameSize
  <2>3. Base(q.v, ch, x, g) /\ Same(p.v, q.v)
    BY <2>2, BaseResult
  <2>4. FileOf(q.v, p.fp, ch)
    BY <2>3, FileTabled, SameTabled
  <2> QED BY <2>2, <2>3, <2>4, FineErr
<1> QED BY <1>2, <1>3

(* A file with one more cluster. *)
LEMMA HoldsLonger ==
  ASSUME NEW f, NEW q \in Seq(Clusters), q # <<>>, NEW c \in Clusters, Holds(f, q), f.fsize \in Nat
  PROVE  Holds(f, Append(q, c))
<1> DEFINE t == Append(q, c)
<1>1. /\ t \in Seq(Clusters) /\ Len(t) = Len(q) + 1 /\ t[Len(q) + 1] = c
      /\ \A i \in 1..Len(q) : t[i] = q[i]
  BY AppendIs
<1> HIDE DEF t
<1>2. PICK l \in Nat : l = Len(q)
  OBVIOUS
<1>3. l # 0
  BY <1>2, EmptySeq
<1>4. l * SectorPieces \in Nat /\ l * SectorPieces <= (l + 1) * SectorPieces
  <2>1. (l + 1) * SectorPieces = l * SectorPieces + SectorPieces /\ l * SectorPieces \in Nat /\ SectorPieces \in Nat
    BY Products, VolumeAssumption, Zenon
  <2> QED BY <2>1
<1>5. f.fsize <= Len(t) * SectorPieces
  <2>1. f.fsize <= l * SectorPieces
    BY <1>2 DEF Extent, Holds
  <2>2. PICK y \in Nat : y = (l + 1) * SectorPieces
    BY <1>4, Products
  <2>3. f.fsize <= y
    BY <1>4, <2>1, <2>2
  <2>4. Len(t) = l + 1
    BY <1>1, <1>2
  <2> QED BY <2>2, <2>3, <2>4
<1>6. t # <<>> /\ t[1] = q[1] /\ 1..Len(q) \subseteq 1..Len(t)
  BY <1>1, <1>2, <1>3
<1> QED BY <1>5, <1>6 DEF Holds, t

LEMMA ExtentLonger ==
  ASSUME NEW f, NEW ch, ch[f.name] \in Seq(Clusters), ch[f.name] # <<>>, NEW c \in Clusters, Extent(f, ch), f.fsize \in Nat,
         NEW ch2, Dir(ch2) = Dir(ch), ch2[f.name] = Append(ch[f.name], c)
  PROVE  Extent(f, ch2)
<1>1. Holds(f, ch2[f.name])
  BY HoldsLonger DEF Extent
<1>2. Len(ch[f.name]) \in Nat /\ Len(ch2[f.name]) = Len(ch[f.name]) + 1 /\ \A k \in 1..Len(ch[f.name]) : ch2[f.name][k] = ch[f.name][k]
  BY AppendIs
<1>3. OffTable(f, ch2)
  BY <1>2 DEF Extent, OffTable
<1> QED BY <1>1, <1>3 DEF Extent

(* What a step that follows the chain starts with. *)
WStart(p, c) == SetFp(SetV(p, Ok(c)), FpOrg(p.fp, IF p.fp.fptr = 0 THEN c.val ELSE p.fp.org_clust))

LEMMA WFollowIs ==
  ASSUME NEW p, IsStep(p), IsFp(p.fp), NEW c, NEW d, NEW a, a = WStart(p, c)
  PROVE  /\ WFollow(p, c, d) = WAt(a, c.val, d)
         /\ IsStep(a) /\ a.n = p.n /\ a.v = Ok(c) /\ a.fp = FpOrg(p.fp, IF p.fp.fptr = 0 THEN c.val ELSE p.fp.org_clust)
<1> DEFINE u == SetV(p, Ok(c))
<1>1. InLoop(p)
  BY StepLoop
<1>2. InLoop(u) /\ Rest(p, u) /\ u.v = Ok(c) /\ u.fp = p.fp
  BY <1>1, SetVIs
<1>3. a = SetFp(u, FpOrg(p.fp, IF p.fp.fptr = 0 THEN c.val ELSE p.fp.org_clust))
  BY DEF WStart
<1>4. WFollow(p, c, d) = WAt(a, c.val, d)
  <2>1. [p EXCEPT !.v = Ok(c), !.fp.org_clust = IF p.fp.fptr = 0 THEN c.val ELSE @] = a
    BY <1>1, <1>3 DEF SetFp, SetV, FpOrg, InLoop
  <2> QED BY <2>1 DEF WFollow
<1> HIDE DEF u
<1>5. InLoop(a) /\ Rest(u, a) /\ a.v = u.v /\ a.fp = FpOrg(p.fp, IF p.fp.fptr = 0 THEN c.val ELSE p.fp.org_clust)
  BY <1>2, <1>3, SetFpIs
<1>6. IsStep(u) /\ u.n = p.n
  BY <1>2, RestStep
<1>7. IsStep(a) /\ a.n = u.n
  BY <1>5, <1>6, RestStep
<1> QED BY <1>2, <1>4, <1>5, <1>6, <1>7

(* With the file past its start. *)
LEMMA WFollowPast ==
  ASSUME NEW p, IsStep(p), p.n # 0, ~p.fp.error, NEW ch, NEW x, NEW g, Base(p.v, ch, x, g), FileOf(p.v, p.fp, ch),
         Position(p.fp, ch[p.fp.name]), Cutting(p.v), p.fp.fptr > 0, p.fp.fptr % SectorPieces = 0,
         NEW d, NEW q, q = WFollow(p, WCluster(p), d)
  PROVE  (Wrote(p, q) /\ Afloat(q, x, g)) \/ Adrift(q)
<1> DEFINE n == p.fp.name
<1>1. IsFp(p.fp) /\ Extent(p.fp, ch) /\ n \in Names /\ IsVol(p.v) /\ ch \in Layouts /\ n # "none" /\ p.fp.fptr \in Nat
      /\ Entered(p.v, p.fp, ch)
  BY BaseFacts, NamesAssumption DEF FileOf, IsFp
<1>2. PICK k \in 1..Len(ch[n]) : p.fp.curr_clust = ch[n][k] /\ p.fp.fptr <= k * SectorPieces
  BY DEF Position, Within
<1>3. PICK c : c = create_chain(p.v, ch[n][k])
  OBVIOUS
<1>4. WCluster(p) = c
  BY <1>2, <1>3 DEF WCluster
<1>5. /\ Still(p.v, c) /\ Sane(c) /\ Same(p.v, c) /\ c.val \in Clusters \cup {0, 1, NoValue}
      /\ Next1(p.v, c, ch, x, g, n, k)
  BY <1>1, <1>3, CreateNext
<1>6. PICK a : a = WStart(p, c)
  OBVIOUS
<1>7. /\ q = WAt(a, c.val, d) /\ IsStep(a) /\ a.n = p.n /\ a.v = Ok(c) /\ a.fp = FpOrg(p.fp, p.fp.org_clust)
  <2>1. p.fp.fptr # 0
    BY <1>1
  <2> QED BY <1>1, <1>4, <1>6, <2>1, WFollowIs
<1>8. /\ Kin(p.fp, a.fp) /\ SameSize(p.fp, a.fp) /\ SamePlace(p.fp, a.fp) /\ SameCurr(p.fp, a.fp) /\ SameBuffer(p.fp, a.fp)
      /\ SameError(p.fp, a.fp) /\ SameClusters(p.fp, a.fp) /\ IsFp(a.fp) /\ a.fp.name = n
  BY <1>1, <1>7, FpOrgIs DEF SameClusters, Kin
<1>9. Still(p.v, a.v) /\ IsVol(a.v)
  <2>1. IsVol(c)
    BY <1>5 DEF Sane
  <2>2. Still(c, Ok(c))
    BY <2>1, Results
  <2>3. Still(p.v, a.v)
    BY <1>5, <1>7, <2>2, StillTrans
  <2> QED BY <2>3 DEF Still, Later
<1>10. Same(p.v, a.v) /\ Tabled(p.v, a.v)
  <2>1. Core(c, Ok(c))
    BY <1>5, Results DEF Sane
  <2>2. Same(c, a.v)
    BY <1>7, <2>1, SameCore
  <2> QED BY <1>5, <2>2, SameTrans, SameTabled
<1>11. ~a.fp.error /\ a.fp.fptr = p.fp.fptr /\ a.n # 0
  BY <1>7, <1>8 DEF SameError, SamePlace
<1>12. Extent(a.fp, ch) /\ Entered(a.v, a.fp, ch)
  <2>1. Extent(a.fp, ch)
    BY <1>1, <1>8, ExtentSame
  <2>2. Entered(a.v, p.fp, ch)
    BY <1>1, <1>10, EnteredTabled
  <2>3. p.fp.dir = a.fp.dir /\ p.fp.name = a.fp.name
    BY <1>8 DEF Kin
  <2> QED BY <2>1, <2>2, <2>3 DEF Entered
<1>13. FileOf(a.v, a.fp, ch)
  BY <1>1, <1>8, <1>12 DEF FileOf
<1>14. ch[n] \in Seq(Clusters) /\ ch[n] # <<>> /\ Len(ch[n]) \in Nat /\ k \in Nat
  BY <1>1, LayoutFacts
<1>15. ASSUME Base(c, ch, x, g) PROVE Base(a.v, ch, x, g)
  BY <1>7, <1>15, BaseResult
<1>16. a.fp.fptr + SectorPieces <= (k + 1) * SectorPieces
  <2>1. (k + 1) * SectorPieces = k * SectorPieces + SectorPieces /\ k * SectorPieces \in Nat /\ SectorPieces \in Nat
    BY <1>14, Products, VolumeAssumption, Zenon
  <2> QED BY <1>1, <1>2, <1>11, <2>1, SMTT(30)
<1> HIDE DEF n
<1>17. ASSUME Wrote(a, q) PROVE Wrote(p, q)
  BY <1>8, <1>9, <1>17, WroteAfter
<1>18. CASE k < Len(ch[n]) /\ c.val = ch[n][k + 1] /\ Base(c, ch, x, g)
  <2>1. k + 1 \in 1..Len(ch[n])
    BY <1>14, <1>18
  <2>2. Base(a.v, ch, x, g)
    BY <1>15, <1>18
  <2>3. Wrote(a, q) /\ Fine(q.v, q.fp, x, g)
    BY <1>7, <1>8, <1>11, <1>13, <1>16, <1>18, <2>1, <2>2, WAtFine, Zenon
  <2> QED BY <2>3, <1>17 DEF Afloat
<1>19. CASE k = Len(ch[n]) /\ c.val \in Clusters /\ Base(c, Longer(ch, n, c.val), x, g)
  <2>1. PICK ch2 : ch2 = Longer(ch, n, c.val)
    OBVIOUS
  <2>2. Base(a.v, ch2, x, g)
    BY <1>7, <1>19, <2>1, BaseResult
  <2>3. ch2[n] = Append(ch[n], c.val) /\ Dir(ch2) = Dir(ch)
    <3>1. DOMAIN ch = Names \cup {"none"}
      BY <1>1 DEF Layouts
    <3>2. n \in Names /\ n # "none"
      BY <1>1 DEF n
    <3> QED BY <2>1, <3>1, <3>2 DEF Longer, Dir
  <2>4. Extent(a.fp, ch2)
    <3>1. a.fp.fsize \in Nat
      BY <1>8 DEF IsFp
    <3> QED BY <1>8, <1>12, <1>14, <1>19, <2>3, <3>1, ExtentLonger
  <2>5. Entered(a.v, a.fp, ch2)
    BY <1>12, <2>3, EnteredLayout
  <2>6. FileOf(a.v, a.fp, ch2)
    BY <1>13, <1>8, <2>4, <2>5 DEF FileOf
  <2>7. k + 1 \in 1..Len(ch2[n]) /\ ch2[n][k + 1] = c.val
    <3>1. Len(Append(ch[n], c.val)) = Len(ch[n]) + 1 /\ Append(ch[n], c.val)[Len(ch[n]) + 1] = c.val
      BY <1>14, <1>19, AppendIs
    <3> QED BY <1>14, <1>19, <2>3, <3>1
  <2>8. Wrote(a, q) /\ Fine(q.v, q.fp, x, g)
    BY <1>7, <1>8, <1>11, <1>16, <2>2, <2>6, <2>7, WAtFine, Zenon
  <2> QED BY <2>8, <1>17 DEF Afloat
<1>20. CASE c.val \in {0, 1, NoValue} /\ Base(c, ch, x, g)
  <2>1. Base(a.v, ch, x, g)
    BY <1>15, <1>20
  <2>2. Position(a.fp, ch[n])
    BY <1>8, PositionSame DEF SameBuffer, n
  <2>3. Wrote(a, q) /\ Fine(q.v, q.fp, x, g)
    BY <1>7, <1>8, <1>11, <1>13, <1>20, <2>1, <2>2, WAtNone, Zenon
  <2> QED BY <2>3, <1>17 DEF Afloat
<1>21. CASE Lost(c, g)
  <2>1. Lost(a.v, g)
    BY <1>7, <1>21, LostResult
  <2>2. a.fp.org_clust \in Clusters \cup {0}
    <3>1. ch[n][1] \in Clusters
      BY <1>14, EmptySeq
    <3> QED BY <1>8, <1>12, <3>1 DEF Extent, Holds
  <2>3. Wrote(a, q) /\ Lost(q.v, g) /\ (q.done \/ Drifting(q.fp))
    BY <1>5, <1>7, <1>8, <1>11, <2>1, <2>2, WAtLost, Zenon
  <2> QED BY <2>3, <1>17 DEF Afloat
<1>22. CASE Astray(c)
  <2>1. q = WFollow(p, c, d) /\ InLoop(p)
    BY <1>4, StepLoop
  <2>2. Onward(SetV(p, c), q)
    <3>1. InLoop(SetV(p, c)) /\ SetV(p, c).v = c
      BY <2>1, SetVIs
    <3>2. Onward(p, q)
      BY <1>5, <2>1, AnyFollow
    <3>3. Still(c, q.v)
      <4>1. PICK b : b = WStart(p, c)
        OBVIOUS
      <4>2. q = WAt(b, c.val, d) /\ IsStep(b) /\ b.v = Ok(c)
        BY <1>1, <2>1, <4>1, WFollowIs
      <4>3. IsVol(c) /\ Still(c, Ok(c)) /\ IsVol(b.v)
        BY <1>5, <4>2, Results DEF Sane, Still, Later
      <4>4. Onward(b, q)
        BY <4>2, <4>3, StepLoop, AnyAt
      <4> QED BY <4>2, <4>3, <4>4, StillTrans DEF Onward
    <3> QED BY <3>1, <3>2, <3>3 DEF Onward
  <2>3. Astray(SetV(p, c).v)
    BY <1>22, <2>1, SetVIs
  <2> QED BY <2>2, <2>3, OnwardStrayed
<1> QED BY <1>5, <1>18, <1>19, <1>20, <1>21, <1>22 DEF Next1

LEMMA FollowFrame ==
  ASSUME NEW p, IsStep(p), ~p.fp.error, IsFp(p.fp), NEW c, Still(p.v, c), Sane(c), Same(p.v, c), NEW a, a = WStart(p, c)
  PROVE  /\ IsStep(a) /\ a.n = p.n /\ a.v = Ok(c)
         /\ Kin(p.fp, a.fp) /\ SameSize(p.fp, a.fp) /\ SamePlace(p.fp, a.fp) /\ SameCurr(p.fp, a.fp) /\ SameBuffer(p.fp, a.fp)
         /\ IsFp(a.fp) /\ a.fp.name = p.fp.name /\ ~a.fp.error /\ a.fp.fptr = p.fp.fptr
         /\ a.fp.org_clust = IF p.fp.fptr = 0 THEN c.val ELSE p.fp.org_clust
         /\ Still(p.v, a.v) /\ Same(p.v, a.v) /\ Tabled(p.v, a.v) /\ IsVol(a.v)
         /\ \A d, q : q = WFollow(p, c, d) => q = WAt(a, c.val, d) /\ (Wrote(a, q) => Wrote(p, q))
<1>1. /\ \A d : WFollow(p, c, d) = WAt(a, c.val, d)
      /\ IsStep(a) /\ a.n = p.n /\ a.v = Ok(c) /\ a.fp = FpOrg(p.fp, IF p.fp.fptr = 0 THEN c.val ELSE p.fp.org_clust)
  BY WFollowIs
<1>2. /\ Kin(p.fp, a.fp) /\ SameSize(p.fp, a.fp) /\ SamePlace(p.fp, a.fp) /\ SameCurr(p.fp, a.fp) /\ SameBuffer(p.fp, a.fp)
      /\ SameError(p.fp, a.fp) /\ a.fp.org_clust = IF p.fp.fptr = 0 THEN c.val ELSE p.fp.org_clust
  BY <1>1, FpOrgIs
<1>3. IsVol(c) /\ Still(c, Ok(c)) /\ Core(c, Ok(c))
  BY Results DEF Sane
<1>4. Still(p.v, a.v)
  BY <1>1, <1>3, StillTrans
<1>5. Same(p.v, a.v)
  BY <1>1, <1>3, SameCore, SameTrans
<1>6. IsVol(a.v)
  BY <1>4 DEF Still, Later
<1>7. ASSUME NEW q, Wrote(a, q) PROVE Wrote(p, q)
  BY <1>2, <1>4, <1>7, WroteAfter
<1>8. IsFp(a.fp) /\ a.fp.name = p.fp.name /\ ~a.fp.error /\ a.fp.fptr = p.fp.fptr
  BY <1>2 DEF Kin, SameError, SamePlace
<1>9. Tabled(p.v, a.v)
  BY <1>5, SameTabled
<1> QED BY <1>1, <1>2, <1>4, <1>5, <1>6, <1>7, <1>8, <1>9

(* At the start of the file. *)
LEMMA WFollowStart ==
  ASSUME NEW p, IsStep(p), p.n # 0, ~p.fp.error, NEW ch, NEW x, NEW g, Base(p.v, ch, x, g), FileOf(p.v, p.fp, ch),
         Cutting(p.v), p.fp.fptr = 0,
         NEW d, NEW q, q = WFollow(p, WCluster(p), d)
  PROVE  (Wrote(p, q) /\ Afloat(q, x, g)) \/ Adrift(q)
<1> DEFINE n == p.fp.name
<1>1. IsFp(p.fp) /\ Extent(p.fp, ch) /\ n \in Names /\ IsVol(p.v) /\ ch \in Layouts /\ n # "none"
      /\ Entered(p.v, p.fp, ch) /\ p.fp.fsize \in Nat
  BY BaseFacts, NamesAssumption DEF FileOf, IsFp
<1>2. ch[n] \in Seq(Clusters) /\ Len(ch[n]) \in Nat
  BY <1>1, LayoutFacts
<1>3. SectorPieces \in Nat \ {0} /\ 0 % SectorPieces = 0 /\ 1 * SectorPieces = SectorPieces
  BY VolumeAssumption
<1> HIDE DEF n
<1>4. CASE ch[n] # <<>>
  <2>1. ch[n][1] \in Clusters /\ 1 \in 1..Len(ch[n])
    BY <1>2, <1>4, EmptySeq
  <2>2. p.fp.org_clust = ch[n][1] /\ p.fp.org_clust # 0
    BY <1>1, <1>4, <2>1, NoClusters DEF Extent, Holds, n
  <2>3. PICK c : c = Val(p.v, p.fp.org_clust)
    OBVIOUS
  <2>4. WCluster(p) = c
    BY <2>2, <2>3 DEF WCluster
  <2>5. Base(c, ch, x, g) /\ Still(p.v, c) /\ Same(p.v, c)
    BY <2>3, BaseResult
  <2>6. c.val = ch[n][1]
    BY <1>1, <2>2, <2>3, Results
  <2>7. PICK a : a = WStart(p, c)
    OBVIOUS
  <2>8. Sane(c)
    BY <2>5, BaseFacts
  <2>9. /\ IsStep(a) /\ a.n = p.n /\ a.v = Ok(c)
        /\ Kin(p.fp, a.fp) /\ SameSize(p.fp, a.fp) /\ SamePlace(p.fp, a.fp) /\ SameCurr(p.fp, a.fp) /\ SameBuffer(p.fp, a.fp)
        /\ IsFp(a.fp) /\ a.fp.name = n /\ ~a.fp.error /\ a.fp.fptr = 0
        /\ a.fp.org_clust = c.val /\ Tabled(p.v, a.v)
        /\ q = WAt(a, c.val, d) /\ (Wrote(a, q) => Wrote(p, q))
    BY <1>1, <2>4, <2>5, <2>7, <2>8, FollowFrame DEF n
  <2>10. SameClusters(p.fp, a.fp)
    BY <2>2, <2>6, <2>9 DEF SameClusters
  <2>11. Extent(a.fp, ch)
    BY <1>1, <2>9, <2>10, ExtentSame
  <2>12. FileOf(a.v, p.fp, ch)
    BY <2>9, FileTabled
  <2>13. FileOf(a.v, a.fp, ch)
    BY <2>9, <2>11, <2>12, FileKin DEF n
  <2>14. Base(a.v, ch, x, g)
    BY <2>5, <2>9, BaseResult
  <2>15. a.fp.fptr % SectorPieces = 0 /\ a.fp.fptr + SectorPieces <= 1 * SectorPieces /\ a.n # 0
    BY <1>3, <2>9
  <2>16. Wrote(a, q) /\ Fine(q.v, q.fp, x, g)
    BY <2>1, <2>6, <2>9, <2>13, <2>14, <2>15, WAtFine, Zenon
  <2> QED BY <2>9, <2>16 DEF Afloat
<1>5. CASE ch[n] = <<>>
  <2>1. p.fp.org_clust = 0 /\ Len(ch[n]) = 0
    BY <1>1, <1>5 DEF Extent, Holds, n
  <2>2. PICK c : c = create_chain(p.v, 0)
    OBVIOUS
  <2>3. WCluster(p) = c
    BY <1>3, <2>1, <2>2 DEF WCluster
  <2>4. /\ Base(c, ch, x, g) /\ Still(p.v, c) /\ Same(p.v, c)
        /\ c.val \in Clusters \cup {0, 1, NoValue}
        /\ c.val \in Clusters => ~Owned(ch, c.val) /\ FatOf(Flushed(c))[c.val] = LastLink
        /\ c.val \in {1, NoValue} => c.hit
    BY <2>2, CreateFirst
  <2>5. Sane(c) /\ Tree(Flushed(c), ch, x)
    BY <2>4, BaseFacts
  <2>6. PICK a : a = WStart(p, c)
    OBVIOUS
  <2>7. /\ IsStep(a) /\ a.n = p.n /\ a.v = Ok(c)
        /\ Kin(p.fp, a.fp) /\ SameSize(p.fp, a.fp) /\ SamePlace(p.fp, a.fp) /\ SameCurr(p.fp, a.fp) /\ SameBuffer(p.fp, a.fp)
        /\ IsFp(a.fp) /\ a.fp.name = n /\ ~a.fp.error /\ a.fp.fptr = 0
        /\ a.fp.org_clust = c.val /\ Tabled(p.v, a.v)
        /\ q = WAt(a, c.val, d) /\ (Wrote(a, q) => Wrote(p, q))
    BY <1>1, <2>3, <2>4, <2>5, <2>6, FollowFrame DEF n
  <2>8. p.fp.fsize = 0 /\ a.fp.fsize = 0
    BY <1>1, <1>3, <2>1, <2>7 DEF Extent, Holds, SameSize, n
  <2>o. p.fp.dirty => \E e \in Clusters : p.fp.dsect = clust2sect(e) /\ \A j \in 1..Len(Dir(ch)) : Dir(ch)[j] # e
    BY <1>1, <2>1 DEF Extent, OffTable, n
  <2>9. Base(a.v, ch, x, g)
    BY <2>4, <2>7, BaseResult
  <2>10. Entered(a.v, a.fp, ch)
    <3>1. Entered(a.v, p.fp, ch)
      BY <1>1, <2>7, EnteredTabled
    <3>2. p.fp.dir = a.fp.dir /\ p.fp.name = a.fp.name
      BY <2>7 DEF Kin
    <3> QED BY <3>1, <3>2 DEF Entered
  <2>11. CASE c.val \in Clusters
    <3>1. PICK ch2 : ch2 = [ch EXCEPT ![n] = <<c.val>>]
      BY Zenon
    <3>2. Tree(Flushed(c), ch2, x)
      BY <1>1, <1>5, <2>4, <2>5, <2>11, <3>1, FileBegin, Zenon DEF n
    <3>3. ch2[n] = <<c.val>> /\ Dir(ch2) = Dir(ch)
      BY <1>1, <3>1 DEF Layouts, Dir, n
    <3>4. g => x = {}
      BY <2>4 DEF Base
    <3>5. Base(c, ch2, x, g)
      BY <2>4, <3>2, <3>3, <3>4, BaseLayout
    <3>6. Base(a.v, ch2, x, g)
      BY <2>7, <3>5, BaseResult
    <3>7. Len(ch2[n]) = 1 /\ ch2[n][1] = c.val /\ ch2[n] # <<>>
      BY <3>3
    <3>8. Extent(a.fp, ch2)
      <4>1. Holds(a.fp, ch2[n])
        BY <1>3, <2>7, <2>8, <3>7 DEF Holds
      <4>2. OffTable(a.fp, ch2)
        BY <2>7, <2>o, <3>3 DEF OffTable, SameBuffer
      <4> QED BY <2>7, <4>1, <4>2 DEF Extent
    <3>9. FileOf(a.v, a.fp, ch2)
      <4>1. Entered(a.v, a.fp, ch2)
        BY <2>10, <3>3, EnteredLayout
      <4> QED BY <1>1, <2>7, <3>8, <4>1 DEF FileOf, n
    <3>10. a.fp.fptr % SectorPieces = 0 /\ a.fp.fptr + SectorPieces <= 1 * SectorPieces /\ a.n # 0 /\ 1 \in 1..Len(ch2[n])
      BY <1>3, <2>7, <3>7
    <3>11. Wrote(a, q) /\ Fine(q.v, q.fp, x, g)
      BY <2>7, <3>6, <3>7, <3>9, <3>10, WAtFine, Zenon
    <3> QED BY <2>7, <3>11 DEF Afloat
  <2>12. CASE c.val = 0
    <3>1. Extent(a.fp, ch)
      <4>1. Holds(a.fp, ch[n])
        BY <1>3, <1>5, <2>1, <2>7, <2>8, <2>12 DEF Holds
      <4>2. OffTable(a.fp, ch)
        BY <2>7, <2>o DEF OffTable, SameBuffer
      <4> QED BY <2>7, <4>1, <4>2 DEF Extent
    <3>2. FileOf(a.v, a.fp, ch)
      BY <1>1, <2>7, <2>10, <3>1 DEF FileOf, n
    <3>3. Position(a.fp, ch[n])
      BY <1>3, <2>7 DEF Position, Within, Buffered
    <3>4. Wrote(a, q) /\ Fine(q.v, q.fp, x, g)
      BY <2>7, <2>9, <2>12, <3>2, <3>3, WAtNone, Zenon
    <3> QED BY <2>7, <3>4 DEF Afloat
  <2>13. CASE c.val \in {1, NoValue}
    <3>1. CASE c.gone
      <4>1. Dead(c)
        BY <2>4, <2>13, <3>1, CuttingLater DEF Still
      <4>2. Lost(c, g)
        BY <2>4, <4>1, BaseLost
      <4>3. Lost(a.v, g)
        BY <2>7, <4>2, LostResult
      <4>4. c.val \notin Clusters
        BY <2>13, NoClusters
      <4>5. Wrote(a, q) /\ Lost(q.v, g) /\ (q.done \/ Drifting(q.fp))
        BY <1>1, <2>4, <2>7, <4>3, <4>4, WAtLost
      <4> QED BY <2>7, <4>5 DEF Afloat
    <3>2. CASE ~c.gone
      <4>1. q = Abort(a, ErrorOf(c.val))
        BY <2>7, <2>13, NoClusters DEF WAt
      <4>2. IsVol(a.v) /\ Still(c, a.v)
        <5>1. IsVol(c)
          BY <2>5 DEF Sane
        <5>2. Still(c, Ok(c)) /\ a.v = Ok(c)
          BY <2>7, <5>1, Results
        <5> QED BY <5>2 DEF Still, Later
      <4>3. InLoop(q) /\ q.v = Err(a.v, ErrorOf(c.val)) /\ q.fp = FpErr(a.fp) /\ q.done
        BY <2>7, <4>1, StepLoop, AbortIs
      <4>4. Still(c, q.v)
        BY <4>2, <4>3, Results, StillTrans
      <4>5. IsFp(q.fp) /\ q.fp.org_clust = c.val
        BY <2>7, <4>3, FpErrIs DEF Kin, SameClusters
      <4>6. c.val \notin Clusters \cup {0}
        BY <2>13, NoClusters
      <4>7. IsVol(q.v) /\ ~q.v.gone
        BY <3>2, <4>4 DEF Still, Later
      <4> QED BY <4>3, <4>5, <4>6, <4>7 DEF Adrift, Strayed
    <3> QED BY <3>1, <3>2
  <2> QED BY <2>4, <2>11, <2>12, <2>13
<1> QED BY <1>4, <1>5

(* With the card gone. *)
LEMMA WFollowLost ==
  ASSUME NEW p, IsStep(p), p.n # 0, ~p.fp.error, NEW g, Lost(p.v, g), IsFp(p.fp), Drifting(p.fp),
         NEW d, NEW q, q = WFollow(p, WCluster(p), d)
  PROVE  Wrote(p, q) /\ Lost(q.v, g) /\ (q.done \/ Drifting(q.fp))
<1>1. PICK c : c = WCluster(p)
  OBVIOUS
<1>2. Lost(c, g) /\ Still(p.v, c) /\ c.val \in Clusters \cup {0, 1, NoValue}
  <2>1. CASE p.fp.fptr > 0
    <3>1. c = create_chain(p.v, p.fp.curr_clust) /\ p.fp.curr_clust \in Clusters \cup {0}
      BY <1>1, <2>1 DEF WCluster, Drifting
    <3> QED BY <3>1, LostCreate
  <2>2. CASE p.fp.fptr = 0 /\ p.fp.org_clust = 0
    <3>1. c = create_chain(p.v, 0)
      BY <1>1, <2>2 DEF WCluster
    <3> QED BY <3>1, LostCreate
  <2>3. CASE p.fp.fptr = 0 /\ p.fp.org_clust # 0
    <3>1. c = Val(p.v, p.fp.org_clust) /\ p.fp.org_clust \in Clusters
      BY <1>1, <2>3 DEF WCluster, Drifting
    <3>2. IsVol(p.v)
      BY DEF Lost, Sane
    <3>3. c.val = p.fp.org_clust
      BY <3>1, <3>2, Results
    <3> QED BY <3>1, <3>3, LostResult
  <2>4. p.fp.fptr \in Nat
    BY DEF IsFp
  <2> QED BY <2>1, <2>2, <2>3, <2>4
<1>3. PICK a : a = WStart(p, c)
  OBVIOUS
<1>4. /\ q = WAt(a, c.val, d)
      /\ IsStep(a) /\ a.n = p.n /\ a.v = Ok(c) /\ a.fp = FpOrg(p.fp, IF p.fp.fptr = 0 THEN c.val ELSE p.fp.org_clust)
  BY <1>1, <1>3, WFollowIs
<1>5. /\ Kin(p.fp, a.fp) /\ SameSize(p.fp, a.fp) /\ SameError(p.fp, a.fp)
      /\ a.fp.org_clust = IF p.fp.fptr = 0 THEN c.val ELSE p.fp.org_clust
  BY <1>4, FpOrgIs
<1>6. Lost(a.v, g) /\ Still(c, a.v)
  BY <1>2, <1>4, LostResult, Zenon
<1>7. Still(p.v, a.v)
  BY <1>2, <1>6, StillTrans
<1>8. IsFp(a.fp) /\ ~a.fp.error /\ a.n # 0
  BY <1>4, <1>5 DEF Kin, SameError
<1>9. c.val \in Clusters => a.fp.org_clust \in Clusters \cup {0}
  BY <1>5 DEF Drifting
<1>10. Wrote(a, q) /\ Lost(q.v, g) /\ (q.done \/ Drifting(q.fp))
  BY <1>2, <1>4, <1>6, <1>8, <1>9, WAtLost
<1> QED BY <1>5, <1>7, <1>10, WroteAfter

(* A step of the loop. *)
Writing(p, v, f, x, g) ==
  /\ IsStep(p) /\ Still(v, p.v) /\ Kin(f, p.fp) /\ SameSize(f, p.fp)
  /\ p.done \/ ~p.fp.error
  /\ Ongoing(p) /\ Afloat(p, x, g)

LEMMA WritingAfter ==
  ASSUME NEW p, NEW v, NEW f, NEW x, NEW g, Writing(p, v, f, x, g), NEW q, Wrote(p, q), Afloat(q, x, g)
  PROVE  Writing(q, v, f, x, g)
<1>1. Still(v, q.v)
  BY StillTrans DEF Writing, Wrote
<1>2. Kin(f, q.fp) /\ SameSize(f, q.fp)
  BY KinTrans DEF Writing, Wrote, SameSize
<1> QED BY <1>1, <1>2 DEF Writing, Wrote

LEMMA WriteStepKeeps ==
  ASSUME NEW p, NEW v, Cutting(v), NEW f, NEW x, NEW g, Writing(p, v, f, x, g), ~p.done,
         NEW d, NEW q, q = WriteStep(p, d)
  PROVE  Writing(q, v, f, x, g) \/ Adrift(q)
<1>1. IsStep(p) /\ p.n # 0 /\ ~p.fp.error /\ Still(v, p.v) /\ IsFp(p.fp)
  BY DEF Writing, Ongoing, Kin
<1>2. Cutting(p.v)
  BY <1>1, CuttingLater DEF Still
<1>3. p.fp.fptr \in Nat /\ SectorPieces \in Nat /\ 0 % SectorPieces = 0
  BY <1>1, VolumeAssumption DEF IsFp
<1>4. (Wrote(p, q) /\ Afloat(q, x, g)) \/ Adrift(q)
  <2>1. CASE p.fp.fptr % SectorPieces # 0
    <3>1. q = WPart(p, d)
      BY <2>1, WriteStepIs
    <3>2. p.fp.fptr > 0
      BY <1>3, <2>1
    <3>3. CASE Fine(p.v, p.fp, x, g)
      <4>1. PICK ch : Base(p.v, ch, x, g) /\ FileOf(p.v, p.fp, ch) /\ Position(p.fp, ch[p.fp.name])
        BY <3>3 DEF Fine
      <4>2. PICK k \in 1..Len(ch[p.fp.name]) : p.fp.curr_clust = ch[p.fp.name][k] /\ p.fp.fptr <= k * SectorPieces
        BY <1>1, <3>2, <4>1 DEF Position, Within
      <4>3. p.fp.dsect = clust2sect(p.fp.curr_clust)
        BY <1>1, <2>1, <4>1 DEF Position, Buffered
      <4>4. k \in Nat
        OBVIOUS
      <4>5. p.fp.fptr - (p.fp.fptr % SectorPieces) + SectorPieces <= k * SectorPieces
        BY <1>3, <2>1, <4>2, <4>4, RoundUp, Zenon
      <4>6. Wrote(p, q) /\ Fine(q.v, q.fp, x, g)
        BY <1>1, <3>1, <4>1, <4>2, <4>3, <4>5, WPartFine, Zenon
      <4> QED BY <4>6 DEF Afloat
    <3>4. CASE Lost(p.v, g) /\ Drifting(p.fp)
      <4>1. p.fp.curr_clust \in Clusters /\ p.fp.org_clust \in Clusters \cup {0}
        BY <3>2, <3>4 DEF Drifting
      <4> QED BY <1>1, <3>1, <3>4, <4>1, WPartLost DEF Afloat
    <3> QED BY <3>3, <3>4 DEF Writing, Afloat
  <2>2. CASE p.fp.fptr % SectorPieces = 0
    <3>1. q = WFollow(p, WCluster(p), d)
      BY <2>2, WriteStepIs
    <3>2. CASE Fine(p.v, p.fp, x, g)
      <4>1. PICK ch : Base(p.v, ch, x, g) /\ FileOf(p.v, p.fp, ch) /\ Position(p.fp, ch[p.fp.name])
        BY <3>2 DEF Fine
      <4>2. CASE p.fp.fptr > 0
        BY <1>1, <1>2, <2>2, <3>1, <4>1, <4>2, WFollowPast, Zenon
      <4>3. CASE p.fp.fptr = 0
        BY <1>1, <1>2, <3>1, <4>1, <4>3, WFollowStart, Zenon
      <4> QED BY <1>3, <4>2, <4>3
    <3>3. CASE Lost(p.v, g) /\ Drifting(p.fp)
      BY <1>1, <3>1, <3>3, WFollowLost DEF Afloat
    <3> QED BY <3>2, <3>3 DEF Writing, Afloat
  <2> QED BY <2>1, <2>2
<1> QED BY <1>4, WritingAfter

(* What is left of a file that was written or sought: it fits its layout,  *)
(* or the card is gone, or an error was passed over.                       *)
Survives(w, f, x, g) == Fine(w, f, x, g) \/ Lost(w, g)
Leaves(v, f, w, h, x, g) ==
  \/ Still(v, w) /\ Kin(f, h) /\ SameSize(f, h) /\ Survives(w, h, x, g)
  \/ Strayed(w, h)

LEMMA Writes ==
  ASSUME NEW v, NEW ch, NEW x, NEW g, Base(v, ch, x, g), Cutting(v),
         NEW f, FileOf(v, f, ch), Position(f, ch[f.name]), ~f.error, NEW n \in Nat, NEW d,
         NEW q, q = WriteLoop(v, f, n, d)
  PROVE  Leaves(v, f, q.v, q.fp, x, g)
<1> DEFINE s == [v |-> v, fp |-> f, n |-> n, done |-> n = 0]
<1>1. PICK h : Rows(h, "write", d, s, n) /\ q = h[n]
  BY WriteRows
<1> DEFINE I == {i \in 0..n : Writing(h[i], v, f, x, g) \/ Adrift(h[i])}
<1>2. 0 \in I
  <2>1. h[0] = s
    BY <1>1 DEF Rows
  <2>2. s.v = v /\ s.fp = f /\ IsStep(s) /\ Ongoing(s)
    BY Zenon DEF IsStep, Ongoing
  <2>3. IsVol(v) /\ IsFp(f)
    BY BaseFacts DEF FileOf
  <2>4. Still(v, v) /\ Kin(f, f) /\ SameSize(f, f)
    BY <2>3, VolStill, KinSelf DEF SameSize
  <2>5. Fine(v, f, x, g)
    BY DEF Fine
  <2> HIDE DEF s
  <2>6. Writing(h[0], v, f, x, g)
    BY <2>1, <2>2, <2>4, <2>5 DEF Writing, Afloat
  <2> QED BY <2>6
<1>3. ASSUME NEW i \in 1..n, i - 1 \in I PROVE i \in I
  <2> DEFINE p == h[i - 1]
  <2>1. h[i] = IF p.done THEN p ELSE WriteStep(p, d)
    BY <1>1 DEF Rows, StepOf
  <2>2. Writing(p, v, f, x, g) \/ Adrift(p)
    BY <1>3
  <2> HIDE DEF p, s
  <2>3. Writing(h[i], v, f, x, g) \/ Adrift(h[i])
    <3>1. CASE p.done
      BY <2>1, <2>2, <3>1
    <3>2. CASE ~p.done /\ Writing(p, v, f, x, g)
      BY <2>1, <3>2, WriteStepKeeps
    <3>3. CASE ~p.done /\ ~Writing(p, v, f, x, g)
      <4>1. InLoop(p) /\ Astray(p.v)
        BY <2>2, <3>3 DEF Adrift
      <4>2. Onward(p, h[i])
        BY <2>1, <3>3, <4>1, AnyWrite DEF Astray
      <4> QED BY <4>1, <4>2, OnwardStrayed
    <3> QED BY <3>1, <3>2, <3>3
  <2> QED BY <2>3
<1>4. 0..n \subseteq I
  <2> HIDE DEF I
  <2> QED BY <1>2, <1>3, UpTo
<1>5. Writing(q, v, f, x, g) \/ Adrift(q)
  BY <1>1, <1>4
<1> QED BY <1>5 DEF Writing, Afloat, Survives, Leaves, Adrift, Strayed, Astray
-----------------------------------------------------------------------------
(* The buffer is written back, and sector sect put into it. *)
FlushFill(p, sect) ==
  LET w == FlushBuf(p.v, p.fp)
  IN IF w.res = "OK" THEN Fill(Cleaned([p EXCEPT !.v = w]), sect, TRUE) ELSE Abort([p EXCEPT !.v = w], "DISK_ERR")

Failing(r, x, g) == r.fp.error /\ r.done /\ Fine(r.v, r.fp, x, g)
Filled(p, r, ch, x, g, sect) ==
  /\ ~r.fp.error /\ r.done = p.done
  /\ Base(r.v, ch, x, g) /\ FileOf(r.v, r.fp, ch)
  /\ SameCurr(p.fp, r.fp) /\ r.fp.dsect = sect

LEMMA FlushFills ==
  ASSUME NEW p, InLoop(p), ~p.fp.error, NEW ch, NEW x, NEW g, Base(p.v, ch, x, g), FileOf(p.v, p.fp, ch),
         NEW sect, NEW r, r = FlushFill(p, sect)
  PROVE  /\ InLoop(r) /\ Rest(p, r) /\ Still(p.v, r.v) /\ Kin(p.fp, r.fp) /\ SameSize(p.fp, r.fp) /\ SamePlace(p.fp, r.fp)
         /\ Failing(r, x, g) \/ Filled(p, r, ch, x, g, sect)
<1> DEFINE n == p.fp.name
           w == FlushBuf(p.v, p.fp)
           a == SetV(p, w)
           b == SetFp(a, FpClean(a.fp))
           u == disk_read(b.v)
<1>1. IsFp(p.fp) /\ Extent(p.fp, ch) /\ n \in Names /\ IsVol(p.v)
  BY BaseFacts DEF FileOf
<1>2. r = IF w.res = "OK" THEN Fill(b, sect, TRUE) ELSE Abort(a, "DISK_ERR")
  <2>1. r = IF w.res = "OK" THEN Fill(Cleaned(a), sect, TRUE) ELSE Abort(a, "DISK_ERR")
    BY DEF FlushFill, SetV
  <2>2. InLoop(a)
    <3> HIDE DEF w
    <3> QED BY SetVIs
  <2>3. Cleaned(a) = b
    <3> HIDE DEF a
    <3> QED BY <2>2 DEF Cleaned, SetFp, FpClean, InLoop
  <2> QED BY <2>1, <2>3
<1>3. Base(w, ch, x, g) /\ Still(p.v, w) /\ Tabled(p.v, w)
  BY <1>1, Flushes
<1> HIDE DEF w
<1>4. InLoop(a) /\ Rest(p, a) /\ a.v = w /\ a.fp = p.fp /\ a.done = p.done
  BY SetVIs
<1> HIDE DEF a
<1>5. InLoop(b) /\ Rest(a, b) /\ b.v = a.v /\ b.fp = FpClean(a.fp) /\ b.done = a.done
  BY <1>4, SetFpIs
<1> HIDE DEF b
<1>6. FileOf(w, p.fp, ch) /\ IsVol(w)
  BY <1>3, FileTabled, BaseFacts
<1>7. CASE w.res # "OK"
  <2>1. r = Abort(a, "DISK_ERR")
    BY <1>2, <1>7
  <2>2. InLoop(r) /\ Rest(a, r) /\ r.v = Err(w, "DISK_ERR") /\ r.fp = FpErr(p.fp) /\ r.done
    BY <1>4, <2>1, AbortIs
  <2>3. Base(r.v, ch, x, g) /\ Still(w, r.v) /\ Same(w, r.v)
    BY <1>3, <2>2, BaseResult
  <2>4. FileOf(r.v, p.fp, ch)
    BY <1>3, <1>6, <2>3, FileTabled, SameTabled
  <2>5. Fine(r.v, r.fp, x, g)
    BY <2>2, <2>3, <2>4, FineErr
  <2>6. Kin(p.fp, r.fp) /\ SameSize(p.fp, r.fp) /\ SamePlace(p.fp, r.fp) /\ r.fp.error
    BY <1>1, <2>2, FpErrIs
  <2>7. Still(p.v, r.v) /\ Rest(p, r)
    BY <1>3, <1>4, <2>2, <2>3, StillTrans, RestTrans
  <2> QED BY <2>2, <2>5, <2>6, <2>7 DEF Failing
<1>8. CASE w.res = "OK"
  <2>1. r = Fill(b, sect, TRUE)
    BY <1>2, <1>8
  <2>2. /\ InLoop(r) /\ Rest(b, r)
        /\ \/ r.v = b.v /\ r.fp = FpSect(b.fp, sect) /\ r.done = b.done
           \/ \E y : u.res = "OK" /\ r.v = u /\ r.fp = FpLoad(b.fp, sect, y) /\ r.done = b.done
           \/ u.res # "OK" /\ r.v = Err(u, "DISK_ERR") /\ r.fp = FpErr(b.fp) /\ r.done
    <3>1. PICK t : t = TRUE
      OBVIOUS
    <3>2. r = Fill(b, sect, t) /\ u = disk_read(b.v)
      BY <2>1, <3>1
    <3> HIDE DEF u
    <3> QED BY <1>5, <3>2, FillIs
  <2>3. Core(w, u) /\ Still(w, u)
    BY <1>4, <1>5, <1>6, DiskRead
  <2> HIDE DEF u
  <2>4. Base(u, ch, x, g) /\ Tabled(w, u)
    BY <1>3, <2>3, BaseCore, SameCore, SameTabled DEF Still
  <2>5. FileOf(u, p.fp, ch)
    BY <1>3, <1>6, <2>4, FileTabled
  <2>6. /\ Kin(p.fp, b.fp) /\ SameSize(p.fp, b.fp) /\ SamePlace(p.fp, b.fp) /\ SameClusters(p.fp, b.fp) /\ SameCurr(p.fp, b.fp)
        /\ SameError(p.fp, b.fp) /\ ~b.fp.dirty
    BY <1>1, <1>4, <1>5, FpCleanIs
  <2>7. IsFp(b.fp) /\ b.fp.name = n /\ Rest(p, r)
    BY <1>4, <1>5, <2>2, <2>6, RestTrans DEF Kin
  <2>8. ASSUME NEW z, Base(z, ch, x, g), FileOf(z, p.fp, ch), r.v = z, Still(p.v, z), r.done = b.done,
               NEW y, r.fp = FpSect(b.fp, sect) \/ r.fp = FpLoad(b.fp, sect, y)
        PROVE  /\ Still(p.v, r.v) /\ Kin(p.fp, r.fp) /\ SameSize(p.fp, r.fp) /\ SamePlace(p.fp, r.fp)
               /\ Filled(p, r, ch, x, g, sect)
    <3>1. /\ Kin(b.fp, r.fp) /\ SameSize(b.fp, r.fp) /\ SamePlace(b.fp, r.fp) /\ SameClusters(b.fp, r.fp) /\ SameCurr(b.fp, r.fp)
          /\ SameError(b.fp, r.fp) /\ r.fp.dsect = sect /\ (r.fp.dirty <=> b.fp.dirty)
      <4>1. r.fp = FpLoad(b.fp, sect, y) \/ r.fp = FpSect(b.fp, sect)
        BY <2>8
      <4> QED BY <2>7, <4>1, FpLoadIs
    <3>2. Kin(p.fp, r.fp)
      BY <2>6, <3>1, KinTrans
    <3>3. SameSize(p.fp, r.fp) /\ SamePlace(p.fp, r.fp) /\ SameClusters(p.fp, r.fp) /\ SameCurr(p.fp, r.fp)
          /\ ~r.fp.error /\ ~r.fp.dirty
      BY <2>6, <3>1 DEF SameSize, SamePlace, SameClusters, SameCurr, SameError
    <3>4. Extent(r.fp, ch)
      BY <1>1, <3>2, <3>3, ExtentSame
    <3>5. FileOf(r.v, r.fp, ch)
      BY <2>8, <3>2, <3>4, FileKin
    <3> QED BY <1>4, <1>5, <2>8, <3>1, <3>2, <3>3, <3>5 DEF Filled
  <2>9. CASE r.v = b.v /\ r.fp = FpSect(b.fp, sect) /\ r.done = b.done
    BY <1>3, <1>4, <1>5, <1>6, <2>2, <2>7, <2>8, <2>9
  <2>10. CASE \E y : u.res = "OK" /\ r.v = u /\ r.fp = FpLoad(b.fp, sect, y) /\ r.done = b.done
    <3>1. Still(p.v, u)
      BY <1>3, <2>3, StillTrans
    <3> QED BY <2>2, <2>4, <2>5, <2>7, <2>8, <2>10, <3>1
  <2>11. CASE u.res # "OK" /\ r.v = Err(u, "DISK_ERR") /\ r.fp = FpErr(b.fp) /\ r.done
    <3>1. Kin(b.fp, r.fp) /\ SameSize(b.fp, r.fp) /\ SamePlace(b.fp, r.fp) /\ SameClusters(b.fp, r.fp) /\ SameBuffer(b.fp, r.fp) /\ r.fp.error
      BY <2>7, <2>11, FpErrIs
    <3>2. Kin(p.fp, r.fp)
      BY <2>6, <3>1, KinTrans
    <3>3. SameSize(p.fp, r.fp) /\ SamePlace(p.fp, r.fp) /\ SameClusters(p.fp, r.fp) /\ ~r.fp.dirty
      BY <2>6, <3>1 DEF SameSize, SamePlace, SameClusters, SameBuffer
    <3>4. Base(r.v, ch, x, g) /\ Still(u, r.v) /\ Same(u, r.v)
      BY <2>4, <2>11, BaseResult
    <3>5. FileOf(r.v, p.fp, ch)
      BY <2>4, <2>5, <3>4, FileTabled, SameTabled
    <3>6. Extent(r.fp, ch)
      BY <1>1, <3>2, <3>3, ExtentSame
    <3>7. FileOf(r.v, r.fp, ch) /\ r.fp.name = n
      BY <3>2, <3>5, <3>6, FileKin DEF Kin
    <3>8. Fine(r.v, r.fp, x, g)
      BY <3>1, <3>4, <3>7 DEF Fine, Position
    <3>9. Still(p.v, r.v)
      <4>1. Still(w, r.v)
        BY <2>3, <3>4, StillTrans
      <4> QED BY <1>3, <4>1, StillTrans
    <3> QED BY <2>2, <2>7, <2>11, <3>1, <3>2, <3>3, <3>8, <3>9 DEF Failing
  <2> QED BY <2>2, <2>9, <2>10, <2>11
<1> QED BY <1>7, <1>8
-----------------------------------------------------------------------------
(* f_read: a step of its loop, in pieces. *)
RCluster(p) == IF p.fp.fptr = 0 THEN Val(p.v, p.fp.org_clust) ELSE get_fat(p.v, p.fp.curr_clust)
RTake(p, at, cnt, from) ==
  [p EXCEPT !.got = @ \o SubSeq(from, at + 1, at + cnt), !.fp.fptr = @ + cnt, !.n = @ - cnt, !.done = p.n = cnt]

RPart(p) ==
  LET at == p.fp.fptr % SectorPieces IN RTake(p, at, Lesser(SectorPieces - at, p.n), p.fp.buf)

RDirect(p, sect) ==
  RTake(p, 0, SectorPieces, IF p.fp.dirty /\ p.fp.dsect = sect THEN p.fp.buf ELSE p.v.card[sect].data)

RInSector(p, sect) ==
  IF p.n >= SectorPieces
  THEN LET w == disk_read(p.v)
       IN IF w.res = "OK" THEN RDirect([p EXCEPT !.v = w], sect) ELSE Abort([p EXCEPT !.v = w], "DISK_ERR")
  ELSE LET r == FlushFill(p, sect) IN IF r.fp.error THEN r ELSE RPart(r)

RFollow(p, c) ==
  IF clust2sect(c.val) = 0 THEN Abort([p EXCEPT !.v = c], ErrorOf(c.val))
  ELSE RInSector([p EXCEPT !.v = Ok(c), !.fp.curr_clust = c.val], clust2sect(c.val))

IsRead(p) ==
  /\ DOMAIN p = {"v", "fp", "n", "got", "done"}
  /\ p.n \in Nat

(* The last piece of RInSector is the same where the flush fails. *)
RInner(p, sect) ==
  LET w == FlushBuf(p.v, p.fp)
      r == Fill(Cleaned([p EXCEPT !.v = w]), sect, TRUE)
  IN IF w.res = "OK" THEN (IF r.fp.error THEN r ELSE RPart(r)) ELSE Abort([p EXCEPT !.v = w], "DISK_ERR")

LEMMA RInnerIs ==
  ASSUME NEW p, IsRead(p), IsFp(p.fp), NEW sect, NEW r, r = FlushFill(p, sect)
  PROVE  RInner(p, sect) = IF r.fp.error THEN r ELSE RPart(r)
<1> DEFINE w == FlushBuf(p.v, p.fp)
           a == SetV(p, w)
<1>1. InLoop(p)
  BY DEF IsRead, InLoop
<1>2. InLoop(a) /\ a.fp = p.fp
  <2> HIDE DEF w
  <2> QED BY <1>1, SetVIs
<1>3. CASE w.res = "OK"
  BY <1>3 DEF RInner, FlushFill
<1>4. CASE w.res # "OK"
  <2>1. r = Abort(a, "DISK_ERR") /\ RInner(p, sect) = Abort(a, "DISK_ERR")
    BY <1>4 DEF RInner, FlushFill, SetV
  <2> HIDE DEF a, w
  <2>2. r.fp = FpErr(a.fp)
    BY <1>2, <2>1, AbortIs
  <2>3. r.fp.error
    BY <1>2, <2>2, FpErrIs, SMTT(30)
  <2> QED BY <2>1, <2>3
<1> QED BY <1>3, <1>4

LEMMA ReadStepIs ==
  ASSUME NEW p, IsRead(p), IsFp(p.fp)
  PROVE  ReadStep(p) = IF p.fp.fptr % SectorPieces # 0 THEN RPart(p) ELSE RFollow(p, RCluster(p))
<1> DEFINE InSec(a, sect) ==
             IF a.n >= SectorPieces
             THEN LET w == disk_read(a.v)
                  IN IF w.res = "OK" THEN RDirect([a EXCEPT !.v = w], sect) ELSE Abort([a EXCEPT !.v = w], "DISK_ERR")
             ELSE RInner(a, sect)
           Foll(c) ==
             IF clust2sect(c.val) = 0 THEN Abort([p EXCEPT !.v = c], ErrorOf(c.val))
             ELSE InSec([p EXCEPT !.v = Ok(c), !.fp.curr_clust = c.val], clust2sect(c.val))
<1>1. ReadStep(p) = IF p.fp.fptr % SectorPieces # 0 THEN RPart(p) ELSE Foll(RCluster(p))
  BY DEF ReadStep, RCluster, RTake, RPart, RDirect, RInner, OnTransfer, Unless
<1>2. ASSUME NEW c PROVE Foll(c) = RFollow(p, c)
  <2> DEFINE a == [p EXCEPT !.v = Ok(c), !.fp.curr_clust = c.val]
  <2>1. IsRead(a)
    BY DEF IsRead
  <2>2. a.fp = FpCurr(p.fp, c.val)
    BY DEF FpCurr, IsRead
  <2>3. IsFp(a.fp)
    BY <2>2, FpCurrIs DEF Kin
  <2> HIDE DEF a
  <2>4. InSec(a, clust2sect(c.val)) = RInSector(a, clust2sect(c.val))
    BY <2>1, <2>3, RInnerIs DEF RInSector
  <2> QED BY <2>4 DEF RFollow, a
<1> QED BY <1>1, <1>2, ZenonT(60)

(* What a piece of a step makes of p. *)
Took(p, q) ==
  /\ IsRead(q) /\ Still(p.v, q.v) /\ Kin(p.fp, q.fp) /\ SameSize(p.fp, q.fp)
  /\ q.done \/ ~q.fp.error

LEMMA ReadLoopIn ==
  ASSUME NEW p, IsRead(p)
  PROVE  InLoop(p) /\ \A q : Rest(p, q) => IsRead(q) /\ q.n = p.n
BY DEF IsRead, InLoop, Rest

LEMMA TookAfter ==
  ASSUME NEW p, NEW a, NEW q, Still(p.v, a.v), Kin(p.fp, a.fp), SameSize(p.fp, a.fp), Took(a, q)
  PROVE  Took(p, q)
<1>1. Still(p.v, q.v)
  BY StillTrans DEF Took
<1>2. Kin(p.fp, q.fp)
  BY KinTrans DEF Took
<1> QED BY <1>1, <1>2 DEF Took, SameSize

LEMMA TookAbort ==
  ASSUME NEW p, NEW a, IsRead(a), Still(p.v, a.v), Kin(p.fp, a.fp), SameSize(p.fp, a.fp), IsVol(a.v),
         NEW r, NEW q, q = Abort(a, r)
  PROVE  Took(p, q) /\ q.v = Err(a.v, r) /\ q.fp = FpErr(a.fp) /\ q.done
<1>1. InLoop(a)
  BY ReadLoopIn
<1>2. Rest(a, q) /\ q.v = Err(a.v, r) /\ q.fp = FpErr(a.fp) /\ q.done
  BY <1>1, AbortIs
<1>3. IsRead(q)
  BY <1>2, ReadLoopIn
<1>4. IsFp(a.fp)
  BY DEF Kin
<1>5. Kin(a.fp, q.fp) /\ SameSize(a.fp, q.fp)
  BY <1>2, <1>4, FpErrIs
<1>6. Still(a.v, q.v)
  BY <1>2, Results
<1>7. Took(a, q)
  BY <1>2, <1>3, <1>5, <1>6 DEF Took
<1> QED BY <1>2, <1>7, TookAfter

(* Pieces of the cluster the file is in. *)
LEMMA RTakeFine ==
  ASSUME NEW p, IsRead(p), ~p.fp.error, NEW ch, NEW x, NEW g, Base(p.v, ch, x, g), FileOf(p.v, p.fp, ch),
         NEW k \in 1..Len(ch[p.fp.name]), p.fp.curr_clust = ch[p.fp.name][k],
         NEW cnt \in Nat, cnt <= p.n, p.fp.fptr + cnt <= k * SectorPieces,
         p.fp.dsect = clust2sect(p.fp.curr_clust) \/ (p.fp.fptr + cnt) % SectorPieces = 0,
         NEW at, NEW from, NEW q, q = RTake(p, at, cnt, from)
  PROVE  Took(p, q) /\ Fine(q.v, q.fp, x, g)
<1>1. IsFp(p.fp) /\ Extent(p.fp, ch) /\ IsVol(p.v) /\ p.fp.fptr \in Nat
  BY BaseFacts DEF FileOf, IsFp
<1>2. PICK c \in Nat : c = p.fp.fptr + cnt
  BY <1>1
<1>3. q.v = p.v /\ q.fp = FpAt(p.fp, c) /\ DOMAIN q = DOMAIN p /\ q.n = p.n - cnt
  BY <1>2 DEF RTake, IsRead, FpAt
<1>4. IsRead(q)
  BY <1>3 DEF IsRead
<1>5. /\ Kin(p.fp, q.fp) /\ SameSize(p.fp, q.fp) /\ SameClusters(p.fp, q.fp) /\ SameCurr(p.fp, q.fp) /\ SameError(p.fp, q.fp)
      /\ SameBuffer(p.fp, q.fp) /\ q.fp.fptr = c
  BY <1>1, <1>3, FpAtIs
<1>6. FileOf(q.v, q.fp, ch)
  <2>1. Extent(q.fp, ch)
    BY <1>1, <1>5, ExtentSame
  <2> QED BY <1>3, <1>5, <2>1, FileKin
<1>7. Position(q.fp, ch[p.fp.name])
  BY <1>2, <1>5 DEF Position, Within, Buffered, SameCurr, SameBuffer
<1>8. q.fp.name = p.fp.name /\ ~q.fp.error
  BY <1>5 DEF Kin, SameError
<1>9. Still(p.v, q.v)
  BY <1>1, <1>3, VolStill
<1> QED BY <1>3, <1>4, <1>5, <1>6, <1>7, <1>8, <1>9 DEF Took, Fine

LEMMA RPartFine ==
  ASSUME NEW p, IsRead(p), ~p.fp.error, NEW ch, NEW x, NEW g, Base(p.v, ch, x, g), FileOf(p.v, p.fp, ch),
         NEW k \in 1..Len(ch[p.fp.name]), p.fp.curr_clust = ch[p.fp.name][k], p.fp.dsect = clust2sect(p.fp.curr_clust),
         p.fp.fptr - (p.fp.fptr % SectorPieces) + SectorPieces <= k * SectorPieces,
         NEW q, q = RPart(p)
  PROVE  Took(p, q) /\ Fine(q.v, q.fp, x, g)
<1>1. PICK s \in Nat : s = SectorPieces /\ s > 0
  BY VolumeAssumption
<1>2. p.fp.fptr \in Nat /\ p.n \in Nat
  BY DEF FileOf, IsFp, IsRead
<1>3. PICK at \in 0..(s - 1) : at = p.fp.fptr % SectorPieces
  BY <1>1, <1>2
<1>4. PICK cnt \in Nat : cnt = Lesser(SectorPieces - at, p.n) /\ cnt <= p.n /\ cnt <= s - at
  <2>1. PICK l \in Nat : l = p.n
    BY <1>2
  <2>2. PICK m \in Nat : m = SectorPieces - at
    BY <1>1, <1>3
  <2>3. Lesser(m, l) \in Nat /\ Lesser(m, l) <= l /\ Lesser(m, l) <= m
    BY DEF Lesser
  <2> QED BY <1>1, <2>1, <2>2, <2>3
<1>5. PICK m \in Nat : m = k * SectorPieces
  BY Products
<1>6. p.fp.fptr + cnt <= k * SectorPieces
  BY <1>1, <1>2, <1>3, <1>4, <1>5, SMTT(30)
<1>7. q = RTake(p, at, cnt, p.fp.buf)
  BY <1>3, <1>4 DEF RPart
<1> QED BY <1>4, <1>6, <1>7, RTakeFine, Zenon

(* The sector of a cluster. *)
LEMMA RInFine ==
  ASSUME NEW p, IsRead(p), ~p.fp.error, NEW ch, NEW x, NEW g, NEW k, InCluster(p.v, p.fp, ch, x, g, k),
         NEW sect, sect = clust2sect(p.fp.curr_clust), NEW q, q = RInSector(p, sect)
  PROVE  Took(p, q) /\ Fine(q.v, q.fp, x, g)
<1>1. /\ IsFp(p.fp) /\ Extent(p.fp, ch) /\ Base(p.v, ch, x, g) /\ FileOf(p.v, p.fp, ch)
      /\ k \in 1..Len(ch[p.fp.name]) /\ p.fp.curr_clust = ch[p.fp.name][k] /\ p.fp.name \in Names
      /\ p.fp.fptr % SectorPieces = 0 /\ p.fp.fptr + SectorPieces <= k * SectorPieces /\ p.fp.fptr \in Nat
  BY DEF InCluster, FileOf, IsFp
<1>2. IsVol(p.v) /\ InLoop(p) /\ SectorPieces \in Nat
  BY <1>1, BaseFacts, ReadLoopIn, VolumeAssumption
<1>4. CASE p.n >= SectorPieces
  <2> DEFINE w == disk_read(p.v)
             a == SetV(p, w)
  <2>1. q = IF w.res = "OK" THEN RDirect(a, sect) ELSE Abort(a, "DISK_ERR")
    BY <1>4 DEF RInSector, SetV
  <2>2. Core(p.v, w) /\ Still(p.v, w)
    BY <1>2, DiskRead
  <2>3. InLoop(a) /\ Rest(p, a) /\ a.v = w /\ a.fp = p.fp
    <3> HIDE DEF w
    <3> QED BY <1>2, SetVIs
  <2> HIDE DEF w, a
  <2>4. IsRead(a) /\ a.n = p.n
    BY <2>3, ReadLoopIn
  <2>5. Base(w, ch, x, g) /\ Tabled(p.v, w)
    BY <1>1, <2>2, BaseCore, SameCore, SameTabled DEF Still
  <2>6. FileOf(w, p.fp, ch)
    BY <1>1, <2>5, FileTabled
  <2>7. Still(p.v, a.v) /\ Kin(p.fp, a.fp) /\ SameSize(p.fp, a.fp) /\ IsVol(a.v)
    BY <1>1, <2>2, <2>3, <2>5, KinSelf, BaseFacts DEF SameSize
  <2>8. CASE w.res = "OK"
    <3>1. PICK from : q = RTake(a, 0, SectorPieces, from)
      BY <2>1, <2>8 DEF RDirect
    <3>2. (a.fp.fptr + SectorPieces) % SectorPieces = 0
      BY <1>1, <2>3, ModNext
    <3>3. Took(a, q) /\ Fine(q.v, q.fp, x, g)
      BY <1>1, <1>2, <1>4, <2>3, <2>4, <2>5, <2>6, <3>1, <3>2, RTakeFine, Zenon
    <3> QED BY <2>7, <3>3, TookAfter, SMTT(30)
  <2>9. CASE w.res # "OK"
    <3>1. q = Abort(a, "DISK_ERR")
      BY <2>1, <2>9
    <3>2. Took(p, q) /\ q.v = Err(a.v, "DISK_ERR") /\ q.fp = FpErr(a.fp)
      BY <2>4, <2>7, <3>1, TookAbort
    <3>3. Base(q.v, ch, x, g) /\ Same(a.v, q.v)
      BY <2>3, <2>5, <3>2, BaseResult
    <3>4. FileOf(q.v, a.fp, ch)
      BY <2>3, <2>5, <2>6, <3>3, FileTabled, SameTabled
    <3> QED BY <3>2, <3>3, <3>4, FineErr
  <2> QED BY <2>8, <2>9
<1>5. CASE ~(p.n >= SectorPieces)
  <2> DEFINE r == FlushFill(p, sect)
  <2>1. q = IF r.fp.error THEN r ELSE RPart(r)
    BY <1>5 DEF RInSector
  <2>2. /\ InLoop(r) /\ Rest(p, r) /\ Still(p.v, r.v) /\ Kin(p.fp, r.fp) /\ SameSize(p.fp, r.fp) /\ SamePlace(p.fp, r.fp)
        /\ Failing(r, x, g) \/ Filled(p, r, ch, x, g, sect)
    BY <1>1, <1>2, FlushFills
  <2> HIDE DEF r
  <2>3. IsRead(r) /\ r.n = p.n
    BY <2>2, ReadLoopIn
  <2>4. CASE Failing(r, x, g)
    BY <2>1, <2>2, <2>3, <2>4 DEF Failing, Took
  <2>5. CASE Filled(p, r, ch, x, g, sect)
    <3>1. /\ ~r.fp.error /\ Base(r.v, ch, x, g) /\ FileOf(r.v, r.fp, ch) /\ r.fp.name = p.fp.name
          /\ r.fp.curr_clust = ch[p.fp.name][k] /\ r.fp.dsect = clust2sect(r.fp.curr_clust) /\ r.fp.fptr = p.fp.fptr
      BY <1>1, <2>2, <2>5 DEF Filled, SameCurr, SamePlace, Kin
    <3>2. r.fp.fptr - (r.fp.fptr % SectorPieces) + SectorPieces <= k * SectorPieces
      BY <1>1, <3>1
    <3>3. q = RPart(r)
      BY <2>1, <3>1
    <3>4. Took(r, q) /\ Fine(q.v, q.fp, x, g)
      BY <1>1, <2>3, <3>1, <3>2, <3>3, RPartFine, Zenon
    <3> QED BY <2>2, <3>4, TookAfter
  <2> QED BY <2>2, <2>4, <2>5
<1> QED BY <1>4, <1>5

(* The cluster that comes next, if there is one. *)
NextOf(w, f, ch) ==
  w.val \in Clusters =>
    \E k \in 1..Len(ch[f.name]) : w.val = ch[f.name][k] /\ f.fptr + SectorPieces <= k * SectorPieces

LEMMA FollowsFat ==
  ASSUME NEW v, NEW ch, NEW x, NEW g, Base(v, ch, x, g), NEW n \in Names, NEW k \in 1..Len(ch[n]),
         NEW w, w = get_fat(v, ch[n][k])
  PROVE  /\ Base(w, ch, x, g) /\ Still(v, w) /\ Same(v, w)
         /\ w.val \in Clusters => k + 1 \in 1..Len(ch[n]) /\ w.val = ch[n][k + 1]
<1>1. Sane(v) /\ ch \in Layouts /\ Shape(FatOf(Flushed(v)), ch)
  BY BaseFacts
<1>2. ch[n][k] \in Clusters /\ Len(ch[n]) \in Nat
  BY <1>1, LayoutFacts
<1>3. Reads(v, w, Dir(ch)) /\ Gets(v, w, ch[n][k])
  BY <1>1, <1>2, GetFat
<1>4. Base(w, ch, x, g)
  BY <1>3, BaseReads DEF Dir
<1>5. Still(v, w)
  BY <1>3 DEF Reads, Gets, Still
<1>6. Same(v, w)
  BY <1>3, SameFlushed DEF Reads
<1>7. ASSUME w.val \in Clusters PROVE k + 1 \in 1..Len(ch[n]) /\ w.val = ch[n][k + 1]
  <2>1. w.val # NoValue /\ w.val # LastLink
    BY <1>7, NoClusters, Sectors
  <2>2. w.val = FatOf(Flushed(v))[ch[n][k]]
    BY <1>3, <2>1 DEF Gets
  <2>3. k < Len(ch[n]) \/ k = Len(ch[n])
    BY <1>2
  <2> QED BY <1>1, <2>1, <2>2, <2>3, LinkAfter
<1> QED BY <1>4, <1>5, <1>6, <1>7

LEMMA RClusterIs ==
  ASSUME NEW p, ~p.fp.error, NEW ch, NEW x, NEW g, Base(p.v, ch, x, g), FileOf(p.v, p.fp, ch),
         Position(p.fp, ch[p.fp.name]), NEW c, c = RCluster(p)
  PROVE  Base(c, ch, x, g) /\ Still(p.v, c) /\ Same(p.v, c) /\ NextOf(c, p.fp, ch)
<1> DEFINE n == p.fp.name
<1>1. IsFp(p.fp) /\ Extent(p.fp, ch) /\ n \in Names /\ IsVol(p.v) /\ ch \in Layouts /\ p.fp.fptr \in Nat
  BY BaseFacts DEF FileOf, IsFp
<1>2. ch[n] \in Seq(Clusters) /\ Len(ch[n]) \in Nat /\ (ch[n] # <<>> => 1 \in 1..Len(ch[n]))
  BY <1>1, LayoutFacts
<1>3. SectorPieces \in Nat
  BY VolumeAssumption
<1> HIDE DEF n
<1>4. CASE p.fp.fptr = 0
  <2>1. c = Val(p.v, p.fp.org_clust)
    BY <1>4 DEF RCluster
  <2>2. Base(c, ch, x, g) /\ Still(p.v, c) /\ Same(p.v, c)
    BY <2>1, BaseResult
  <2>3. c.val = p.fp.org_clust
    BY <1>1, <2>1, Results
  <2>4. ASSUME c.val \in Clusters PROVE 1 \in 1..Len(ch[n]) /\ c.val = ch[n][1]
    BY <1>1, <1>2, <2>3, <2>4, NoClusters DEF Extent, Holds, n
  <2>5. 0 + SectorPieces <= 1 * SectorPieces
    BY <1>3
  <2> QED BY <1>4, <2>2, <2>4, <2>5 DEF NextOf, n
<1>5. CASE p.fp.fptr > 0
  <2>1. PICK k \in 1..Len(ch[n]) : p.fp.curr_clust = ch[n][k] /\ p.fp.fptr <= k * SectorPieces
    BY <1>5 DEF Position, Within, n
  <2>2. c = get_fat(p.v, ch[n][k])
    BY <1>5, <2>1 DEF RCluster
  <2>3. /\ Base(c, ch, x, g) /\ Still(p.v, c) /\ Same(p.v, c)
        /\ c.val \in Clusters => k + 1 \in 1..Len(ch[n]) /\ c.val = ch[n][k + 1]
    BY <1>1, <2>2, FollowsFat
  <2>4. p.fp.fptr + SectorPieces <= (k + 1) * SectorPieces
    <3>1. (k + 1) * SectorPieces = k * SectorPieces + SectorPieces /\ k * SectorPieces \in Nat
      BY <1>2, Products
    <3> QED BY <1>1, <1>3, <2>1, <3>1, SMTT(30)
  <2> QED BY <2>3, <2>4 DEF NextOf, n
<1> QED BY <1>1, <1>4, <1>5

LEMMA RFollowFine ==
  ASSUME NEW p, IsRead(p), ~p.fp.error, NEW ch, NEW x, NEW g, Base(p.v, ch, x, g), FileOf(p.v, p.fp, ch),
         Position(p.fp, ch[p.fp.name]), p.fp.fptr % SectorPieces = 0,
         NEW q, q = RFollow(p, RCluster(p))
  PROVE  Took(p, q) /\ Fine(q.v, q.fp, x, g)
<1> DEFINE n == p.fp.name
<1>1. IsFp(p.fp) /\ Extent(p.fp, ch) /\ n \in Names /\ InLoop(p)
  BY ReadLoopIn DEF FileOf
<1> HIDE DEF n
<1>2. PICK c : c = RCluster(p)
  OBVIOUS
<1>3. Base(c, ch, x, g) /\ Still(p.v, c) /\ Same(p.v, c) /\ NextOf(c, p.fp, ch)
  BY <1>2, RClusterIs, Zenon
<1>4. CASE clust2sect(c.val) = 0
  <2> DEFINE a == SetV(p, c)
  <2>1. q = Abort(a, ErrorOf(c.val))
    BY <1>2, <1>4 DEF RFollow, SetV
  <2>2. InLoop(a) /\ Rest(p, a) /\ a.v = c /\ a.fp = p.fp
    BY <1>1, SetVIs
  <2> HIDE DEF a
  <2>3. IsRead(a)
    BY <2>2, ReadLoopIn
  <2>4. Kin(p.fp, a.fp) /\ SameSize(p.fp, a.fp) /\ IsVol(a.v)
    BY <1>1, <1>3, <2>2, KinSelf, BaseFacts DEF SameSize
  <2>5. Took(p, q) /\ q.v = Err(c, ErrorOf(c.val)) /\ q.fp = FpErr(p.fp)
    BY <1>3, <2>1, <2>2, <2>3, <2>4, TookAbort
  <2>6. Base(q.v, ch, x, g) /\ Same(c, q.v)
    BY <1>3, <2>5, BaseResult, Zenon
  <2>7. FileOf(q.v, p.fp, ch)
    BY <1>3, <2>6, SameTrans, SameTabled, FileTabled
  <2> QED BY <2>5, <2>6, <2>7, FineErr
<1>5. CASE clust2sect(c.val) # 0
  <2> DEFINE a == SetV(p, Ok(c))
             b == SetFp(a, FpCurr(p.fp, c.val))
  <2>1. q = RInSector(b, clust2sect(c.val))
    <3>1. [p EXCEPT !.v = Ok(c), !.fp.curr_clust = c.val] = b
      BY <1>1 DEF SetFp, SetV, FpCurr, InLoop
    <3> QED BY <1>2, <1>5, <3>1 DEF RFollow
  <2>2. InLoop(a) /\ Rest(p, a) /\ a.v = Ok(c) /\ a.fp = p.fp
    BY <1>1, SetVIs
  <2> HIDE DEF a
  <2>3. InLoop(b) /\ Rest(a, b) /\ b.v = a.v /\ b.fp = FpCurr(p.fp, c.val)
    BY <2>2, SetFpIs
  <2> HIDE DEF b
  <2>4. IsRead(b)
    <3>1. IsRead(a)
      BY <2>2, ReadLoopIn
    <3> QED BY <2>3, <3>1, ReadLoopIn
  <2>5. /\ Kin(p.fp, b.fp) /\ SameSize(p.fp, b.fp) /\ SamePlace(p.fp, b.fp) /\ SameClusters(p.fp, b.fp) /\ SameBuffer(p.fp, b.fp)
        /\ SameError(p.fp, b.fp) /\ b.fp.curr_clust = c.val
    BY <1>1, <2>3, FpCurrIs
  <2>6. Base(b.v, ch, x, g) /\ Still(c, b.v) /\ Same(c, b.v)
    BY <1>3, <2>2, <2>3, BaseResult, Zenon
  <2>7. FileOf(b.v, p.fp, ch)
    BY <1>3, <2>6, SameTrans, SameTabled, FileTabled
  <2>8. Extent(b.fp, ch)
    BY <1>1, <2>5, ExtentSame
  <2>9. FileOf(b.v, b.fp, ch) /\ b.fp.name = n
    BY <2>5, <2>7, <2>8, FileKin DEF Kin, n
  <2>10. c.val \in Clusters
    BY <1>5 DEF clust2sect
  <2>11. PICK k \in 1..Len(ch[n]) : c.val = ch[n][k] /\ p.fp.fptr + SectorPieces <= k * SectorPieces
    BY <1>3, <2>10 DEF NextOf, n
  <2>12. InCluster(b.v, b.fp, ch, x, g, k) /\ ~b.fp.error
    BY <2>5, <2>6, <2>9, <2>11 DEF InCluster, SamePlace, SameError
  <2>13. Took(b, q) /\ Fine(q.v, q.fp, x, g)
    BY <2>1, <2>4, <2>5, <2>12, RInFine
  <2>14. Still(p.v, b.v)
    BY <1>3, <2>6, StillTrans
  <2> QED BY <2>5, <2>13, <2>14, TookAfter
<1> QED BY <1>4, <1>5

(* A step of the loop. *)
Taking(p, v, f, x, g) ==
  /\ IsRead(p) /\ Still(v, p.v) /\ Kin(f, p.fp) /\ SameSize(f, p.fp)
  /\ p.done \/ ~p.fp.error
  /\ Fine(p.v, p.fp, x, g)

LEMMA ReadStepKeeps ==
  ASSUME NEW p, NEW v, NEW f, NEW x, NEW g, Taking(p, v, f, x, g), ~p.done, NEW q, q = ReadStep(p)
  PROVE  Taking(q, v, f, x, g)
<1>1. IsRead(p) /\ ~p.fp.error /\ Still(v, p.v) /\ IsFp(p.fp)
  BY DEF Taking, Kin
<1>2. p.fp.fptr \in Nat /\ SectorPieces \in Nat /\ 0 % SectorPieces = 0
  BY <1>1, VolumeAssumption DEF IsFp
<1>3. PICK ch : Base(p.v, ch, x, g) /\ FileOf(p.v, p.fp, ch) /\ Position(p.fp, ch[p.fp.name])
  BY DEF Taking, Fine
<1>4. Took(p, q) /\ Fine(q.v, q.fp, x, g)
  <2>1. CASE p.fp.fptr % SectorPieces # 0
    <3>1. q = RPart(p)
      BY <1>1, <2>1, ReadStepIs
    <3>2. p.fp.fptr > 0
      BY <1>2, <2>1
    <3>3. PICK k \in 1..Len(ch[p.fp.name]) : p.fp.curr_clust = ch[p.fp.name][k] /\ p.fp.fptr <= k * SectorPieces
      BY <1>1, <1>3, <3>2 DEF Position, Within
    <3>4. p.fp.dsect = clust2sect(p.fp.curr_clust)
      BY <1>1, <1>3, <2>1 DEF Position, Buffered
    <3>5. k \in Nat
      OBVIOUS
    <3>6. p.fp.fptr - (p.fp.fptr % SectorPieces) + SectorPieces <= k * SectorPieces
      BY <1>2, <2>1, <3>3, <3>5, RoundUp
    <3> QED BY <1>1, <1>3, <3>1, <3>3, <3>4, <3>6, RPartFine, Zenon
  <2>2. CASE p.fp.fptr % SectorPieces = 0
    <3>1. q = RFollow(p, RCluster(p))
      BY <1>1, <2>2, ReadStepIs
    <3> QED BY <1>1, <1>3, <2>2, <3>1, RFollowFine
  <2> QED BY <2>1, <2>2
<1>5. Still(v, q.v) /\ Kin(f, q.fp) /\ SameSize(f, q.fp)
  BY <1>4, StillTrans, KinTrans DEF Taking, Took, SameSize
<1> QED BY <1>4, <1>5 DEF Taking, Took

(* f_read, cut off or refused anywhere, leaves the volume a layout to which *)
(* the file fits, and writes back its buffer to a cluster of its own.       *)
THEOREM ReadsFile ==
  ASSUME NEW v, NEW ch, NEW x, NEW g, Base(v, ch, x, g),
         NEW f, FileOf(v, f, ch), Position(f, ch[f.name]), ~f.error, NEW n \in Nat,
         NEW q, q = ReadLoop(v, f, n)
  PROVE  Still(v, q.v) /\ Kin(f, q.fp) /\ SameSize(f, q.fp) /\ Fine(q.v, q.fp, x, g)
<1> DEFINE s == [v |-> v, fp |-> f, n |-> n, got |-> <<>>, done |-> n = 0]
<1>1. PICK h : Rows(h, "read", 0, s, n) /\ q = h[n]
  BY ReadRows
<1> DEFINE I == {i \in 0..n : Taking(h[i], v, f, x, g)}
<1>2. 0 \in I
  <2>1. h[0] = s
    BY <1>1 DEF Rows
  <2>2. s.v = v /\ s.fp = f /\ IsRead(s)
    BY DEF IsRead
  <2>3. IsVol(v) /\ IsFp(f)
    BY BaseFacts DEF FileOf
  <2>4. Still(v, v) /\ Kin(f, f) /\ SameSize(f, f)
    BY <2>3, VolStill, KinSelf DEF SameSize
  <2>5. Fine(v, f, x, g)
    BY DEF Fine
  <2> HIDE DEF s
  <2>6. Taking(h[0], v, f, x, g)
    BY <2>1, <2>2, <2>4, <2>5 DEF Taking
  <2> QED BY <2>6
<1>3. ASSUME NEW i \in 1..n, i - 1 \in I PROVE i \in I
  <2> DEFINE p == h[i - 1]
  <2>1. h[i] = IF p.done THEN p ELSE ReadStep(p)
    BY <1>1 DEF Rows, StepOf
  <2>2. Taking(p, v, f, x, g)
    BY <1>3
  <2> HIDE DEF p, s
  <2>3. Taking(h[i], v, f, x, g)
    <3>1. CASE p.done
      BY <2>1, <2>2, <3>1
    <3>2. CASE ~p.done
      BY <2>1, <2>2, <3>2, ReadStepKeeps
    <3> QED BY <3>1, <3>2
  <2> QED BY <2>3
<1>4. 0..n \subseteq I
  <2> HIDE DEF I
  <2> QED BY <1>2, <1>3, UpTo
<1>5. Taking(q, v, f, x, g)
  BY <1>1, <1>4
<1> QED BY <1>5 DEF Taking
=============================================================================
