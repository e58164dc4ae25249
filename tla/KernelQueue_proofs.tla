------------------------- MODULE KernelQueue_proofs -------------------------
(***************************************************************************)
(* That the kernel's queue and mutex keep every task in the right list,    *)
(* lose no tick and keep the types, for any tasks, any length of the       *)
(* queue, any tick width and any block times. The inductive invariant is   *)
(* Inv: the types, Base (the lists are sound, the scheduler is suspended   *)
(* and the queue locked just where the running call says so, and the       *)
(* running task is ready until it parks) and Holding (a mutex is free or   *)
(* has a holder who is not waiting for it).                                *)
(*                                                                         *)
(* The first part is about the operators of Scheduler: the lists of        *)
(* list.c, then the functions of tasks.c on the scheduler's record, each   *)
(* in terms of who is in which list afterwards. The second is about the    *)
(* queue.                                                                  *)
(***************************************************************************)
EXTENDS KernelQueue, SequenceTheorems, FiniteSetTheorems, TLAPS

-----------------------------------------------------------------------------
(* Lists. *)

(* A set of numbers that is not empty has a least one. *)
LEMMA LeastElement ==
  ASSUME NEW T \in SUBSET Nat, T # {} PROVE \E x \in T : \A y \in T : x <= y
<1> DEFINE R == OpToRel(<, Nat)
<1>2. IsWellFoundedOn(R, Nat)
  BY NatLessThanWellFounded, Zenon
<1>3. PICK x \in T : \A y \in T : ~(<<y, x>> \in R)
  <2> HIDE DEF R
  <2> QED BY <1>2, WFMin, Zenon
<1>4. \A y \in T : ~(y < x)
  BY <1>3, Zenon DEF OpToRel
<1> QED BY <1>4

(* Induction up to n, for a set in place of a predicate. *)
LEMMA UpTo ==
  ASSUME NEW n \in Nat, NEW S, 0 \in S, \A i \in 1..n : i - 1 \in S => i \in S
  PROVE  0..n \subseteq S
<1> SUFFICES ASSUME ~(0..n \subseteq S) PROVE FALSE
  OBVIOUS
<1> DEFINE T == (0..n) \ S
<1>1. PICK x \in T : \A y \in T : x <= y
  <2>1. T \in SUBSET Nat /\ T # {}
    OBVIOUS
  <2> HIDE DEF T
  <2> QED BY <2>1, LeastElement
<1>2. x \in 1..n /\ x - 1 \in 0..n /\ x - 1 \notin T
  BY <1>1
<1> QED BY <1>1, <1>2

Kept(f, list, K, i) ==
  IF i = 0 THEN <<>>
  ELSE IF list[i] \in K THEN Append(f[i - 1], list[i]) ELSE f[i - 1]

(* The recursive function of Only exists, up to every length. *)
LEMMA KeptExists ==
  ASSUME NEW list, NEW K, NEW n \in Nat
  PROVE  \E f : f = [i \in 0..n |-> Kept(f, list, K, i)]
<1> DEFINE Q(m) == \E f : f = [i \in 0..m |-> Kept(f, list, K, i)]
           S == {m \in 0..n : Q(m)}
<1>1. 0 \in S
  <2> DEFINE g == [i \in 0..0 |-> <<>>]
  <2>1. g = [i \in 0..0 |-> Kept(g, list, K, i)]
    BY DEF Kept
  <2>2. Q(0)
    <3> HIDE DEF g
    <3> QED BY <2>1
  <2> QED BY <2>2
<1>2. ASSUME NEW m \in 1..n, m-1 \in S PROVE m \in S
  <2>1. PICK f : f = [i \in 0..(m-1) |-> Kept(f, list, K, i)]
    BY <1>2
  <2> DEFINE g == [i \in 0..m |-> IF i = m THEN Kept(f, list, K, m) ELSE f[i]]
  <2>2. ASSUME NEW i \in 0..m PROVE g[i] = Kept(g, list, K, i)
    <3>1. i # 0 => i - 1 \in 0..(m-1) /\ g[i-1] = f[i-1]
      OBVIOUS
    <3>2. i # m => f[i] = Kept(f, list, K, i)
      <4>1. i # m => i \in 0..(m-1)
        OBVIOUS
      <4> QED BY <4>1, <2>1
    <3>3. Kept(f, list, K, i) = Kept(g, list, K, i)
      BY <3>1 DEF Kept
    <3>4. g[i] = Kept(f, list, K, i)
      BY <3>2
    <3> QED BY <3>3, <3>4
  <2>3. g = [i \in 0..m |-> Kept(g, list, K, i)]
    BY <2>2
  <2>4. Q(m)
    <3> HIDE DEF g
    <3> QED BY <2>3
  <2> QED BY <2>4
<1>3. 0..n \subseteq S
  <2> HIDE DEF S
  <2> QED BY <1>1, <1>2, UpTo
<1> QED BY <1>3

(* A sequence picks from the first i items of a list those in K, at the    *)
(* places h.                                                               *)
Places(h, new, list, K, i) ==
  /\ h \in [1..Len(new) -> 1..i]
  /\ \A m, n \in 1..Len(new) : m < n => h[m] < h[n]
  /\ \A n \in 1..Len(new) : new[n] = list[h[n]] /\ list[h[n]] \in K
  /\ \A j \in 1..i : list[j] \in K => \E n \in 1..Len(new) : h[n] = j

(* Only takes its items from growing places of the list, and misses none *)
(* that is in K.                                                         *)
LEMMA OnlyPlaces ==
  ASSUME NEW S, NEW list \in Seq(S), NEW K
  PROVE  /\ Only(list, K) \in Seq(S)
         /\ \E h : Places(h, Only(list, K), list, K, Len(list))
<1> DEFINE kept == CHOOSE f : f = [i \in 0..Len(list) |-> Kept(f, list, K, i)]
           I == {i \in 0..Len(list) :
                   kept[i] \in Seq(S) /\ \E h : Places(h, kept[i], list, K, i)}
<1>1. kept = [i \in 0..Len(list) |-> Kept(kept, list, K, i)]
  BY SMTT(30), KeptExists
<1>2. Only(list, K) = kept[Len(list)]
  BY DEF Only, Kept
<1> HIDE DEF kept
<1>3. 0 \in I
  <2>1. kept[0] = <<>>
    BY <1>1 DEF Kept
  <2>2. [n \in 1..0 |-> n] \in [1..Len(kept[0]) -> 1..0]
    BY <2>1
  <2>3. Places([n \in 1..0 |-> n], kept[0], list, K, 0)
    BY <2>1, <2>2 DEF Places
  <2>4. kept[0] \in Seq(S)
    BY <2>1
  <2> QED BY <2>3, <2>4
<1>4. ASSUME NEW i \in 1..Len(list), i - 1 \in I PROVE i \in I
  <2>1. kept[i] = Kept(kept, list, K, i)
    BY <1>1
  <2> DEFINE old == kept[i - 1]
  <2>3. PICK h : Places(h, old, list, K, i - 1)
    BY <1>4
  <2>4. old \in Seq(S)
    BY <1>4
  <2> HIDE DEF old
  <2>5. CASE list[i] \in K
    <3> DEFINE g == [n \in 1..Len(old) + 1 |-> IF n = Len(old) + 1 THEN i ELSE h[n]]
               new == Append(old, list[i])
    <3>1. kept[i] = new
      BY <2>1, <2>5 DEF Kept, old
    <3>2. /\ new \in Seq(S) /\ Len(new) = Len(old) + 1
          /\ \A n \in 1..Len(old) : new[n] = old[n]
          /\ new[Len(old) + 1] = list[i]
      BY <2>4
    <3> HIDE DEF new
    <3>3. g \in [1..Len(new) -> 1..i]
      BY <2>3, <2>4, <3>2 DEF Places
    <3>4. ASSUME NEW m \in 1..Len(new), NEW n \in 1..Len(new), m < n PROVE g[m] < g[n]
      <4>1. m \in 1..Len(old) /\ Len(old) \in Nat /\ n \in 1..Len(old) + 1
        BY <2>4, <3>2, <3>4
      <4>4. h[m] \in 1..i-1 /\ g[m] = h[m]
        BY <2>3, <4>1, SMTT(30) DEF Places
      <4>2. CASE n = Len(old) + 1
        BY <4>1, <4>2, <4>4
      <4>3. CASE n # Len(old) + 1
        <5>1. n \in 1..Len(old) /\ g[n] = h[n]
          BY <4>1, <4>3
        <5>2. h[m] < h[n]
          BY <4>1, <5>1, <3>4, <2>3, Zenon DEF Places
        <5> QED BY <4>4, <5>1, <5>2
      <4> QED BY <4>2, <4>3
    <3>5. \A n \in 1..Len(new) : new[n] = list[g[n]] /\ list[g[n]] \in K
      BY <2>3, <2>4, <2>5, <3>2 DEF Places
    <3>6. ASSUME NEW j \in 1..i, list[j] \in K PROVE \E n \in 1..Len(new) : g[n] = j
      <4>1. CASE j = i
        BY <4>1, <2>4, <3>2
      <4>2. CASE j # i
        <5>1. PICK n \in 1..Len(old) : h[n] = j
          BY <4>2, <2>3, <3>6 DEF Places
        <5> QED BY <5>1, <2>4, <3>2
      <4> QED BY <4>1, <4>2
    <3>7. Places(g, new, list, K, i)
      <4> HIDE DEF g
      <4> QED BY <3>3, <3>4, <3>5, <3>6 DEF Places
    <3> QED BY <3>7, <3>1, <3>2
  <2>6. CASE list[i] \notin K
    <3>1. kept[i] = old
      BY <2>1, <2>6 DEF Kept, old
    <3>2. h \in [1..Len(old) -> 1..i]
      BY <2>3 DEF Places
    <3>3. \A j \in 1..i : list[j] \in K => \E n \in 1..Len(old) : h[n] = j
      BY <2>3, <2>6 DEF Places
    <3>4. Places(h, old, list, K, i)
      BY <2>3, <2>4, <3>2, <3>3 DEF Places
    <3> QED BY <3>1, <3>4, <2>4
  <2> QED BY <2>5, <2>6
<1>5. Len(list) \in I
  <2>1. Len(list) \in Nat /\ Len(list) \in 0..Len(list)
    OBVIOUS
  <2>2. 0..Len(list) \subseteq I
    <3> HIDE DEF I
    <3> QED BY <1>3, <1>4, <2>1, UpTo, Zenon
  <2> QED BY <2>1, <2>2
<1> QED BY <1>2, <1>5

(* In the order of their values. *)
Rising(list, value) ==
  \A i, j \in DOMAIN list : i < j => value[list[i]] <= value[list[j]]

(* What ToSet says of a sequence. *)
LEMMA InToSet ==
  ASSUME NEW S, NEW list \in Seq(S)
  PROVE  /\ ToSet(list) \subseteq S
         /\ \A i \in 1..Len(list) : list[i] \in ToSet(list)
         /\ \A x \in ToSet(list) : \E i \in 1..Len(list) : list[i] = x
         /\ Len(list) \in Nat /\ DOMAIN list = 1..Len(list)
         /\ ToSet(list) = {} <=> list = <<>>
<1>1. Len(list) \in Nat /\ DOMAIN list = 1..Len(list)
  OBVIOUS
<1>2. ASSUME list # <<>> PROVE list[1] \in ToSet(list)
  BY <1>2, <1>1 DEF ToSet
<1>3. list = <<>> => ToSet(list) = {}
  BY DEF ToSet
<1>4. /\ ToSet(list) \subseteq S
      /\ \A i \in 1..Len(list) : list[i] \in ToSet(list)
      /\ \A x \in ToSet(list) : \E i \in 1..Len(list) : list[i] = x
  BY <1>1 DEF ToSet
<1>5. ToSet(list) = {} <=> list = <<>>
  BY <1>2, <1>3
<1> QED BY <1>1, <1>4, <1>5

(* vListRemove keeps what it does not take out, in its order and once. *)
LEMMA OnlyFacts ==
  ASSUME NEW S, NEW list \in Seq(S), NEW K
  PROVE  /\ Only(list, K) \in Seq(S)
         /\ ToSet(Only(list, K)) = ToSet(list) \cap K
         /\ IsInjective(list) => IsInjective(Only(list, K))
         /\ \A value : Rising(list, value) => Rising(Only(list, K), value)
<1> DEFINE new == Only(list, K)
<1>1. new \in Seq(S) /\ \E h : Places(h, new, list, K, Len(list))
  BY OnlyPlaces
<1> HIDE DEF new
<1>2. PICK h : Places(h, new, list, K, Len(list))
  BY <1>1
<1>3. /\ Len(new) \in Nat /\ DOMAIN new = 1..Len(new)
      /\ Len(list) \in Nat /\ DOMAIN list = 1..Len(list)
  BY <1>1
<1>4. ASSUME NEW n \in 1..Len(new) 
      PROVE  h[n] \in 1..Len(list) /\ new[n] = list[h[n]] /\ list[h[n]] \in K
  BY <1>2 DEF Places
<1>5. ASSUME NEW m \in 1..Len(new), NEW n \in 1..Len(new), m < n PROVE h[m] < h[n]
  BY <1>2, <1>5 DEF Places
<1>6. ToSet(new) \subseteq ToSet(list) \cap K
  BY <1>3, <1>4 DEF ToSet
<1>7. ASSUME NEW x \in ToSet(list) \cap K PROVE x \in ToSet(new)
  <2>1. PICK j \in 1..Len(list) : x = list[j]
    BY <1>3 DEF ToSet
  <2>2. PICK n \in 1..Len(new) : h[n] = j
    BY <1>2, <2>1 DEF Places
  <2> QED BY <1>3, <1>4, <2>1, <2>2 DEF ToSet
<1>8. ASSUME IsInjective(list) PROVE IsInjective(new)
  <2> SUFFICES ASSUME NEW m \in 1..Len(new), NEW n \in 1..Len(new), new[m] = new[n]
               PROVE  m = n
    BY <1>3 DEF IsInjective
  <2>1. h[m] = h[n]
    BY <1>3, <1>4, <1>8 DEF IsInjective
  <2> QED BY <2>1, <1>3, <1>4, <1>5, SMTT(30)
<1>9. ASSUME NEW value, Rising(list, value) PROVE Rising(new, value)
  <2> SUFFICES ASSUME NEW m \in 1..Len(new), NEW n \in 1..Len(new), m < n
               PROVE  value[new[m]] <= value[new[n]]
    BY <1>3 DEF Rising
  <2> QED BY <1>3, <1>4, <1>5, <1>9 DEF Rising
<1> QED BY <1>1, <1>6, <1>7, <1>8, <1>9 DEF new

(* A list behind another holds the items of both. *)
LEMMA ConcatFacts ==
  ASSUME NEW S, NEW a \in Seq(S), NEW b \in Seq(S)
  PROVE  /\ a \o b \in Seq(S)
         /\ ToSet(a \o b) = ToSet(a) \cup ToSet(b)
         /\ IsInjective(a) /\ IsInjective(b) /\ ToSet(a) \cap ToSet(b) = {}
              => IsInjective(a \o b)
<1> DEFINE c == a \o b
<1>1. /\ c \in Seq(S) /\ Len(c) = Len(a) + Len(b)
      /\ DOMAIN c = 1..Len(c) /\ DOMAIN a = 1..Len(a) /\ DOMAIN b = 1..Len(b)
      /\ Len(a) \in Nat /\ Len(b) \in Nat
      /\ \A i \in 1..Len(c) : c[i] = IF i <= Len(a) THEN a[i] ELSE b[i - Len(a)]
  BY ConcatProperties
<1> HIDE DEF c
<1>2. ASSUME NEW i \in 1..Len(c)
      PROVE  \/ i \in 1..Len(a) /\ c[i] = a[i]
             \/ i - Len(a) \in 1..Len(b) /\ c[i] = b[i - Len(a)] /\ i > Len(a)
  BY <1>1
<1>3. ASSUME NEW i \in 1..Len(a) PROVE i \in 1..Len(c) /\ c[i] = a[i]
  BY <1>1
<1>4. ASSUME NEW i \in 1..Len(b) PROVE i + Len(a) \in 1..Len(c) /\ c[i + Len(a)] = b[i]
  BY <1>1
<1>5. ToSet(c) = ToSet(a) \cup ToSet(b)
  <2>1. ToSet(c) \subseteq ToSet(a) \cup ToSet(b)
    BY <1>1, <1>2, Zenon DEF ToSet
  <2>2. ToSet(a) \subseteq ToSet(c)
    BY <1>1, <1>3 DEF ToSet
  <2>3. ToSet(b) \subseteq ToSet(c)
    BY <1>1, <1>4, SMTT(30) DEF ToSet
  <2> QED BY <2>1, <2>2, <2>3
<1>6. ASSUME IsInjective(a), IsInjective(b), ToSet(a) \cap ToSet(b) = {}
      PROVE  IsInjective(c)
  <2> SUFFICES ASSUME NEW i \in 1..Len(c), NEW j \in 1..Len(c), c[i] = c[j]
               PROVE  i = j
    BY <1>1 DEF IsInjective
  <2>1. ASSUME NEW k \in 1..Len(a), NEW m \in 1..Len(b) PROVE a[k] # b[m]
    BY <1>1, <1>6, Zenon DEF ToSet
  <2>2. \A k, m \in 1..Len(a) : a[k] = a[m] => k = m
    BY <1>1, <1>6, Zenon DEF IsInjective
  <2>3. \A k, m \in 1..Len(b) : b[k] = b[m] => k = m
    BY <1>1, <1>6, Zenon DEF IsInjective
  <2>4. CASE i \in 1..Len(a) /\ c[i] = a[i]
    BY <1>2, <2>1, <2>2, <2>4, Zenon
  <2>5. CASE i - Len(a) \in 1..Len(b) /\ c[i] = b[i - Len(a)] /\ i > Len(a)
    <3>1. j - Len(a) \in 1..Len(b) /\ c[j] = b[j - Len(a)] /\ j > Len(a)
      BY <1>2, <2>1, <2>5, Zenon
    <3>2. i - Len(a) = j - Len(a)
      BY <3>1, <2>3, <2>5, Zenon
    <3> QED BY <3>2, <1>1
  <2> QED BY <1>2, <2>4, <2>5
<1> QED BY <1>1, <1>5, <1>6 DEF c

(* A list of one item. *)
LEMMA OneFacts ==
  ASSUME NEW S, NEW x \in S
  PROVE  <<x>> \in Seq(S) /\ ToSet(<<x>>) = {x} /\ IsInjective(<<x>>)
<1>1. <<x>> \in Seq(S) /\ DOMAIN <<x>> = 1..1 /\ <<x>>[1] = x
  OBVIOUS
<1> QED BY <1>1 DEF ToSet, IsInjective

(* vListInsertEnd adds one item. *)
LEMMA AppendFacts ==
  ASSUME NEW S, NEW list \in Seq(S), NEW x \in S
  PROVE  /\ Append(list, x) \in Seq(S)
         /\ ToSet(Append(list, x)) = ToSet(list) \cup {x}
         /\ IsInjective(list) /\ x \notin ToSet(list) => IsInjective(Append(list, x))
<1>1. Append(list, x) = list \o <<x>>
  OBVIOUS
<1>2. <<x>> \in Seq(S) /\ ToSet(<<x>>) = {x} /\ IsInjective(<<x>>)
  BY OneFacts
<1>3. ToSet(list) \cap {x} = {} <=> x \notin ToSet(list)
  OBVIOUS
<1>4. /\ list \o <<x>> \in Seq(S)
      /\ ToSet(list \o <<x>>) = ToSet(list) \cup ToSet(<<x>>)
      /\ IsInjective(list) /\ IsInjective(<<x>>) /\ ToSet(list) \cap ToSet(<<x>>) = {}
              => IsInjective(list \o <<x>>)
  BY <1>2, ConcatFacts, Zenon
<1> QED BY <1>1, <1>2, <1>3, <1>4

(* The front and the rest of a list: all of it, with nothing in both, *)
(* each in order.                                                     *)
LEMMA SplitFacts ==
  ASSUME NEW S, NEW list \in Seq(S), NEW n \in 0..Len(list)
  PROVE  LET a == SubSeq(list, 1, n)
             b == SubSeq(list, n + 1, Len(list))
         IN  /\ a \in Seq(S) /\ b \in Seq(S)
             /\ Len(a) = n /\ Len(b) = Len(list) - n
             /\ \A i \in 1..n : a[i] = list[i]
             /\ \A i \in 1..Len(b) : b[i] = list[n + i]
             /\ ToSet(list) = ToSet(a) \cup ToSet(b)
             /\ IsInjective(list) => /\ IsInjective(a) /\ IsInjective(b)
                                     /\ ToSet(a) \cap ToSet(b) = {}
             /\ \A value : Rising(list, value) => Rising(a, value) /\ Rising(b, value)
<1> DEFINE a == SubSeq(list, 1, n)
           b == SubSeq(list, n + 1, Len(list))
<1>1. /\ a \in Seq(S) /\ b \in Seq(S)
      /\ Len(a) = n /\ Len(b) = Len(list) - n
      /\ \A i \in 1..n : a[i] = list[i]
      /\ \A i \in 1..Len(b) : b[i] = list[n + i]
      /\ DOMAIN a = 1..n /\ DOMAIN b = 1..Len(b) /\ DOMAIN list = 1..Len(list)
      /\ Len(list) \in Nat
  <2>1. Len(list) \in Nat /\ DOMAIN list = 1..Len(list) /\ list \in Seq(S)
    OBVIOUS
  <2>2. a \in Seq(S) /\ Len(a) = n /\ \A i \in 1..n : a[i] = list[i]
    <3>1. /\ a \in Seq(S) /\ Len(a) = IF 1 <= n THEN n - 1 + 1 ELSE 0
          /\ \A i \in 1..n - 1 + 1 : a[i] = list[1 + i - 1]
      BY <2>1, SubSeqProperties
    <3> HIDE DEF a
    <3> QED BY <3>1
  <2>3. b \in Seq(S) /\ Len(b) = Len(list) - n /\ \A i \in 1..Len(b) : b[i] = list[n + i]
    <3>1. /\ b \in Seq(S)
          /\ Len(b) = IF n + 1 <= Len(list) THEN Len(list) - (n + 1) + 1 ELSE 0
          /\ \A i \in 1..Len(list) - (n + 1) + 1 : b[i] = list[(n + 1) + i - 1]
      BY <2>1, SubSeqProperties
    <3> HIDE DEF b
    <3>4. n \in Int /\ n <= Len(list) /\ Len(list) \in Int
      BY <2>1
    <3>2. Len(b) = Len(list) - n
      BY <3>1, <3>4
    <3>3. \A i \in 1..Len(b) : (n + 1) + i - 1 = n + i
      BY <3>2, <2>1
    <3> QED BY <3>1, <3>2, <3>3, <2>1
  <2> HIDE DEF a, b
  <2> QED BY <2>1, <2>2, <2>3
<1> HIDE DEF a, b
<1>2. \A i \in 1..Len(b) : n + i \in 1..Len(list)
  BY <1>1
<1>3. \A i \in 1..n : i \in 1..Len(list)
  BY <1>1
<1>4. \A i \in 1..Len(list) : i \in 1..n \/ (i - n \in 1..Len(b) /\ n + (i - n) = i)
  BY <1>1
<1>5. ToSet(list) = ToSet(a) \cup ToSet(b)
  <2>1. ToSet(list) \subseteq ToSet(a) \cup ToSet(b)
    <3> SUFFICES ASSUME NEW i \in 1..Len(list) PROVE list[i] \in ToSet(a) \cup ToSet(b)
      BY <1>1, ZenonT(60) DEF ToSet
    <3>1. CASE i \in 1..n
      BY <1>1, <3>1, Zenon DEF ToSet
    <3>2. CASE i - n \in 1..Len(b) /\ n + (i - n) = i
      <4>1. b[i - n] = list[i]
        BY <1>1, <3>2
      <4> QED BY <1>1, <3>2, <4>1, Zenon DEF ToSet
    <3> QED BY <1>4, <3>1, <3>2
  <2>2. ToSet(a) \subseteq ToSet(list)
    BY <1>1, <1>3 DEF ToSet
  <2>3. ToSet(b) \subseteq ToSet(list)
    <3>1. \A i \in 1..Len(b) : b[i] \in ToSet(list)
      BY <1>1, <1>2, Zenon DEF ToSet
    <3> QED BY <3>1, <1>1 DEF ToSet
  <2> QED BY <2>1, <2>2, <2>3
<1>6. ASSUME IsInjective(list)
      PROVE  IsInjective(a) /\ IsInjective(b) /\ ToSet(a) \cap ToSet(b) = {}
  <2>1. \A i, j \in 1..Len(list) : list[i] = list[j] => i = j
    BY <1>6, <1>1 DEF IsInjective
  <2>2. IsInjective(a)
    BY <2>1, <1>1, <1>3 DEF IsInjective
  <2>3. ASSUME NEW i \in 1..Len(b), NEW j \in 1..Len(b), b[i] = b[j] PROVE i = j
    <3>1. n + i = n + j
      BY <2>1, <2>3, <1>1, <1>2
    <3> QED BY <3>1
  <2>4. ASSUME NEW i \in 1..n, NEW j \in 1..Len(b), a[i] = b[j] PROVE FALSE
    <3>1. i = n + j
      BY <2>1, <2>4, <1>1, <1>2, <1>3
    <3> QED BY <3>1
  <2>5. IsInjective(b)
    BY <2>3, <1>1, Zenon DEF IsInjective
  <2>6. ToSet(a) \cap ToSet(b) = {}
    BY <2>4, <1>1 DEF ToSet
  <2> QED BY <2>2, <2>5, <2>6
<1>7. ASSUME NEW value, Rising(list, value) PROVE Rising(a, value) /\ Rising(b, value)
  <2>1. Rising(a, value)
    BY <1>7, <1>1, <1>3 DEF Rising
  <2>2. ASSUME NEW i \in 1..Len(b), NEW j \in 1..Len(b), i < j
        PROVE  value[b[i]] <= value[b[j]]
    <3>1. n + i < n + j /\ n + i \in 1..Len(list) /\ n + j \in 1..Len(list)
      BY <2>2, <1>2
    <3>2. value[list[n + i]] <= value[list[n + j]]
      BY <3>1, <1>7, <1>1, Zenon DEF Rising
    <3> QED BY <3>2, <1>1
  <2> QED BY <2>1, <2>2, <1>1 DEF Rising
<1> QED BY <1>1, <1>5, <1>6, <1>7, Zenon DEF a, b

(* The head of a list and the rest: in a rising list the head has the *)
(* least value.                                                       *)
LEMMA TailFacts ==
  ASSUME NEW S, NEW list \in Seq(S), list # <<>>
  PROVE  /\ Head(list) \in S /\ Tail(list) \in Seq(S)
         /\ Len(Tail(list)) = Len(list) - 1
         /\ Head(list) = list[1] /\ \A i \in 1..Len(list) - 1 : Tail(list)[i] = list[i + 1]
         /\ ToSet(list) = {Head(list)} \cup ToSet(Tail(list))
         /\ IsInjective(list) => /\ IsInjective(Tail(list))
                                 /\ Head(list) \notin ToSet(Tail(list))
         /\ \A value : Rising(list, value) =>
              /\ Rising(Tail(list), value)
              /\ \A x \in ToSet(Tail(list)) : value[Head(list)] <= value[x]
<1>1. /\ Tail(list) = SubSeq(list, 1 + 1, Len(list)) /\ 1 \in 0..Len(list)
      /\ Head(list) = list[1] /\ Head(list) \in S /\ Len(list) \in Nat
  BY TailIsSubSeq
<1> DEFINE a == SubSeq(list, 1, 1)
           b == SubSeq(list, 1 + 1, Len(list))
<1>2. /\ a \in Seq(S) /\ b \in Seq(S)
      /\ Len(a) = 1 /\ Len(b) = Len(list) - 1
      /\ \A i \in 1..1 : a[i] = list[i]
      /\ \A i \in 1..Len(b) : b[i] = list[1 + i]
      /\ ToSet(list) = ToSet(a) \cup ToSet(b)
      /\ IsInjective(list) => /\ IsInjective(a) /\ IsInjective(b)
                              /\ ToSet(a) \cap ToSet(b) = {}
      /\ \A value : Rising(list, value) => Rising(a, value) /\ Rising(b, value)
  BY <1>1, SplitFacts, Zenon
<1> HIDE DEF a, b
<1>3. ToSet(a) = {Head(list)}
  <2>1. DOMAIN a = 1..1 /\ a[1] = list[1]
    BY <1>2
  <2> QED BY <2>1, <1>1 DEF ToSet
<1>4. ASSUME NEW value, Rising(list, value), NEW x \in ToSet(b)
      PROVE  value[Head(list)] <= value[x]
  <2>1. PICK i \in 1..Len(b) : x = b[i]
    BY <1>2 DEF ToSet
  <2>2. 1 \in DOMAIN list /\ 1 + i \in DOMAIN list /\ 1 < 1 + i /\ x = list[1 + i]
    BY <2>1, <1>1, <1>2
  <2> QED BY <2>2, <1>1, <1>4 DEF Rising
<1>5. \A i \in 1..Len(list) - 1 : b[i] = list[i + 1]
  BY <1>1, <1>2
<1>6. Tail(list) = b
  BY <1>1 DEF b
<1> QED BY <1>1, <1>2, <1>3, <1>4, <1>5, <1>6, Zenon

(* Two rising lists in a row are rising when no value of the first *)
(* exceeds one of the second.                                      *)
LEMMA ConcatRising ==
  ASSUME NEW S, NEW a \in Seq(S), NEW b \in Seq(S), NEW value,
         Rising(a, value), Rising(b, value),
         \A x \in ToSet(a), y \in ToSet(b) : value[x] <= value[y]
  PROVE  Rising(a \o b, value)
<1> DEFINE c == a \o b
<1>1. /\ c \in Seq(S) /\ Len(c) = Len(a) + Len(b)
      /\ DOMAIN c = 1..Len(c) /\ DOMAIN a = 1..Len(a) /\ DOMAIN b = 1..Len(b)
      /\ Len(a) \in Nat /\ Len(b) \in Nat
      /\ \A i \in 1..Len(c) : c[i] = IF i <= Len(a) THEN a[i] ELSE b[i - Len(a)]
  BY ConcatProperties
<1> HIDE DEF c
<1> SUFFICES ASSUME NEW i \in 1..Len(c), NEW j \in 1..Len(c), i < j
             PROVE  value[c[i]] <= value[c[j]]
  BY <1>1, Zenon DEF Rising, c
<1>2. CASE i <= Len(a) /\ j <= Len(a)
  <2>1. i \in 1..Len(a) /\ j \in 1..Len(a) /\ c[i] = a[i] /\ c[j] = a[j]
    BY <1>1, <1>2
  <2> QED BY <2>1, <1>1, Zenon DEF Rising
<1>3. CASE i <= Len(a) /\ ~(j <= Len(a))
  <2>1. i \in 1..Len(a) /\ j - Len(a) \in 1..Len(b) /\ c[i] = a[i] /\ c[j] = b[j - Len(a)]
    BY <1>1, <1>3
  <2> QED BY <2>1, <1>1, Zenon DEF ToSet
<1>4. CASE ~(i <= Len(a)) /\ ~(j <= Len(a))
  <2>1. /\ i - Len(a) \in 1..Len(b) /\ j - Len(a) \in 1..Len(b) /\ i - Len(a) < j - Len(a)
        /\ c[i] = b[i - Len(a)] /\ c[j] = b[j - Len(a)]
    BY <1>1, <1>4
  <2> QED BY <2>1, <1>1, Zenon DEF Rising
<1> QED BY <1>1, <1>2, <1>3, <1>4

(* The least number of a set that is not empty. *)
LEMMA MinFacts ==
  ASSUME NEW T \in SUBSET Nat, T # {}
  PROVE  Min(T) \in T /\ \A y \in T : Min(T) <= y
<1>1. \E x \in T : \A y \in T : x <= y
  BY LeastElement
<1> QED BY <1>1, Zenon DEF Min

(* The greatest number of a bounded set that is not empty. *)
LEMMA MaxFacts ==
  ASSUME NEW n \in Nat, NEW T \in SUBSET 0..n, T # {}
  PROVE  Max(T) \in T /\ \A y \in T : Max(T) >= y
<1> DEFINE U == {x \in 0..n : n - x \in T}
<1>1. PICK u \in U : \A y \in U : u <= y
  <2>1. U \subseteq Nat
    OBVIOUS
  <2>2. PICK x \in T : TRUE
    BY Zenon
  <2>3. n - x \in 0..n /\ n - (n - x) = x
    OBVIOUS
  <2>4. n - x \in U
    BY <2>2, <2>3
  <2> HIDE DEF U
  <2> QED BY <2>1, <2>4, LeastElement
<1>2. ASSUME NEW y \in T PROVE n - u >= y
  <2>1. n - y \in 0..n /\ n - (n - y) = y
    OBVIOUS
  <2>2. n - y \in U
    BY <2>1
  <2>3. u <= n - y
    BY <1>1, <2>2
  <2> QED BY <2>3
<1>3. \E x \in T : \A y \in T : x >= y
  BY <1>1, <1>2
<1> QED BY <1>3, Zenon DEF Max

(* vListInsert adds one item and keeps a list in order in order. *)
LEMMA InsertFacts ==
  ASSUME NEW S, NEW list \in Seq(S), NEW t \in S, NEW value, \A x \in S : value[x] \in Int
  PROVE  /\ vListInsert(list, value, t) \in Seq(S)
         /\ ToSet(vListInsert(list, value, t)) = ToSet(list) \cup {t}
         /\ IsInjective(list) /\ t \notin ToSet(list)
              => IsInjective(vListInsert(list, value, t))
         /\ Rising(list, value) => Rising(vListInsert(list, value, t), value)
<1> DEFINE greater == {i \in DOMAIN list : value[list[i]] > value[t]}
           p == IF greater = {} THEN Len(list) + 1 ELSE Min(greater)
           n == p - 1
           a == SubSeq(list, 1, n)
           b == SubSeq(list, n + 1, Len(list))
<1>1. /\ p \in 1..Len(list) + 1 /\ Len(list) \in Nat
      /\ \A i \in 1..n : ~(value[list[i]] > value[t])
      /\ p \in 1..Len(list) => value[list[p]] > value[t]
  <2>1. Len(list) \in Nat /\ DOMAIN list = 1..Len(list)
    OBVIOUS
  <2>2. CASE greater = {}
    BY <2>1, <2>2, SMTT(30)
  <2>3. CASE greater # {}
    <3>1. greater \in SUBSET Nat
      BY <2>1
    <3>2. Min(greater) \in greater /\ \A y \in greater : Min(greater) <= y
      <4> HIDE DEF greater
      <4> QED BY <3>1, <2>3, MinFacts
    <3>3. p = Min(greater)
      BY <2>3
    <3>4. p \in 1..Len(list) /\ value[list[p]] > value[t]
      BY <3>2, <3>3, <2>1
    <3>5. \A i \in 1..n : i \in DOMAIN list /\ ~(p <= i)
      BY <3>4, <2>1
    <3>6. \A i \in 1..n : i \notin greater
      <4> HIDE DEF greater
      <4> QED BY <3>2, <3>3, <3>5
    <3>7. p \in 1..Len(list) + 1
      BY <3>4, <2>1
    <3> QED BY <3>4, <3>5, <3>6, <3>7, <2>1, Zenon
  <2> QED BY <2>2, <2>3, Zenon
<1>2. n \in 0..Len(list) /\ n + 1 = p
  <2> HIDE DEF p
  <2> QED BY <1>1
<1>3. vListInsert(list, value, t) = (a \o <<t>>) \o b
  <2>1. vListInsert(list, value, t) = InsertAt(list, p, t)
    BY DEF vListInsert
  <2>2. InsertAt(list, p, t) = (SubSeq(list, 1, p - 1) \o <<t>>) \o SubSeq(list, p, Len(list))
    BY DEF InsertAt
  <2> HIDE DEF p
  <2> QED BY <2>1, <2>2, <1>2, Zenon
<1> HIDE DEF n, p, greater
<1>4. /\ a \in Seq(S) /\ b \in Seq(S)
      /\ Len(a) = n /\ Len(b) = Len(list) - n
      /\ \A i \in 1..n : a[i] = list[i]
      /\ \A i \in 1..Len(b) : b[i] = list[n + i]
      /\ ToSet(list) = ToSet(a) \cup ToSet(b)
      /\ IsInjective(list) => /\ IsInjective(a) /\ IsInjective(b)
                              /\ ToSet(a) \cap ToSet(b) = {}
      /\ Rising(list, value) => Rising(a, value) /\ Rising(b, value)
  BY <1>2, SplitFacts
<1> HIDE DEF a, b
<1>5. <<t>> \in Seq(S) /\ ToSet(<<t>>) = {t} /\ IsInjective(<<t>>)
  BY OneFacts
<1> DEFINE c == a \o <<t>>
<1>6. /\ c \in Seq(S) /\ ToSet(c) = ToSet(a) \cup {t}
      /\ IsInjective(list) /\ t \notin ToSet(list) => IsInjective(c)
  <2>1. t \notin ToSet(list) => ToSet(a) \cap ToSet(<<t>>) = {}
    BY <1>4, <1>5
  <2>2. /\ c \in Seq(S) /\ ToSet(c) = ToSet(a) \cup ToSet(<<t>>)
        /\ IsInjective(a) /\ IsInjective(<<t>>) /\ ToSet(a) \cap ToSet(<<t>>) = {}
             => IsInjective(c)
    <3> DEFINE one == <<t>>
    <3>1. one \in Seq(S)
      BY <1>5
    <3> HIDE DEF one
    <3>2. /\ a \o one \in Seq(S) /\ ToSet(a \o one) = ToSet(a) \cup ToSet(one)
          /\ IsInjective(a) /\ IsInjective(one) /\ ToSet(a) \cap ToSet(one) = {}
               => IsInjective(a \o one)
      BY <3>1, <1>4, ConcatFacts
    <3> QED BY <3>2 DEF one
  <2> HIDE DEF c
  <2> QED BY <2>1, <2>2, <1>4, <1>5, Zenon
<1> HIDE DEF c
<1>7. /\ c \o b \in Seq(S) /\ ToSet(c \o b) = ToSet(list) \cup {t}
      /\ IsInjective(list) /\ t \notin ToSet(list) => IsInjective(c \o b)
  <2>1. /\ c \o b \in Seq(S) /\ ToSet(c \o b) = ToSet(c) \cup ToSet(b)
        /\ IsInjective(c) /\ IsInjective(b) /\ ToSet(c) \cap ToSet(b) = {} => IsInjective(c \o b)
    BY <1>4, <1>6, ConcatFacts
  <2> QED BY <2>1, <1>4, <1>6
<1>8. ASSUME Rising(list, value) PROVE Rising(c \o b, value)
  <2>1. ASSUME NEW x \in ToSet(a) PROVE value[x] <= value[t]
    <3>0. PICK i \in 1..Len(a) : a[i] = x
      BY <1>4, InToSet
    <3>1. i \in 1..n /\ x = list[i]
      BY <3>0, <1>4
    <3>2. i \in DOMAIN list
      BY <3>1, <1>2, <1>1
    <3> QED BY <3>1, <3>2, <1>1
  <2>2. ASSUME NEW x \in ToSet(b) PROVE value[t] <= value[x]
    <3>1. PICK i \in 1..Len(b) : x = list[n + i]
      BY <1>4 DEF ToSet
    <3>2. p \in 1..Len(list) /\ n + i \in 1..Len(list) /\ p <= n + i
      BY <3>1, <1>2, <1>1, <1>4
    <3>3. value[list[p]] > value[t]
      BY <3>2, <1>1
    <3>4. list[p] \in S /\ list[n + i] \in S /\ DOMAIN list = 1..Len(list)
      BY <3>2
    <3>5. value[list[p]] <= value[list[n + i]]
      <4>1. CASE p = n + i
        BY <4>1, <3>4
      <4>2. CASE p < n + i
        BY <4>2, <3>2, <3>4, <1>8, Zenon DEF Rising
      <4> QED BY <4>1, <4>2, <3>2
    <3> QED BY <3>1, <3>3, <3>4, <3>5
  <2>3. Rising(<<t>>, value)
    BY DEF Rising
  <2>4. Rising(c, value)
    BY <2>1, <2>3, <1>4, <1>5, <1>8, ConcatRising, Zenon DEF c
  <2>5. \A x \in ToSet(c), y \in ToSet(b) : value[x] <= value[y]
    <3>1. ASSUME NEW x \in ToSet(c), NEW y \in ToSet(b) PROVE value[x] <= value[y]
      <4>1. value[x] <= value[t] /\ value[t] <= value[y]
        BY <1>6, <2>1, <2>2
      <4>2. x \in S /\ y \in S
        BY <1>4, <1>6, InToSet
      <4> QED BY <4>1, <4>2
    <3> QED BY <3>1
  <2> QED BY <2>4, <2>5, <1>4, <1>6, <1>8, ConcatRising
<1> QED BY <1>3, <1>7, <1>8, Zenon DEF c

-----------------------------------------------------------------------------
(* The scheduler. *)

Schedulers ==
  [current : Tasks, top : Priorities, ready : [Priorities -> Seq(Tasks)],
   pending : Seq(Tasks), delayed : Seq(Tasks), overflow : Seq(Tasks),
   blocked : SUBSET Tasks, waiting : [EventLists -> Seq(Tasks)],
   wake : [Tasks -> 0..portMAX_DELAY], event : [Tasks -> 0..configMAX_PRIORITIES],
   prio : [Tasks -> Priorities], tick : 0..portMAX_DELAY, missedTicks : Nat,
   missedYield : {0, 1}, suspended : {0, 1}]

(* Tidy and InTime except for the tasks of a set. *)
TidyBut(z, T) ==
  /\ \A p \in Priorities : \A t \in ToSet(z.ready[p]) \ T : z.prio[t] = p
  /\ \A p \in Priorities : IsInjective(z.ready[p])
  /\ IsInjective(z.delayed) /\ IsInjective(z.overflow)
  /\ LET early == ToSet(z.delayed)
         late  == ToSet(z.overflow)
     IN  /\ Ready(z) \cup early \cup late \cup z.blocked = Tasks
         /\ Ready(z) \cap (early \cup late \cup z.blocked) = {}
         /\ early \cap (late \cup z.blocked) = {}
         /\ late \cap z.blocked = {}

InTimeBut(z, T) ==
  /\ \A t \in ToSet(z.delayed) \ T : z.wake[t] > z.tick
  /\ \A t \in ToSet(z.overflow) \ T : z.wake[t] < z.tick
  /\ Rising(z.delayed, z.wake) /\ Rising(z.overflow, z.wake)

(* uxTopReadyPriority never is too low. *)
TopOK(z) == \A p \in Priorities : z.ready[p] # <<>> => p <= z.top

(* What moving tasks from list to list leaves alone. *)
SameRest(z, r) ==
  /\ r.current = z.current /\ r.pending = z.pending /\ r.waiting = z.waiting
  /\ r.event = z.event /\ r.prio = z.prio
  /\ r.tick = z.tick /\ r.missedTicks = z.missedTicks
  /\ r.missedYield = z.missedYield /\ r.suspended = z.suspended

(* With no exceptions the two weaker forms are the two that are meant. *)
LEMMA TidyParts ==
  ASSUME NEW z PROVE /\ Tidy(z) <=> TidyBut(z, {})
                     /\ InTime(z) <=> InTimeBut(z, {})
<1>1. Tidy(z) <=> TidyBut(z, {})
  BY DEF Tidy, TidyBut
<1>2. InTime(z) <=> InTimeBut(z, {})
  BY DEF InTime, InTimeBut, Rising
<1> QED BY <1>1, <1>2

(* The priorities are numbers. *)
LEMMA PriorityRange == Priorities = 0..4 /\ Priorities \subseteq Nat
  BY DEF Priorities, configMAX_PRIORITIES

(* The longest block time is one less than the modulus of the tick count. *)
LEMMA DelayRange == portMAX_DELAY \in Nat /\ portMAX_DELAY > 1 /\ portMAX_DELAY = TickModulus - 1
                    /\ TickModulus \in Nat
  BY TicksAssumption DEF portMAX_DELAY

(* The state r is z with the tasks of T in none of the lists. *)
Unlisted(z, T, r) ==
         /\ SameRest(z, r) /\ r.top = z.top
         /\ \A p \in Priorities :
              /\ ToSet(r.ready[p]) = ToSet(z.ready[p]) \ T
              /\ IsInjective(z.ready[p]) => IsInjective(r.ready[p])
         /\ ToSet(r.delayed) = ToSet(z.delayed) \ T
         /\ IsInjective(z.delayed) => IsInjective(r.delayed)
         /\ \A value : Rising(z.delayed, value) => Rising(r.delayed, value)
         /\ ToSet(r.overflow) = ToSet(z.overflow) \ T
         /\ IsInjective(z.overflow) => IsInjective(r.overflow)
         /\ \A value : Rising(z.overflow, value) => Rising(r.overflow, value)
         /\ r.blocked = z.blocked \ T
         /\ r.wake = [t \in Tasks |-> IF t \in T THEN 0 ELSE z.wake[t]]

(* vListRemove takes tasks out of the ready, delayed and suspended lists *)
(* and changes nothing else.                                             *)
LEMMA UnlistFacts ==
  ASSUME NEW z \in Schedulers, NEW T \in SUBSET Tasks, NEW r, r = Unlist(z, T)
  PROVE  r \in Schedulers /\ Unlisted(z, T, r)
<1>1. /\ r.ready = [p \in Priorities |-> Only(z.ready[p], Tasks \ T)]
      /\ r.delayed = Only(z.delayed, Tasks \ T)
      /\ r.overflow = Only(z.overflow, Tasks \ T)
      /\ r.blocked = z.blocked \ T
      /\ r.wake = [t \in Tasks |-> IF t \in T THEN 0 ELSE z.wake[t]]
      /\ SameRest(z, r) /\ r.top = z.top
  BY DEF Unlist, Schedulers, SameRest
<1>2. ASSUME NEW list \in Seq(Tasks)
      PROVE  /\ Only(list, Tasks \ T) \in Seq(Tasks)
             /\ ToSet(Only(list, Tasks \ T)) = ToSet(list) \ T
             /\ IsInjective(list) => IsInjective(Only(list, Tasks \ T))
             /\ \A value : Rising(list, value) => Rising(Only(list, Tasks \ T), value)
  <2>1. ToSet(list) \cap (Tasks \ T) = ToSet(list) \ T
    BY InToSet
  <2> QED BY <2>1, OnlyFacts
<1>3. /\ \A p \in Priorities : z.ready[p] \in Seq(Tasks)
      /\ z.delayed \in Seq(Tasks) /\ z.overflow \in Seq(Tasks)
      /\ z.wake \in [Tasks -> 0..portMAX_DELAY] /\ z.blocked \subseteq Tasks
  BY DEF Schedulers
<1>4. r \in Schedulers
  <2>1. /\ r.ready \in [Priorities -> Seq(Tasks)]
        /\ r.delayed \in Seq(Tasks) /\ r.overflow \in Seq(Tasks)
        /\ r.blocked \in SUBSET Tasks
    <3>1. \A p \in Priorities : Only(z.ready[p], Tasks \ T) \in Seq(Tasks)
      BY <1>2, <1>3, Zenon
    <3>2. r.ready \in [Priorities -> Seq(Tasks)]
      BY <3>1, <1>1, ZenonT(60)
    <3> QED BY <3>2, <1>1, <1>2, <1>3, ZenonT(60)
  <2>2. r.wake \in [Tasks -> 0..portMAX_DELAY]
    BY <1>1, <1>3, DelayRange
  <2>3. r = [z EXCEPT !.ready = r.ready, !.delayed = r.delayed, !.overflow = r.overflow,
                      !.blocked = r.blocked, !.wake = r.wake]
    BY <1>1 DEF Unlist, Schedulers
  <2> QED BY <2>1, <2>2, <2>3, ZenonT(60) DEF Schedulers
<1> QED BY <1>1, <1>2, <1>3, <1>4, ZenonT(60) DEF Unlisted

(* prvAddTaskToReadyQueue puts each task into the list of its priority *)
(* and keeps uxTopReadyPriority high enough.                           *)
LEMMA AddToReadyFacts ==
  ASSUME NEW z \in Schedulers, NEW list \in Seq(Tasks), NEW r, r = AddToReady(z, list)
  PROVE  /\ r \in Schedulers /\ SameRest(z, r)
         /\ r.delayed = z.delayed /\ r.overflow = z.overflow
         /\ r.blocked = z.blocked /\ r.wake = z.wake
         /\ \A p \in Priorities :
              /\ ToSet(r.ready[p]) = ToSet(z.ready[p]) \cup {t \in ToSet(list) : z.prio[t] = p}
              /\ IsInjective(list) /\ IsInjective(z.ready[p]) /\ ToSet(z.ready[p]) \cap ToSet(list) = {}
                   => IsInjective(r.ready[p])
         /\ TopOK(z) => TopOK(r)
<1> DEFINE Of(p) == Only(list, {t \in Tasks : z.prio[t] = p})
           tops == {z.top} \cup {z.prio[t] : t \in ToSet(list)}
<1>1. /\ r.ready = [p \in Priorities |-> z.ready[p] \o Of(p)]
      /\ r.top = Max(tops)
      /\ r.delayed = z.delayed /\ r.overflow = z.overflow
      /\ r.blocked = z.blocked /\ r.wake = z.wake
      /\ SameRest(z, r)
  BY DEF AddToReady, Schedulers, SameRest
<1>2. /\ \A p \in Priorities : z.ready[p] \in Seq(Tasks)
      /\ z.prio \in [Tasks -> Priorities] /\ z.top \in Priorities
      /\ ToSet(list) \subseteq Tasks
  BY InToSet DEF Schedulers
<1>3. r = [z EXCEPT !.ready = r.ready, !.top = r.top]
  BY <1>1 DEF AddToReady, Schedulers
<1>4. /\ r.top \in Priorities /\ r.top >= z.top
      /\ \A t \in ToSet(list) : r.top >= z.prio[t]
  <2>1. tops \in SUBSET (0..4) /\ tops # {} /\ z.top \in tops
    BY <1>2, PriorityRange, Zenon
  <2>2. \A t \in ToSet(list) : z.prio[t] \in tops
    OBVIOUS
  <2> HIDE DEF tops
  <2>3. Max(tops) \in tops /\ \A y \in tops : Max(tops) >= y
    BY <2>1, MaxFacts, Zenon
  <2> QED BY <1>1, <2>1, <2>2, <2>3, PriorityRange, Zenon
<1>5. ASSUME NEW p \in Priorities
      PROVE  /\ Of(p) \in Seq(Tasks)
             /\ ToSet(Of(p)) = {t \in ToSet(list) : z.prio[t] = p}
             /\ IsInjective(list) => IsInjective(Of(p))
  <2>1. ToSet(list) \cap {t \in Tasks : z.prio[t] = p} = {t \in ToSet(list) : z.prio[t] = p}
    BY <1>2
  <2> QED BY <2>1, OnlyFacts
<1> HIDE DEF Of, tops
<1>6. ASSUME NEW p \in Priorities
      PROVE  /\ r.ready[p] \in Seq(Tasks)
             /\ ToSet(r.ready[p]) = ToSet(z.ready[p]) \cup {t \in ToSet(list) : z.prio[t] = p}
             /\ IsInjective(list) /\ IsInjective(z.ready[p]) /\ ToSet(z.ready[p]) \cap ToSet(list) = {}
                   => IsInjective(r.ready[p])
  <2>1. r.ready[p] = z.ready[p] \o Of(p)
    BY <1>1
  <2>2. ToSet(Of(p)) \subseteq ToSet(list)
    BY <1>5
  <2>3. /\ z.ready[p] \o Of(p) \in Seq(Tasks)
        /\ ToSet(z.ready[p] \o Of(p)) = ToSet(z.ready[p]) \cup ToSet(Of(p))
        /\ IsInjective(z.ready[p]) /\ IsInjective(Of(p)) /\ ToSet(z.ready[p]) \cap ToSet(Of(p)) = {}
             => IsInjective(z.ready[p] \o Of(p))
    BY <1>2, <1>5, ConcatFacts
  <2> QED BY <2>1, <2>2, <2>3, <1>5
<1>7. r \in Schedulers
  <2>1. r.ready \in [Priorities -> Seq(Tasks)]
    BY <1>1, <1>6
  <2> QED BY <2>1, <1>3, <1>4, ZenonT(60) DEF Schedulers
<1>8. ASSUME TopOK(z) PROVE TopOK(r)
  <2> SUFFICES ASSUME NEW p \in Priorities, r.ready[p] # <<>> PROVE p <= r.top
    BY DEF TopOK
  <2>1. PICK t : t \in ToSet(r.ready[p])
    BY <1>6, InToSet
  <2>2. CASE t \in ToSet(z.ready[p])
    <3>1. z.ready[p] # <<>>
      BY <2>2, <1>2, InToSet
    <3> QED BY <3>1, <1>2, <1>4, <1>8, PriorityRange, SMTT(30) DEF TopOK
  <2>3. CASE t \in ToSet(list) /\ z.prio[t] = p
    BY <2>3, <1>4
  <2> QED BY <2>1, <2>2, <2>3, <1>6
<1> QED BY <1>1, <1>6, <1>7, <1>8

(* A ready task is in one of the ready lists. *)
LEMMA InReady ==
  ASSUME NEW z, NEW t PROVE t \in Ready(z) <=> \E p \in Priorities : t \in ToSet(z.ready[p])
BY DEF Ready

(* Tasks that are wherever they are become ready at their priority. *)
Moved(z, list, r) ==
         /\ SameRest(z, r)
         /\ Ready(r) = Ready(z) \cup ToSet(list)
         /\ ToSet(r.delayed) = ToSet(z.delayed) \ ToSet(list)
         /\ ToSet(r.overflow) = ToSet(z.overflow) \ ToSet(list)
         /\ r.blocked = z.blocked \ ToSet(list)
         /\ r.wake = [t \in Tasks |-> IF t \in ToSet(list) THEN 0 ELSE z.wake[t]]
         /\ TopOK(z) => TopOK(r)
         /\ TidyBut(z, ToSet(list)) /\ IsInjective(list) => Tidy(r)
         /\ InTimeBut(z, ToSet(list)) => InTime(r)

(* The two together, as every wake-up does them, leave the tasks ready, *)
(* in the right list and in no other.                                   *)
LEMMA MoveToReadyFacts ==
  ASSUME NEW z \in Schedulers, NEW list \in Seq(Tasks), NEW r, r = MoveToReady(z, list)
  PROVE  r \in Schedulers /\ Moved(z, list, r)
<1> DEFINE T == ToSet(list)
<1>1. T \in SUBSET Tasks
  BY InToSet
<1>0. PICK u : u = Unlist(z, T)
  OBVIOUS
<1> HIDE DEF T
<1>2. /\ u \in Schedulers /\ SameRest(z, u) /\ u.top = z.top
      /\ \A p \in Priorities :
           /\ ToSet(u.ready[p]) = ToSet(z.ready[p]) \ T
           /\ IsInjective(z.ready[p]) => IsInjective(u.ready[p])
      /\ ToSet(u.delayed) = ToSet(z.delayed) \ T
      /\ IsInjective(z.delayed) => IsInjective(u.delayed)
      /\ \A value : Rising(z.delayed, value) => Rising(u.delayed, value)
      /\ ToSet(u.overflow) = ToSet(z.overflow) \ T
      /\ IsInjective(z.overflow) => IsInjective(u.overflow)
      /\ \A value : Rising(z.overflow, value) => Rising(u.overflow, value)
      /\ u.blocked = z.blocked \ T
      /\ u.wake = [t \in Tasks |-> IF t \in T THEN 0 ELSE z.wake[t]]
  <2>1. u \in Schedulers /\ Unlisted(z, T, u)
    BY <1>0, <1>1, UnlistFacts
  <2> QED BY <2>1 DEF Unlisted
<1>3. r = AddToReady(u, list)
  BY <1>0 DEF MoveToReady, T
<1>4. /\ r \in Schedulers /\ SameRest(u, r)
      /\ r.delayed = u.delayed /\ r.overflow = u.overflow
      /\ r.blocked = u.blocked /\ r.wake = u.wake
      /\ \A p \in Priorities :
              /\ ToSet(r.ready[p]) = ToSet(u.ready[p]) \cup {t \in T : u.prio[t] = p}
              /\ IsInjective(list) /\ IsInjective(u.ready[p]) /\ ToSet(u.ready[p]) \cap T = {}
                   => IsInjective(r.ready[p])
      /\ TopOK(u) => TopOK(r)
  BY <1>2, <1>3, AddToReadyFacts, Zenon DEF T
<1>5. SameRest(z, r)
  BY <1>2, <1>4 DEF SameRest
<1>6. \A p \in Priorities : ToSet(r.ready[p]) = (ToSet(z.ready[p]) \ T) \cup {t \in T : z.prio[t] = p}
  BY <1>2, <1>4 DEF SameRest
<1>7. Ready(r) = Ready(z) \cup T
  <2>1. \A t \in T : z.prio[t] \in Priorities
    BY <1>1 DEF Schedulers
  <2>2. ASSUME NEW t PROVE t \in Ready(r) <=> t \in Ready(z) \cup T
    BY <1>6, <2>1, InReady
  <2> QED BY <2>2
<1>8. ASSUME TopOK(z) PROVE TopOK(r)
  <2>1. TopOK(u)
    <3> SUFFICES ASSUME NEW p \in Priorities, u.ready[p] # <<>> PROVE p <= u.top
      BY DEF TopOK
    <3>1. u.ready[p] \in Seq(Tasks) /\ z.ready[p] \in Seq(Tasks)
      BY <1>2 DEF Schedulers
    <3>2. z.ready[p] # <<>>
      BY <3>1, <1>2, InToSet
    <3> QED BY <3>2, <1>8, <1>2 DEF TopOK
  <2> QED BY <2>1, <1>4
<1>9. ASSUME TidyBut(z, T), IsInjective(list) PROVE Tidy(r)
  <2>1. \A p \in Priorities : \A t \in ToSet(r.ready[p]) : r.prio[t] = p
    BY <1>5, <1>6, <1>9 DEF TidyBut, SameRest
  <2>2. \A p \in Priorities : IsInjective(r.ready[p])
    <3> SUFFICES ASSUME NEW p \in Priorities PROVE IsInjective(r.ready[p])
      OBVIOUS
    <3>1. ToSet(u.ready[p]) \cap T = {} /\ IsInjective(u.ready[p])
      BY <1>2, <1>9 DEF TidyBut
    <3> QED BY <3>1, <1>4, <1>9
  <2>3. IsInjective(r.delayed) /\ IsInjective(r.overflow)
    BY <1>2, <1>4, <1>9 DEF TidyBut
  <2> DEFINE R == Ready(z)
             E == ToSet(z.delayed)
             O == ToSet(z.overflow)
             B == z.blocked
  <2>4. /\ R \cup E \cup O \cup B = Tasks /\ R \cap (E \cup O \cup B) = {}
        /\ E \cap (O \cup B) = {} /\ O \cap B = {}
    BY <1>9 DEF TidyBut
  <2>5. /\ Ready(r) = R \cup T /\ ToSet(r.delayed) = E \ T
        /\ ToSet(r.overflow) = O \ T /\ r.blocked = B \ T
    BY <1>2, <1>4, <1>7
  <2> HIDE DEF R, E, O, B
  <2>6. /\ (R \cup T) \cup (E \ T) \cup (O \ T) \cup (B \ T) = Tasks
        /\ (R \cup T) \cap ((E \ T) \cup (O \ T) \cup (B \ T)) = {}
        /\ (E \ T) \cap ((O \ T) \cup (B \ T)) = {} /\ (O \ T) \cap (B \ T) = {}
    BY <2>4, <1>1
  <2> QED BY <2>1, <2>2, <2>3, <2>5, <2>6 DEF Tidy
<1>10. ASSUME InTimeBut(z, T) PROVE InTime(r)
  <2>1. Rising(r.delayed, r.wake) /\ Rising(r.overflow, r.wake)
    <3>1. Rising(r.delayed, z.wake) /\ Rising(r.overflow, z.wake)
      BY <1>2, <1>4, <1>10 DEF InTimeBut
    <3>2. \A t \in ToSet(r.delayed) \cup ToSet(r.overflow) : t \in Tasks /\ t \notin T
      BY <1>2, <1>4, InToSet, ZenonT(60) DEF Schedulers
    <3>3. \A t \in ToSet(r.delayed) \cup ToSet(r.overflow) : r.wake[t] = z.wake[t]
      BY <3>2, <1>2, <1>4
    <3>4. /\ \A i \in DOMAIN r.delayed : r.delayed[i] \in ToSet(r.delayed)
          /\ \A i \in DOMAIN r.overflow : r.overflow[i] \in ToSet(r.overflow)
      BY DEF ToSet
    <3> QED BY <3>1, <3>3, <3>4 DEF Rising
  <2>2. /\ \A t \in ToSet(r.delayed) : r.wake[t] > r.tick
        /\ \A t \in ToSet(r.overflow) : r.wake[t] < r.tick
    <3>1. \A t \in ToSet(r.delayed) \cup ToSet(r.overflow) : t \in Tasks /\ t \notin T
      BY <1>2, <1>4, InToSet, ZenonT(60) DEF Schedulers
    <3> QED BY <3>1, <1>2, <1>4, <1>5, <1>10 DEF InTimeBut, SameRest
  <2>3. InTimeBut(r, {})
    BY <2>1, <2>2 DEF InTimeBut
  <2> QED BY <2>3, TidyParts
<1> QED BY <1>2, <1>4, <1>5, <1>7, <1>8, <1>9, <1>10 DEF T, Moved

(* Taking tasks out of the ready lists leaves uxTopReadyPriority high *)
(* enough.                                                            *)
LEMMA TopOKFacts ==
  ASSUME NEW z \in Schedulers, NEW r \in Schedulers, TopOK(z), r.top = z.top,
         \A p \in Priorities : ToSet(r.ready[p]) \subseteq ToSet(z.ready[p])
  PROVE  TopOK(r)
<1> SUFFICES ASSUME NEW p \in Priorities, r.ready[p] # <<>> PROVE z.ready[p] # <<>>
  BY DEF TopOK
<1>1. r.ready[p] \in Seq(Tasks) /\ z.ready[p] \in Seq(Tasks)
  BY DEF Schedulers
<1>2. ToSet(r.ready[p]) # {}
  <2> DEFINE list == r.ready[p]
  <2>1. list \in Seq(Tasks) /\ list # <<>>
    BY <1>1
  <2> HIDE DEF list
  <2>2. ToSet(list) # {}
    BY <2>1, InToSet
  <2> QED BY <2>2 DEF list
<1>3. ToSet(z.ready[p]) # {}
  BY <1>2, Zenon
<1> QED BY <1>1, <1>3, InToSet

(* What a switch of tasks leaves alone. *)
SameLists(z, r) ==
  /\ Ready(r) = Ready(z) /\ r.pending = z.pending /\ r.waiting = z.waiting
  /\ r.delayed = z.delayed /\ r.overflow = z.overflow /\ r.blocked = z.blocked
  /\ r.wake = z.wake /\ r.event = z.event /\ r.prio = z.prio
  /\ r.tick = z.tick /\ r.missedTicks = z.missedTicks /\ r.suspended = z.suspended

Switched(z, r) ==
  /\ SameLists(z, r)
  /\ Tidy(r) /\ TopOK(r)
  /\ z.suspended = 1 => r.current = z.current /\ r.missedYield = 1
  /\ z.suspended = 0 => /\ r.current \in Ready(z)
                        /\ \A t \in Ready(z) : z.prio[t] <= z.prio[r.current]
                        /\ r.missedYield = z.missedYield

(* vTaskSwitchContext picks a ready task that no ready task outranks and *)
(* moves nothing from list to list; with the scheduler suspended it only *)
(* notes that it was called.                                             *)
LEMMA SwitchFacts ==
  ASSUME NEW z \in Schedulers, Tidy(z), TopOK(z), Ready(z) # {},
         NEW r, r = vTaskSwitchContext(z)
  PROVE  r \in Schedulers /\ Switched(z, r)
<1>1. CASE z.suspended = 1
  <2>1. r = [z EXCEPT !.missedYield = 1]
    BY <1>1 DEF vTaskSwitchContext
  <2>2. r \in Schedulers /\ r.ready = z.ready /\ r.top = z.top /\ SameLists(z, r)
        /\ r.current = z.current /\ r.missedYield = 1
    <3>1. /\ r.ready = z.ready /\ r.top = z.top /\ r.pending = z.pending
          /\ r.waiting = z.waiting /\ r.delayed = z.delayed /\ r.overflow = z.overflow
          /\ r.blocked = z.blocked /\ r.wake = z.wake /\ r.event = z.event
          /\ r.prio = z.prio /\ r.tick = z.tick /\ r.missedTicks = z.missedTicks
          /\ r.suspended = z.suspended /\ r.current = z.current /\ r.missedYield = 1
      BY <2>1 DEF Schedulers
    <3>2. Ready(r) = Ready(z)
      BY <3>1 DEF Ready
    <3>3. r \in Schedulers
      BY <2>1, ZenonT(60) DEF Schedulers
    <3> QED BY <3>1, <3>2, <3>3 DEF SameLists
  <2>3. Tidy(r) /\ TopOK(r)
    BY <2>2 DEF Tidy, TopOK, SameLists
  <2> QED BY <1>1, <2>2, <2>3 DEF Switched
<1>2. CASE z.suspended # 1
  <2> DEFINE tops == {n \in 0..z.top : z.ready[n] # <<>>}
             p == Max(tops)
             list == z.ready[p]
             turned == Append(Tail(list), Head(list))
  <2>1. z.top \in Priorities /\ z.ready \in [Priorities -> Seq(Tasks)]
    BY DEF Schedulers
  <2>2. /\ p \in Priorities /\ list # <<>>
        /\ \A n \in Priorities : z.ready[n] # <<>> => n <= p
    <3>1. PICK n \in Priorities : ToSet(z.ready[n]) # {}
      BY InReady
    <3>2. z.ready[n] # <<>>
      BY <3>1, <2>1, InToSet
    <3>3. n \in tops
      BY <3>2, <2>1, PriorityRange, SMTT(30) DEF TopOK
    <3>4. tops \in SUBSET (0..4)
      BY <2>1, PriorityRange
    <3>5. p \in tops /\ \A y \in tops : p >= y
      <4> HIDE DEF tops
      <4> QED BY <3>3, <3>4, MaxFacts
    <3>6. ASSUME NEW m \in Priorities, z.ready[m] # <<>> PROVE m <= p
      <4>1. m \in tops
        BY <3>6, <2>1, PriorityRange DEF TopOK
      <4> HIDE DEF tops, p
      <4> QED BY <4>1, <3>4, <3>5, PriorityRange
    <3> HIDE DEF p
    <3> QED BY <3>4, <3>5, <3>6, PriorityRange
  <2>3. r = [z EXCEPT !.top = p, !.current = Head(list), !.ready[p] = turned]
    BY <1>2 DEF vTaskSwitchContext
  <2> HIDE DEF p
  <2>4. list \in Seq(Tasks) /\ list # <<>>
    BY <2>1, <2>2
  <2> HIDE DEF list
  <2>5. /\ Head(list) \in Tasks /\ Tail(list) \in Seq(Tasks)
        /\ ToSet(list) = {Head(list)} \cup ToSet(Tail(list))
        /\ IsInjective(list) => IsInjective(Tail(list)) /\ Head(list) \notin ToSet(Tail(list))
    BY <2>4, TailFacts
  <2>6. /\ turned \in Seq(Tasks) /\ ToSet(turned) = ToSet(list)
        /\ IsInjective(list) => IsInjective(turned)
    <3> DEFINE tail == Tail(list)
               head == Head(list)
    <3>1. head \in Tasks /\ tail \in Seq(Tasks)
      BY <2>5
    <3>2. ToSet(list) = {head} \cup ToSet(tail)
      BY <2>5
    <3>3. IsInjective(list) => IsInjective(tail) /\ head \notin ToSet(tail)
      BY <2>5
    <3> HIDE DEF tail, head
    <3>4. /\ Append(tail, head) \in Seq(Tasks)
          /\ ToSet(Append(tail, head)) = ToSet(tail) \cup {head}
          /\ IsInjective(tail) /\ head \notin ToSet(tail) => IsInjective(Append(tail, head))
      BY <3>1, AppendFacts
    <3>5. turned = Append(tail, head)
      BY DEF tail, head
    <3> QED BY <3>2, <3>3, <3>4, <3>5, Zenon
  <2> HIDE DEF turned
  <2>7. /\ r.ready = [z.ready EXCEPT ![p] = turned]
        /\ r.current = Head(list) /\ r.top = p /\ r.missedYield = z.missedYield
    BY <2>2, <2>3 DEF Schedulers
  <2>8. \A n \in Priorities : r.ready[n] \in Seq(Tasks) /\ ToSet(r.ready[n]) = ToSet(z.ready[n])
    BY <2>1, <2>2, <2>6, <2>7 DEF list
  <2>9. Ready(r) = Ready(z)
    BY <2>8 DEF Ready
  <2>10. SameLists(z, r)
    BY <2>2, <2>3, <2>9 DEF SameLists, Schedulers
  <2>11. r \in Schedulers
    <3>1. r.ready \in [Priorities -> Seq(Tasks)]
      BY <2>1, <2>2, <2>6, <2>7
    <3>2. r = [z EXCEPT !.top = p, !.current = Head(list), !.ready = r.ready]
      BY <2>2, <2>3, <2>7 DEF Schedulers
    <3> QED BY <2>2, <2>5, <3>1, <3>2, ZenonT(60) DEF Schedulers
  <2>12. Tidy(r)
    <3>1. \A n \in Priorities : \A t \in ToSet(r.ready[n]) : r.prio[t] = n
      BY <2>8, <2>10 DEF Tidy, SameLists
    <3>2. \A n \in Priorities : IsInjective(r.ready[n])
      <4>1. IsInjective(turned)
        BY <2>2, <2>6 DEF Tidy, list
      <4> QED BY <2>1, <2>7, <4>1 DEF Tidy
    <3> QED BY <3>1, <3>2, <2>10 DEF Tidy, SameLists
  <2>13. TopOK(r)
    <3> SUFFICES ASSUME NEW n \in Priorities, r.ready[n] # <<>> PROVE n <= p
      BY <2>7 DEF TopOK
    <3>1. z.ready[n] # <<>>
      BY <2>1, <2>8, InToSet
    <3> QED BY <3>1, <2>2
  <2>14. ASSUME NEW t \in Ready(z) PROVE z.prio[t] <= p
    <3>1. PICK n \in Priorities : t \in ToSet(z.ready[n])
      BY InReady
    <3>2. z.prio[t] = n /\ z.ready[n] # <<>>
      BY <2>1, <3>1, InToSet DEF Tidy
    <3> QED BY <3>2, <2>2
  <2>15. Head(list) \in Ready(z) /\ z.prio[Head(list)] = p
    <3>1. Head(list) \in ToSet(z.ready[p])
      BY <2>5 DEF list
    <3> QED BY <2>2, <3>1, InReady DEF Tidy
  <2> QED BY <1>2, <2>7, <2>10, <2>11, <2>12, <2>13, <2>14, <2>15 DEF Switched
<1> QED BY <1>1, <1>2

(* The running task sleeps. *)
Delayed(z, ticks, r) ==
  LET t == z.current
      wake == (z.tick + ticks) % TickModulus
  IN  /\ SameRest(z, r)
      /\ Ready(r) = Ready(z) \ {t}
      /\ r.blocked = z.blocked \ {t}
      /\ ToSet(r.delayed) = (ToSet(z.delayed) \ {t}) \cup (IF wake < z.tick THEN {} ELSE {t})
      /\ ToSet(r.overflow) = (ToSet(z.overflow) \ {t}) \cup (IF wake < z.tick THEN {t} ELSE {})
      /\ r.wake = [z.wake EXCEPT ![t] = wake]
      /\ TopOK(z) => TopOK(r)
      /\ Tidy(z) => Tidy(r)
      /\ InTime(z) /\ ticks > 0 => InTime(r)

(* A task that goes to sleep leaves the ready lists for the delayed list *)
(* its wake time belongs to.                                             *)
LEMMA DelayFacts ==
  ASSUME NEW z \in Schedulers, NEW ticks \in 0..portMAX_DELAY, NEW r, r = Delay(z, ticks)
  PROVE  r \in Schedulers /\ Delayed(z, ticks, r)
<1> DEFINE t == z.current
           wake == (z.tick + ticks) % TickModulus
<1>1. t \in Tasks /\ {t} \in SUBSET Tasks /\ z.tick \in 0..portMAX_DELAY
  BY DEF Schedulers
<1>2. wake \in 0..portMAX_DELAY /\ wake = IF z.tick + ticks < TickModulus THEN z.tick + ticks
                                          ELSE z.tick + ticks - TickModulus
  BY SMTT(30), <1>1, DelayRange
<1> HIDE DEF wake
<1>3. PICK u : u = Unlist(z, {t})
  OBVIOUS
<1>4. u \in Schedulers /\ Unlisted(z, {t}, u)
  BY <1>1, <1>3, UnlistFacts
<1> DEFINE w == [u EXCEPT !.wake[t] = wake]
<1>5. /\ w \in Schedulers /\ w.wake = [z.wake EXCEPT ![t] = wake]
      /\ w.delayed = u.delayed /\ w.overflow = u.overflow
  <2>1. u.wake \in [Tasks -> 0..portMAX_DELAY] /\ z.wake \in [Tasks -> 0..portMAX_DELAY]
    BY <1>4, Zenon DEF Schedulers
  <2>2. w.wake = [u.wake EXCEPT ![t] = wake] /\ w.delayed = u.delayed /\ w.overflow = u.overflow
    BY <1>4 DEF Schedulers
  <2>3. [u.wake EXCEPT ![t] = wake] = [z.wake EXCEPT ![t] = wake]
    BY <2>1, <1>1, <1>4 DEF Unlisted
  <2>4. w.wake \in [Tasks -> 0..portMAX_DELAY]
    BY <2>1, <2>2, <1>1, <1>2
  <2>5. w = [u EXCEPT !.wake = w.wake]
    BY <1>4 DEF Schedulers
  <2> HIDE DEF w
  <2>6. w \in Schedulers
    BY <2>4, <2>5, <1>4, Zenon DEF Schedulers
  <2> QED BY <2>2, <2>3, <2>6
<1>6. r = IF wake < z.tick THEN [w EXCEPT !.overflow = vListInsert(w.overflow, w.wake, t)]
          ELSE [w EXCEPT !.delayed = vListInsert(w.delayed, w.wake, t)]
  <2>1. w.wake[t] = wake
    BY <1>5, <1>1 DEF Schedulers
  <2> QED BY <2>1, <1>3 DEF Delay, wake, Schedulers
<1>7. SameRest(z, w) /\ w.ready = u.ready /\ w.top = z.top /\ w.blocked = z.blocked \ {t}
  BY <1>4, Zenon DEF Unlisted, SameRest, Schedulers
<1> HIDE DEF w
<1>8. /\ w.delayed \in Seq(Tasks) /\ w.overflow \in Seq(Tasks)
      /\ w.wake \in [Tasks -> 0..portMAX_DELAY]
      /\ \A x \in Tasks : w.wake[x] \in Int
  <2>1. /\ w.delayed \in Seq(Tasks) /\ w.overflow \in Seq(Tasks)
        /\ w.wake \in [Tasks -> 0..portMAX_DELAY]
    BY <1>5, Zenon DEF Schedulers
  <2> QED BY <2>1, DelayRange
<1>9. /\ ToSet(w.delayed) = ToSet(z.delayed) \ {t} /\ ToSet(w.overflow) = ToSet(z.overflow) \ {t}
      /\ IsInjective(z.delayed) => IsInjective(w.delayed)
      /\ IsInjective(z.overflow) => IsInjective(w.overflow)
  BY <1>4, <1>5 DEF Unlisted
<1>10. ASSUME InTime(z)
       PROVE  /\ Rising(w.delayed, w.wake) /\ Rising(w.overflow, w.wake)
              /\ \A x \in ToSet(w.delayed) : w.wake[x] > z.tick
              /\ \A x \in ToSet(w.overflow) : w.wake[x] < z.tick
  <2>1. InTimeBut(z, {})
    BY <1>10, TidyParts
  <2>2. Rising(w.delayed, z.wake) /\ Rising(w.overflow, z.wake)
    BY <2>1, <1>4, <1>5 DEF InTimeBut, Unlisted
  <2>3. \A x \in ToSet(w.delayed) \cup ToSet(w.overflow) : x \in Tasks /\ w.wake[x] = z.wake[x]
    <3>1. \A x \in ToSet(w.delayed) \cup ToSet(w.overflow) : x \in Tasks /\ x # t
      BY <1>8, <1>9, InToSet
    <3> QED BY <3>1, <1>5, Zenon DEF Schedulers
  <2>4. /\ \A i \in DOMAIN w.delayed : w.delayed[i] \in ToSet(w.delayed)
        /\ \A i \in DOMAIN w.overflow : w.overflow[i] \in ToSet(w.overflow)
    BY DEF ToSet
  <2>5. Rising(w.delayed, w.wake) /\ Rising(w.overflow, w.wake)
    BY <2>2, <2>3, <2>4 DEF Rising
  <2> QED BY <2>1, <2>3, <2>5, <1>9 DEF InTimeBut
<1>11. \A p \in Priorities : ToSet(u.ready[p]) = ToSet(z.ready[p]) \ {t} /\
                             (IsInjective(z.ready[p]) => IsInjective(u.ready[p]))
  BY <1>4 DEF Unlisted
<1>12. CASE wake < z.tick
  <2> DEFINE new == vListInsert(w.overflow, w.wake, t)
  <2>1. /\ new \in Seq(Tasks) /\ ToSet(new) = ToSet(w.overflow) \cup {t}
        /\ IsInjective(w.overflow) /\ t \notin ToSet(w.overflow) => IsInjective(new)
        /\ Rising(w.overflow, w.wake) => Rising(new, w.wake)
    BY <1>1, <1>8, InsertFacts
  <2>2. r = [w EXCEPT !.overflow = new]
    BY <1>6, <1>12
  <2> HIDE DEF new
  <2>3. r \in Schedulers
    BY <2>1, <2>2, <1>5, ZenonT(60) DEF Schedulers
  <2>4. /\ SameRest(z, r) /\ r.ready = u.ready /\ r.top = z.top /\ r.blocked = z.blocked \ {t}
        /\ r.delayed = w.delayed /\ r.overflow = new /\ r.wake = w.wake
    BY <2>2, <1>5, <1>7, SMTT(30) DEF Schedulers, SameRest
  <2>5. Ready(r) = Ready(z) \ {t}
    <3> SUFFICES ASSUME NEW x PROVE x \in Ready(r) <=> x \in Ready(z) \ {t}
      OBVIOUS
    <3> QED BY <2>4, <1>11, InReady
  <2>6. ASSUME TopOK(z) PROVE TopOK(r)
    <3>1. \A p \in Priorities : ToSet(r.ready[p]) \subseteq ToSet(z.ready[p])
      BY <2>4, <1>11
    <3> QED BY <3>1, <2>3, <2>4, <2>6, TopOKFacts
  <2>7. ASSUME Tidy(z) PROVE Tidy(r)
    <3>1. \A p \in Priorities : \A x \in ToSet(r.ready[p]) : r.prio[x] = p
      BY <2>4, <2>7, <1>11 DEF Tidy, SameRest
    <3>2. \A p \in Priorities : IsInjective(r.ready[p])
      BY <2>4, <2>7, <1>11 DEF Tidy
    <3>3. IsInjective(r.delayed) /\ IsInjective(r.overflow)
      BY <2>1, <2>4, <2>7, <1>9 DEF Tidy
    <3>4. ToSet(r.delayed) = ToSet(z.delayed) \ {t} /\ ToSet(r.overflow) = (ToSet(z.overflow) \ {t}) \cup {t}
      BY <2>1, <2>4, <1>9
    <3> QED BY <2>4, <2>5, <2>7, <3>1, <3>2, <3>3, <3>4, <1>1 DEF Tidy
  <2>8. ASSUME InTime(z), ticks > 0 PROVE InTime(r)
    <3>1. w.wake[t] = wake
      BY <1>1, <1>5 DEF Schedulers
    <3>2. InTimeBut(r, {})
      BY <3>1, <2>1, <2>4, <2>8, <1>10, <1>12 DEF InTimeBut, SameRest
    <3> QED BY <3>2, TidyParts
  <2>9. /\ ToSet(r.delayed) = (ToSet(z.delayed) \ {t}) \cup (IF wake < z.tick THEN {} ELSE {t})
        /\ ToSet(r.overflow) = (ToSet(z.overflow) \ {t}) \cup (IF wake < z.tick THEN {t} ELSE {})
    BY <1>9, <1>12, <2>1, <2>4
  <2> QED BY <2>3, <2>4, <2>5, <2>6, <2>7, <2>8, <2>9, <1>5 DEF Delayed, wake
<1>13. CASE ~(wake < z.tick)
  <2> DEFINE new == vListInsert(w.delayed, w.wake, t)
  <2>1. /\ new \in Seq(Tasks) /\ ToSet(new) = ToSet(w.delayed) \cup {t}
        /\ IsInjective(w.delayed) /\ t \notin ToSet(w.delayed) => IsInjective(new)
        /\ Rising(w.delayed, w.wake) => Rising(new, w.wake)
    BY <1>1, <1>8, InsertFacts, SMTT(30)
  <2>2. r = [w EXCEPT !.delayed = new]
    BY <1>6, <1>13
  <2> HIDE DEF new
  <2>3. r \in Schedulers
    BY <2>1, <2>2, <1>5, ZenonT(60) DEF Schedulers
  <2>4. /\ SameRest(z, r) /\ r.ready = u.ready /\ r.top = z.top /\ r.blocked = z.blocked \ {t}
        /\ r.overflow = w.overflow /\ r.delayed = new /\ r.wake = w.wake
    BY <2>2, <1>5, <1>7, SMTT(30) DEF Schedulers, SameRest
  <2>5. Ready(r) = Ready(z) \ {t}
    <3> SUFFICES ASSUME NEW x PROVE x \in Ready(r) <=> x \in Ready(z) \ {t}
      OBVIOUS
    <3> QED BY <2>4, <1>11, InReady
  <2>6. ASSUME TopOK(z) PROVE TopOK(r)
    <3>1. \A p \in Priorities : ToSet(r.ready[p]) \subseteq ToSet(z.ready[p])
      BY <2>4, <1>11
    <3> QED BY <3>1, <2>3, <2>4, <2>6, TopOKFacts
  <2>7. ASSUME Tidy(z) PROVE Tidy(r)
    <3>1. \A p \in Priorities : \A x \in ToSet(r.ready[p]) : r.prio[x] = p
      BY <2>4, <2>7, <1>11 DEF Tidy, SameRest
    <3>2. \A p \in Priorities : IsInjective(r.ready[p])
      BY <2>4, <2>7, <1>11 DEF Tidy
    <3>3. IsInjective(r.delayed) /\ IsInjective(r.overflow)
      BY <2>1, <2>4, <2>7, <1>9 DEF Tidy
    <3>4. ToSet(r.overflow) = ToSet(z.overflow) \ {t} /\ ToSet(r.delayed) = (ToSet(z.delayed) \ {t}) \cup {t}
      BY <2>1, <2>4, <1>9
    <3> QED BY <2>4, <2>5, <2>7, <3>1, <3>2, <3>3, <3>4, <1>1 DEF Tidy
  <2>8. ASSUME InTime(z), ticks > 0 PROVE InTime(r)
    <3>1. w.wake[t] = wake
      BY <1>1, <1>5 DEF Schedulers
    <3>2. wake > z.tick
      BY <1>1, <1>2, <1>13, <2>8, DelayRange
    <3>3. InTimeBut(r, {})
      BY <3>1, <3>2, <2>1, <2>4, <2>8, <1>10 DEF InTimeBut, SameRest
    <3> QED BY <3>3, TidyParts
  <2>9. /\ ToSet(r.delayed) = (ToSet(z.delayed) \ {t}) \cup (IF wake < z.tick THEN {} ELSE {t})
        /\ ToSet(r.overflow) = (ToSet(z.overflow) \ {t}) \cup (IF wake < z.tick THEN {t} ELSE {})
    BY <1>9, <1>13, <2>1, <2>4
  <2> QED BY <2>3, <2>4, <2>5, <2>6, <2>7, <2>8, <2>9, <1>5 DEF Delayed, wake
<1> QED BY <1>12, <1>13

(* Fields that no operation on the lists touches. *)
SameState(z, r) ==
  /\ r.current = z.current /\ r.event = z.event /\ r.prio = z.prio
  /\ r.missedTicks = z.missedTicks /\ r.missedYield = z.missedYield
  /\ r.suspended = z.suspended

Placed(z, l, ticks, r) ==
  LET t == z.current
      wake == (z.tick + ticks) % TickModulus
  IN  /\ SameState(z, r) /\ r.tick = z.tick /\ r.pending = z.pending
      /\ r.waiting = [z.waiting EXCEPT ![l] = vListInsert(@, z.event, t)]
      /\ Ready(r) = Ready(z) \ {t}
      /\ ticks = portMAX_DELAY =>
           /\ r.blocked = z.blocked \cup {t}
           /\ ToSet(r.delayed) = ToSet(z.delayed) \ {t}
           /\ ToSet(r.overflow) = ToSet(z.overflow) \ {t}
           /\ r.wake = [z.wake EXCEPT ![t] = 0]
      /\ ticks # portMAX_DELAY =>
           /\ r.blocked = z.blocked \ {t}
           /\ ToSet(r.delayed) = (ToSet(z.delayed) \ {t}) \cup (IF wake < z.tick THEN {} ELSE {t})
           /\ ToSet(r.overflow) = (ToSet(z.overflow) \ {t}) \cup (IF wake < z.tick THEN {t} ELSE {})
           /\ r.wake = [z.wake EXCEPT ![t] = wake]
      /\ TopOK(z) => TopOK(r)
      /\ Tidy(z) => Tidy(r)
      /\ InTime(z) /\ ticks > 0 => InTime(r)

(* Only waiting differs. *)
LEMMA WaitingOnly ==
  ASSUME NEW z \in Schedulers, NEW w \in [EventLists -> Seq(Tasks)], NEW u,
         u = [z EXCEPT !.waiting = w]
  PROVE  /\ u \in Schedulers
         /\ u.waiting = w /\ SameState(z, u) /\ u.tick = z.tick /\ u.pending = z.pending
         /\ u.ready = z.ready /\ Ready(u) = Ready(z) /\ u.top = z.top
         /\ u.delayed = z.delayed /\ u.overflow = z.overflow
         /\ u.blocked = z.blocked /\ u.wake = z.wake
         /\ TopOK(z) => TopOK(u)
         /\ \A T : TidyBut(z, T) => TidyBut(u, T)
         /\ \A T : InTimeBut(z, T) => InTimeBut(u, T)
<1>1. /\ u.waiting = w /\ u.tick = z.tick /\ u.pending = z.pending
      /\ u.ready = z.ready /\ u.top = z.top
      /\ u.delayed = z.delayed /\ u.overflow = z.overflow
      /\ u.blocked = z.blocked /\ u.wake = z.wake
      /\ u.current = z.current /\ u.event = z.event /\ u.prio = z.prio
      /\ u.missedTicks = z.missedTicks /\ u.missedYield = z.missedYield
      /\ u.suspended = z.suspended
  BY DEF Schedulers
<1>2. u \in Schedulers
  BY Zenon DEF Schedulers
<1>3. Ready(u) = Ready(z)
  BY <1>1 DEF Ready
<1>4. TopOK(z) => TopOK(u)
  BY <1>1 DEF TopOK
<1>5. \A T : TidyBut(z, T) => TidyBut(u, T)
  BY <1>1, <1>3, SMTT(30) DEF TidyBut
<1>6. \A T : InTimeBut(z, T) => InTimeBut(u, T)
  BY <1>1 DEF InTimeBut
<1> QED BY <1>1, <1>2, <1>3, <1>4, <1>5, <1>6, Zenon DEF SameState

(* vTaskPlaceOnEventList: the running task is in the event list, in *)
(* order, and asleep or suspended.                                  *)
LEMMA PlaceFacts ==
  ASSUME NEW z \in Schedulers, NEW l \in EventLists, NEW ticks \in 0..portMAX_DELAY,
         NEW r, r = vTaskPlaceOnEventList(z, l, ticks)
  PROVE  r \in Schedulers /\ Placed(z, l, ticks, r)
<1> DEFINE t == z.current
           wake == (z.tick + ticks) % TickModulus
           w == [z.waiting EXCEPT ![l] = vListInsert(@, z.event, t)]
<1>1. /\ t \in Tasks /\ {t} \in SUBSET Tasks /\ z.waiting \in [EventLists -> Seq(Tasks)]
      /\ \A x \in Tasks : z.event[x] \in Int
  <2>1. t \in Tasks /\ z.waiting \in [EventLists -> Seq(Tasks)]
        /\ z.event \in [Tasks -> 0..configMAX_PRIORITIES]
    BY Zenon DEF Schedulers
  <2> QED BY <2>1 DEF configMAX_PRIORITIES
<1>2. vListInsert(z.waiting[l], z.event, t) \in Seq(Tasks)
  BY <1>1, InsertFacts
<1>3. w \in [EventLists -> Seq(Tasks)]
  BY <1>1, <1>2
<1>4. PICK u : u = [z EXCEPT !.waiting = w]
  BY Zenon
<1> HIDE DEF w
<1>5. /\ u \in Schedulers
      /\ u.waiting = w /\ SameState(z, u) /\ u.tick = z.tick /\ u.pending = z.pending
      /\ u.ready = z.ready /\ Ready(u) = Ready(z) /\ u.top = z.top
      /\ u.delayed = z.delayed /\ u.overflow = z.overflow
      /\ u.blocked = z.blocked /\ u.wake = z.wake
      /\ TopOK(z) => TopOK(u)
      /\ TidyBut(z, {}) => TidyBut(u, {})
      /\ InTimeBut(z, {}) => InTimeBut(u, {})
  BY <1>3, <1>4, WaitingOnly
<1>6. r = IF ticks = portMAX_DELAY THEN [Unlist(u, {t}) EXCEPT !.blocked = @ \cup {t}]
          ELSE Delay(u, ticks)
  BY <1>4 DEF vTaskPlaceOnEventList, w, Schedulers
<1>7. CASE ticks = portMAX_DELAY
  <2>1. PICK v : v = Unlist(u, {t})
    OBVIOUS
  <2>2. v \in Schedulers /\ Unlisted(u, {t}, v)
    BY <1>1, <1>5, <2>1, UnlistFacts
  <2>3. r = [v EXCEPT !.blocked = v.blocked \cup {t}]
    BY <1>6, <1>7, <2>1
  <2>4. r \in Schedulers
    <3>1. v.blocked \cup {t} \in SUBSET Tasks
      BY <1>1, <2>2 DEF Schedulers
    <3> QED BY <3>1, <2>2, <2>3, ZenonT(60) DEF Schedulers
  <2>5. /\ SameRest(u, r) /\ r.ready = v.ready /\ r.top = u.top
        /\ r.blocked = u.blocked \cup {t} /\ r.delayed = v.delayed /\ r.overflow = v.overflow
        /\ r.wake = v.wake
    BY <2>2, <2>3, ZenonT(60) DEF Schedulers, SameRest, Unlisted
  <2>6. /\ ToSet(r.delayed) = ToSet(z.delayed) \ {t}
        /\ ToSet(r.overflow) = ToSet(z.overflow) \ {t}
        /\ IsInjective(z.delayed) => IsInjective(r.delayed)
        /\ IsInjective(z.overflow) => IsInjective(r.overflow)
    BY <2>2, <2>5, <1>5 DEF Unlisted
  <2>7. \A p \in Priorities : ToSet(r.ready[p]) = ToSet(z.ready[p]) \ {t} /\
                             (IsInjective(z.ready[p]) => IsInjective(r.ready[p]))
    BY <2>2, <2>5, <1>5 DEF Unlisted
  <2>8. Ready(r) = Ready(z) \ {t}
    <3> SUFFICES ASSUME NEW x PROVE x \in Ready(r) <=> x \in Ready(z) \ {t}
      OBVIOUS
    <3> QED BY <2>7, InReady
  <2>9. ASSUME TopOK(z) PROVE TopOK(r)
    <3>1. \A p \in Priorities : ToSet(r.ready[p]) \subseteq ToSet(u.ready[p])
      BY <2>7, <1>5
    <3> QED BY <3>1, <2>4, <2>5, <2>9, <1>5, TopOKFacts
  <2>10. ASSUME Tidy(z) PROVE Tidy(r)
    <3>1. \A p \in Priorities : \A x \in ToSet(r.ready[p]) : r.prio[x] = p
      BY <2>5, <2>7, <2>10, <1>5 DEF Tidy, SameRest, SameState
    <3>2. \A p \in Priorities : IsInjective(r.ready[p])
      BY <2>7, <2>10 DEF Tidy
    <3>3. IsInjective(r.delayed) /\ IsInjective(r.overflow)
      BY <2>6, <2>10 DEF Tidy
    <3>4. r.blocked = z.blocked \cup {t}
      BY <2>5, <1>5
    <3> QED BY <3>1, <3>2, <3>3, <3>4, <2>6, <2>8, <2>10, <1>1 DEF Tidy
  <2>11. r.wake = [z.wake EXCEPT ![t] = 0] /\ z.wake \in [Tasks -> 0..portMAX_DELAY]
    BY <2>2, <2>5, <1>1, <1>5, Zenon DEF Unlisted, Schedulers
  <2>12. ASSUME InTime(z) PROVE InTime(r)
    <3>1. InTimeBut(z, {})
      BY <2>12, TidyParts
    <3>2. Rising(r.delayed, z.wake) /\ Rising(r.overflow, z.wake)
      BY <3>1, <2>2, <2>5, <1>5 DEF Unlisted, InTimeBut
    <3>3. \A x \in ToSet(r.delayed) \cup ToSet(r.overflow) : x \in Tasks /\ r.wake[x] = z.wake[x]
      <4>1. \A x \in ToSet(r.delayed) \cup ToSet(r.overflow) : x \in Tasks /\ x # t
        BY <2>4, <2>6, InToSet DEF Schedulers
      <4> QED BY <4>1, <2>11
    <3>4. /\ \A i \in DOMAIN r.delayed : r.delayed[i] \in ToSet(r.delayed)
          /\ \A i \in DOMAIN r.overflow : r.overflow[i] \in ToSet(r.overflow)
      BY DEF ToSet
    <3>5. Rising(r.delayed, r.wake) /\ Rising(r.overflow, r.wake)
      BY <3>2, <3>3, <3>4 DEF Rising
    <3>6. r.tick = z.tick
      BY <2>5, <1>5 DEF SameRest
    <3>7. InTimeBut(r, {})
      BY <3>1, <3>3, <3>5, <3>6, <2>6 DEF InTimeBut
    <3> QED BY <3>7, TidyParts
  <2>13. SameState(z, r) /\ r.tick = z.tick /\ r.pending = z.pending /\ r.waiting = w
    BY <2>5, <1>5 DEF SameRest, SameState
  <2>14. r.blocked = z.blocked \cup {t}
    BY <2>5, <1>5
  <2> QED BY <1>7, <2>4, <2>6, <2>8, <2>9, <2>10, <2>11, <2>12, <2>13, <2>14 DEF Placed, w
<1>8. CASE ticks # portMAX_DELAY
  <2>1. r \in Schedulers /\ Delayed(u, ticks, r)
    BY <1>5, <1>6, <1>8, DelayFacts
  <2>2. u.current = t
    BY <1>5 DEF SameState
  <2>3. SameState(z, r) /\ r.tick = z.tick /\ r.pending = z.pending /\ r.waiting = w
    BY <2>1, <1>5 DEF Delayed, SameRest, SameState
  <2>4. Tidy(z) => Tidy(r)
    BY <2>1, <1>5, TidyParts DEF Delayed
  <2>5. InTime(z) /\ ticks > 0 => InTime(r)
    BY <2>1, <1>5, TidyParts DEF Delayed
  <2>6. /\ Ready(r) = Ready(z) \ {t} /\ r.blocked = z.blocked \ {t}
        /\ ToSet(r.delayed) = (ToSet(z.delayed) \ {t}) \cup (IF wake < z.tick THEN {} ELSE {t})
        /\ ToSet(r.overflow) = (ToSet(z.overflow) \ {t}) \cup (IF wake < z.tick THEN {t} ELSE {})
        /\ r.wake = [z.wake EXCEPT ![t] = wake]
        /\ TopOK(z) => TopOK(r)
    BY <2>1, <2>2, <1>5 DEF Delayed
  <2> HIDE DEF wake
  <2> QED BY <1>8, <2>1, <2>3, <2>4, <2>5, <2>6 DEF Placed, w, wake
<1> QED BY <1>7, <1>8

Removed(z, l, r) ==
  LET t == Head(z.waiting[l])
  IN  /\ SameState(z, r) /\ r.tick = z.tick
      /\ t \in Tasks
      /\ r.waiting = [z.waiting EXCEPT ![l] = Tail(@)]
      /\ z.suspended = 0 =>
           /\ r.pending = z.pending
           /\ Ready(r) = Ready(z) \cup {t}
           /\ ToSet(r.delayed) = ToSet(z.delayed) \ {t}
           /\ ToSet(r.overflow) = ToSet(z.overflow) \ {t}
           /\ r.blocked = z.blocked \ {t}
           /\ r.wake = [z.wake EXCEPT ![t] = 0]
      /\ z.suspended = 1 =>
           /\ r.pending = Append(z.pending, t)
           /\ Ready(r) = Ready(z) /\ r.delayed = z.delayed /\ r.overflow = z.overflow
           /\ r.blocked = z.blocked /\ r.wake = z.wake
      /\ TopOK(z) => TopOK(r)
      /\ Tidy(z) => Tidy(r)
      /\ InTime(z) => InTime(r)

(* xTaskRemoveFromEventList takes the head and makes it ready, or pending *)
(* while the scheduler is suspended.                                      *)
LEMMA RemoveFacts ==
  ASSUME NEW z \in Schedulers, NEW l \in EventLists, z.waiting[l] # <<>>,
         NEW r, r = xTaskRemoveFromEventList(z, l)
  PROVE  r \in Schedulers /\ Removed(z, l, r)
<1> DEFINE t == Head(z.waiting[l])
           w == [z.waiting EXCEPT ![l] = Tail(@)]
<1>1. t \in Tasks /\ Tail(z.waiting[l]) \in Seq(Tasks) /\ z.waiting \in [EventLists -> Seq(Tasks)]
  <2>1. z.waiting \in [EventLists -> Seq(Tasks)]
    BY DEF Schedulers
  <2>2. z.waiting[l] \in Seq(Tasks)
    BY <2>1
  <2> QED BY <2>1, <2>2, TailFacts
<1>2. w \in [EventLists -> Seq(Tasks)]
  BY <1>1
<1>3. PICK u : u = [z EXCEPT !.waiting = w]
  BY Zenon
<1> HIDE DEF w, t
<1>4. /\ u \in Schedulers
      /\ u.waiting = w /\ SameState(z, u) /\ u.tick = z.tick /\ u.pending = z.pending
      /\ u.ready = z.ready /\ Ready(u) = Ready(z) /\ u.top = z.top
      /\ u.delayed = z.delayed /\ u.overflow = z.overflow
      /\ u.blocked = z.blocked /\ u.wake = z.wake
      /\ TopOK(z) => TopOK(u)
      /\ \A T : TidyBut(z, T) => TidyBut(u, T)
      /\ \A T : InTimeBut(z, T) => InTimeBut(u, T)
  BY <1>2, <1>3, WaitingOnly
<1>5. r = IF z.suspended = 0 THEN MoveToReady(u, <<t>>) ELSE [u EXCEPT !.pending = Append(@, t)]
  BY <1>3 DEF xTaskRemoveFromEventList, w, t, Schedulers
<1>6. <<t>> \in Seq(Tasks) /\ ToSet(<<t>>) = {t} /\ IsInjective(<<t>>)
  BY <1>1, OneFacts
<1>7. CASE z.suspended = 0
  <2>1. r \in Schedulers /\ Moved(u, <<t>>, r)
    BY <1>4, <1>5, <1>6, <1>7, MoveToReadyFacts, Zenon
  <2>2. /\ SameState(z, r) /\ r.tick = z.tick /\ r.pending = z.pending /\ r.waiting = w
    BY <2>1, <1>4 DEF Moved, SameRest, SameState
  <2>3. /\ Ready(r) = Ready(z) \cup {t}
        /\ ToSet(r.delayed) = ToSet(z.delayed) \ {t}
        /\ ToSet(r.overflow) = ToSet(z.overflow) \ {t}
        /\ r.blocked = z.blocked \ {t}
        /\ TopOK(z) => TopOK(r)
    BY <2>1, <1>4, <1>6 DEF Moved
  <2>4. r.wake = [z.wake EXCEPT ![t] = 0]
    <3>1. z.wake \in [Tasks -> 0..portMAX_DELAY]
      BY DEF Schedulers
    <3>2. r.wake = [x \in Tasks |-> IF x \in {t} THEN 0 ELSE z.wake[x]]
      BY <2>1, <1>4, <1>6 DEF Moved
    <3> QED BY <3>1, <3>2
  <2>5. ASSUME Tidy(z) PROVE Tidy(r)
    <3>1. TidyBut(u, {t})
      <4>1. TidyBut(z, {t})
        BY <2>5 DEF Tidy, TidyBut
      <4> QED BY <4>1, <1>4
    <3> QED BY <3>1, <2>1, <1>6, Zenon DEF Moved
  <2>6. ASSUME InTime(z) PROVE InTime(r)
    <3>1. InTimeBut(u, {t})
      <4>0. InTimeBut(z, {})
        BY <2>6, TidyParts
      <4>1. InTimeBut(z, {t})
        BY <4>0 DEF InTimeBut
      <4> QED BY <4>1, <1>4
    <3> QED BY <3>1, <2>1, <1>6, Zenon DEF Moved
  <2> QED BY <1>1, <1>7, <2>1, <2>2, <2>3, <2>4, <2>5, <2>6 DEF Removed, t, w
<1>8. CASE z.suspended # 0
  <2>1. z.suspended = 1 /\ u.pending \in Seq(Tasks)
    BY <1>4, <1>8 DEF Schedulers
  <2>2. Append(u.pending, t) \in Seq(Tasks)
    BY <2>1, <1>1
  <2>3. r = [u EXCEPT !.pending = Append(u.pending, t)]
    BY <1>5, <1>8
  <2>4. r \in Schedulers
    BY <2>2, <2>3, <1>4, ZenonT(60) DEF Schedulers
  <2>5. /\ SameState(u, r) /\ r.tick = u.tick /\ r.waiting = u.waiting /\ r.top = u.top
        /\ r.ready = u.ready /\ r.delayed = u.delayed /\ r.overflow = u.overflow
        /\ r.blocked = u.blocked /\ r.wake = u.wake /\ r.pending = Append(u.pending, t)
    BY <2>3, <1>4 DEF Schedulers, SameState
  <2>6. Ready(r) = Ready(u)
    BY <2>5 DEF Ready
  <2>7. SameState(z, r)
    BY <2>5, <1>4 DEF SameState
  <2>8. TopOK(z) => TopOK(r)
    BY <2>5, <1>4 DEF TopOK
  <2>9. Tidy(z) => Tidy(r)
    BY <2>5, <2>6, <2>7, <1>4 DEF Tidy, SameState
  <2>10. InTime(z) => InTime(r)
    BY <2>5, <1>4 DEF InTime
  <2> QED BY <1>1, <1>4, <1>8, <2>1, <2>4, <2>5, <2>6, <2>7, <2>8, <2>9, <2>10 DEF Removed, t, w
<1> QED BY <1>7, <1>8

(* The front of pxDelayedTaskList. *)
LEMMA DueFacts ==
  ASSUME NEW z \in Schedulers, Rising(z.delayed, z.wake)
  PROVE  /\ Due(z) \in Seq(Tasks)
         /\ ToSet(Due(z)) = {t \in ToSet(z.delayed) : z.wake[t] <= z.tick}
         /\ IsInjective(z.delayed) => IsInjective(Due(z))
<1> DEFINE list == z.delayed
           later == {i \in DOMAIN list : z.wake[list[i]] > z.tick}
<1>1. /\ list \in Seq(Tasks) /\ z.tick \in Int /\ \A t \in Tasks : z.wake[t] \in Int
      /\ DOMAIN list = 1..Len(list) /\ Len(list) \in Nat
      /\ \A i \in 1..Len(list) : list[i] \in Tasks
  <2>1. z.delayed \in Seq(Tasks) /\ z.tick \in 0..portMAX_DELAY /\ z.wake \in [Tasks -> 0..portMAX_DELAY]
    BY DEF Schedulers
  <2> QED BY <2>1, DelayRange
<1>2. Due(z) = IF later = {} THEN list ELSE SubSeq(list, 1, Min(later) - 1)
  BY DEF Due
<1>3. CASE later = {}
  <2>1. \A i \in 1..Len(list) : z.wake[list[i]] <= z.tick
    BY <1>1, <1>3
  <2>2. \A t \in ToSet(list) : z.wake[t] <= z.tick
    BY <2>1, <1>1, InToSet
  <2> QED BY <1>1, <1>2, <1>3, <2>2
<1>4. CASE later # {}
  <2>1. later \in SUBSET Nat
    BY <1>1
  <2> DEFINE m == Min(later)
  <2>2. m \in later /\ \A y \in later : m <= y
    <3> HIDE DEF later
    <3> QED BY <2>1, <1>4, MinFacts
  <2> HIDE DEF m
  <2>3. m - 1 \in 0..Len(list) /\ m \in 1..Len(list) /\ z.wake[list[m]] > z.tick
    BY <2>2, <1>1
  <2> DEFINE a == SubSeq(list, 1, m - 1)
  <2> HIDE DEF list
  <2>4. /\ a \in Seq(Tasks) /\ Len(a) = m - 1
        /\ \A i \in 1..m - 1 : a[i] = list[i]
        /\ IsInjective(list) => IsInjective(a)
    BY <2>3, <1>1, SplitFacts
  <2> HIDE DEF a
  <2>5. ASSUME NEW i \in 1..Len(list) PROVE z.wake[list[i]] <= z.tick <=> i \in 1..m - 1
    <3>1. ASSUME i < m PROVE z.wake[list[i]] <= z.tick
      <4>1. i \notin later
        <5> HIDE DEF later
        <5> QED BY <3>1, <2>2, <2>3
      <4> QED BY <4>1, <1>1
    <3>2. ASSUME ~(i < m) PROVE ~(z.wake[list[i]] <= z.tick)
      <4>1. i = m \/ m < i
        BY <3>2, <2>3
      <4>2. z.wake[list[m]] <= z.wake[list[i]]
        BY <4>1, <2>3, <1>1, SMTT(30) DEF Rising, list
      <4>3. z.wake[list[i]] \in Int /\ z.wake[list[m]] \in Int
        BY <1>1, <2>3
      <4> QED BY <4>2, <4>3, <2>3, <1>1
    <3> QED BY <3>1, <3>2, <2>3
  <2>6. ToSet(a) = {t \in ToSet(list) : z.wake[t] <= z.tick}
    <3>1. ASSUME NEW t \in ToSet(a) PROVE t \in ToSet(list) /\ z.wake[t] <= z.tick
      <4>1. PICK i \in 1..Len(a) : a[i] = t
        BY <2>4, InToSet
      <4>2. i \in 1..Len(list) /\ list[i] = t /\ i \in 1..m - 1
        BY <4>1, <2>3, <2>4
      <4> QED BY <4>2, <2>5, <1>1, InToSet
    <3>2. ASSUME NEW t \in ToSet(list), z.wake[t] <= z.tick PROVE t \in ToSet(a)
      <4>1. PICK i \in 1..Len(list) : list[i] = t
        BY <1>1, InToSet
      <4>2. i \in 1..m - 1 /\ a[i] = t
        BY <4>1, <3>2, <2>5, <2>4
      <4>3. i \in 1..Len(a)
        BY <4>2, <2>4
      <4> QED BY <4>2, <4>3, <2>4, InToSet
    <3> QED BY <3>1, <3>2
  <2>7. Due(z) = a
    BY <1>2, <1>4, Zenon DEF a, m, list
  <2> QED BY <2>4, <2>6, <2>7 DEF list
<1> QED BY <1>3, <1>4

(* The tasks whose time comes with the next tick. *)
DueNext(z) == {t \in ToSet(z.delayed) \cup ToSet(z.overflow) :
                 z.wake[t] = (z.tick + 1) % TickModulus}

Ticked(z, r) ==
  LET next == (z.tick + 1) % TickModulus
      D == DueNext(z)
  IN  /\ SameState(z, r) /\ r.tick = next /\ r.pending = z.pending
      /\ Ready(r) = Ready(z) \cup D
      /\ next # 0 => /\ ToSet(r.delayed) = ToSet(z.delayed) \ D
                     /\ ToSet(r.overflow) = ToSet(z.overflow)
      /\ next = 0 => /\ ToSet(r.delayed) = ToSet(z.overflow) \ D
                     /\ ToSet(z.delayed) = {} /\ ToSet(r.overflow) = {}
      /\ r.blocked = z.blocked
      /\ r.wake = [t \in Tasks |-> IF t \in D THEN 0 ELSE z.wake[t]]
      /\ \A l \in EventLists :
           /\ ToSet(r.waiting[l]) = ToSet(z.waiting[l]) \ D
           /\ IsInjective(z.waiting[l]) => IsInjective(r.waiting[l])
           /\ \A value : Rising(z.waiting[l], value) => Rising(r.waiting[l], value)
      /\ Tidy(r) /\ InTime(r)
      /\ TopOK(z) => TopOK(r)

(* prvCheckDelayedTasks readies what is due and takes it out of its event *)
(* list.                                                                  *)
LEMMA WakeDueFacts ==
  ASSUME NEW z \in Schedulers, Tidy(z), InTimeBut(z, ToSet(Due(z))),
         NEW r, r = WakeDue(z), NEW D, D = ToSet(Due(z))
  PROVE  /\ r \in Schedulers
         /\ SameState(z, r) /\ r.tick = z.tick /\ r.pending = z.pending
         /\ Ready(r) = Ready(z) \cup D
         /\ ToSet(r.delayed) = ToSet(z.delayed) \ D
         /\ ToSet(r.overflow) = ToSet(z.overflow) \ D
         /\ r.blocked = z.blocked \ D
         /\ r.wake = [t \in Tasks |-> IF t \in D THEN 0 ELSE z.wake[t]]
         /\ \A l \in EventLists :
              /\ ToSet(r.waiting[l]) = ToSet(z.waiting[l]) \ D
              /\ IsInjective(z.waiting[l]) => IsInjective(r.waiting[l])
              /\ \A value : Rising(z.waiting[l], value) => Rising(r.waiting[l], value)
         /\ Tidy(r) /\ InTime(r)
         /\ TopOK(z) => TopOK(r)
<1> DEFINE list == Due(z)
           w == [l \in EventLists |-> Only(z.waiting[l], Tasks \ D)]
<1>1. list \in Seq(Tasks) /\ IsInjective(list) /\ D \subseteq Tasks
  <2>1. Rising(z.delayed, z.wake) /\ IsInjective(z.delayed)
    BY DEF InTimeBut, Tidy
  <2>2. Due(z) \in Seq(Tasks) /\ IsInjective(Due(z))
    BY <2>1, DueFacts
  <2> QED BY <2>2, InToSet
<1>2. ASSUME NEW l \in EventLists
      PROVE  /\ w[l] \in Seq(Tasks) /\ ToSet(w[l]) = ToSet(z.waiting[l]) \ D
             /\ IsInjective(z.waiting[l]) => IsInjective(w[l])
             /\ \A value : Rising(z.waiting[l], value) => Rising(w[l], value)
  <2> DEFINE e == z.waiting[l]
  <2>1. e \in Seq(Tasks)
    BY DEF Schedulers
  <2>2. w[l] = Only(e, Tasks \ D)
    OBVIOUS
  <2> HIDE DEF w, e
  <2>3. ToSet(e) \cap (Tasks \ D) = ToSet(e) \ D
    BY <2>1, InToSet
  <2>4. /\ w[l] \in Seq(Tasks) /\ ToSet(w[l]) = ToSet(e) \ D
        /\ IsInjective(e) => IsInjective(w[l])
        /\ \A value : Rising(e, value) => Rising(w[l], value)
    BY <2>1, <2>2, <2>3, OnlyFacts
  <2> QED BY <2>4 DEF e
<1>3. w \in [EventLists -> Seq(Tasks)]
  <2>1. \A l \in EventLists : Only(z.waiting[l], Tasks \ D) \in Seq(Tasks)
    BY <1>2, Zenon
  <2> QED BY <2>1, Zenon
<1>4. PICK u : u = [z EXCEPT !.waiting = w]
  BY Zenon
<1>5. r = MoveToReady(u, list)
  BY <1>4 DEF WakeDue
<1> HIDE DEF w, list
<1>6. /\ u \in Schedulers
      /\ u.waiting = w /\ SameState(z, u) /\ u.tick = z.tick /\ u.pending = z.pending
      /\ u.ready = z.ready /\ Ready(u) = Ready(z) /\ u.top = z.top
      /\ u.delayed = z.delayed /\ u.overflow = z.overflow
      /\ u.blocked = z.blocked /\ u.wake = z.wake
      /\ TopOK(z) => TopOK(u)
      /\ \A T : TidyBut(z, T) => TidyBut(u, T)
      /\ \A T : InTimeBut(z, T) => InTimeBut(u, T)
  BY <1>3, <1>4, WaitingOnly
<1>7. r \in Schedulers /\ Moved(u, list, r)
  BY <1>1, <1>5, <1>6, MoveToReadyFacts
<1>8. D = ToSet(list)
  BY DEF list
<1>9. Tidy(r)
  <2>1. TidyBut(z, D)
    BY DEF Tidy, TidyBut
  <2> QED BY <2>1, <1>1, <1>6, <1>7, <1>8 DEF Moved
<1>10. InTime(r)
  <2>1. InTimeBut(z, D)
    BY <1>8 DEF list
  <2> QED BY <2>1, <1>6, <1>7, <1>8 DEF Moved
<1>11. SameState(z, r) /\ r.tick = z.tick /\ r.pending = z.pending /\ r.waiting = w
  BY <1>6, <1>7 DEF Moved, SameRest, SameState
<1>12. /\ Ready(r) = Ready(z) \cup D
       /\ ToSet(r.delayed) = ToSet(z.delayed) \ D
       /\ ToSet(r.overflow) = ToSet(z.overflow) \ D
       /\ r.blocked = z.blocked \ D
       /\ r.wake = [t \in Tasks |-> IF t \in D THEN 0 ELSE z.wake[t]]
       /\ TopOK(z) => TopOK(r)
  BY <1>6, <1>7, <1>8 DEF Moved
<1> QED BY <1>2, <1>7, <1>9, <1>10, <1>11, <1>12, Zenon

(* A tick wakes exactly those whose time has come, and nobody else; the *)
(* lists stay in order when the tick count comes round.                 *)
LEMMA TickFacts ==
  ASSUME NEW z \in Schedulers, Tidy(z), InTime(z), z.suspended = 0,
         NEW r, r = vTaskIncrementTick(z)
  PROVE  r \in Schedulers /\ Ticked(z, r)
<1> DEFINE next == (z.tick + 1) % TickModulus
           u == [z EXCEPT !.tick = next]
           v == IF next = 0 THEN [u EXCEPT !.delayed = z.overflow, !.overflow = z.delayed]
                ELSE u
<1>1. /\ z.tick \in 0..portMAX_DELAY /\ next \in 0..portMAX_DELAY
      /\ next = IF z.tick = portMAX_DELAY THEN 0 ELSE z.tick + 1
  <2>1. z.tick \in 0..portMAX_DELAY
    BY DEF Schedulers
  <2> QED BY <2>1, DelayRange
<1> HIDE DEF next
<1>2. r = WakeDue(v)
  <2>1. u.tick = next /\ u.delayed = z.delayed /\ u.overflow = z.overflow
    BY DEF Schedulers
  <2> QED BY <2>1 DEF vTaskIncrementTick, next
<1>3. u \in Schedulers
  BY <1>1, ZenonT(60) DEF Schedulers
<1>4. /\ v \in Schedulers /\ SameState(z, v) /\ v.tick = next /\ v.pending = z.pending
      /\ v.waiting = z.waiting /\ v.ready = z.ready /\ v.blocked = z.blocked
      /\ v.wake = z.wake /\ v.top = z.top
      /\ next = 0 => v.delayed = z.overflow /\ v.overflow = z.delayed
      /\ next # 0 => v.delayed = z.delayed /\ v.overflow = z.overflow
  <2>1. CASE next = 0
    <3>1. v = [u EXCEPT !.delayed = z.overflow, !.overflow = z.delayed]
      BY <2>1
    <3>2. z.delayed \in Seq(Tasks) /\ z.overflow \in Seq(Tasks)
      BY DEF Schedulers
    <3> HIDE DEF v
    <3>3. v \in Schedulers
      <4> HIDE DEF u
      <4> QED BY <3>1, <3>2, <1>3, ZenonT(60) DEF Schedulers
    <3>4. /\ v.current = z.current /\ v.event = z.event /\ v.prio = z.prio
          /\ v.missedTicks = z.missedTicks /\ v.missedYield = z.missedYield
          /\ v.suspended = z.suspended
          /\ v.tick = next /\ v.pending = z.pending
          /\ v.waiting = z.waiting /\ v.ready = z.ready /\ v.blocked = z.blocked
          /\ v.wake = z.wake /\ v.top = z.top
          /\ v.delayed = z.overflow /\ v.overflow = z.delayed
      BY <3>1 DEF Schedulers
    <3> QED BY <2>1, <3>3, <3>4 DEF SameState
  <2>2. CASE next # 0
    <3>1. v = u
      BY <2>2
    <3> HIDE DEF v
    <3>4. /\ v.current = z.current /\ v.event = z.event /\ v.prio = z.prio
          /\ v.missedTicks = z.missedTicks /\ v.missedYield = z.missedYield
          /\ v.suspended = z.suspended
          /\ v.tick = next /\ v.pending = z.pending
          /\ v.waiting = z.waiting /\ v.ready = z.ready /\ v.blocked = z.blocked
          /\ v.wake = z.wake /\ v.top = z.top
          /\ v.delayed = z.delayed /\ v.overflow = z.overflow
      BY <3>1 DEF Schedulers
    <3> QED BY <2>2, <3>1, <3>4, <1>3 DEF SameState
  <2> QED BY <2>1, <2>2
<1> HIDE DEF v, u
<1>5. Ready(v) = Ready(z)
  BY <1>4 DEF Ready
<1>6. Tidy(v)
  <2>1. \A p \in Priorities : \A t \in ToSet(v.ready[p]) : v.prio[t] = p
    BY <1>4 DEF Tidy, SameState
  <2>2. IsInjective(v.delayed) /\ IsInjective(v.overflow)
    BY <1>4 DEF Tidy
  <2>3. \A p \in Priorities : IsInjective(v.ready[p])
    BY <1>4 DEF Tidy
  <2> QED BY <1>4, <1>5, <2>1, <2>2, <2>3 DEF Tidy
<1>7. TopOK(z) => TopOK(v)
  BY <1>4 DEF TopOK
<1>8. /\ \A t \in ToSet(z.delayed) : t \in Tasks /\ z.wake[t] \in 0..portMAX_DELAY /\ z.wake[t] > z.tick
      /\ \A t \in ToSet(z.overflow) : t \in Tasks /\ z.wake[t] \in 0..portMAX_DELAY /\ z.wake[t] < z.tick
      /\ Rising(z.delayed, z.wake) /\ Rising(z.overflow, z.wake)
  <2>1. InTimeBut(z, {})
    BY TidyParts
  <2>2. /\ \A t \in ToSet(z.delayed) : t \in Tasks
        /\ \A t \in ToSet(z.overflow) : t \in Tasks
    BY InToSet DEF Schedulers
  <2>3. z.wake \in [Tasks -> 0..portMAX_DELAY]
    BY DEF Schedulers
  <2> QED BY <2>1, <2>2, <2>3 DEF InTimeBut
<1>9. next = 0 => ToSet(z.delayed) = {}
  BY <1>1, <1>8, DelayRange
<1>10. PICK D : D = ToSet(Due(v))
  OBVIOUS
<1>11. D = {t \in ToSet(v.delayed) : v.wake[t] <= next}
  <2>1. Rising(v.delayed, v.wake)
    BY <1>4, <1>8
  <2> QED BY <2>1, <1>4, <1>10, DueFacts
<1>12. D = DueNext(z)
  <2>1. CASE next = 0
    <3>1. \A t \in ToSet(z.overflow) : z.wake[t] <= 0 <=> z.wake[t] = 0
      BY <1>8, DelayRange
    <3> QED BY <2>1, <3>1, <1>4, <1>9, <1>11 DEF DueNext, next
  <2>2. CASE next # 0
    <3>1. next = z.tick + 1
      BY <1>1, <2>2
    <3>2. \A t \in ToSet(z.delayed) : z.wake[t] <= next <=> z.wake[t] = next
      BY <1>1, <1>8, <3>1, DelayRange
    <3>3. \A t \in ToSet(z.overflow) : z.wake[t] # next
      BY <1>1, <1>8, <3>1, DelayRange
    <3> QED BY <2>2, <3>2, <3>3, <1>4, <1>11 DEF DueNext, next
  <2> QED BY <2>1, <2>2
<1>13. InTimeBut(v, D)
  <2>1. Rising(v.delayed, v.wake) /\ Rising(v.overflow, v.wake)
    BY <1>4, <1>8
  <2>2. CASE next = 0
    <3>1. \A t \in ToSet(v.delayed) \ D : v.wake[t] > v.tick
      <4> SUFFICES ASSUME NEW t \in ToSet(z.overflow), t \notin D PROVE z.wake[t] > next
        BY <1>4, <2>2
      <4>1. ~(z.wake[t] <= next)
        BY <1>4, <1>11, <2>2
      <4> QED BY <4>1, <1>1, <1>8, DelayRange
    <3>2. ToSet(v.overflow) = {}
      BY <1>4, <1>9, <2>2
    <3> QED BY <2>1, <3>1, <3>2 DEF InTimeBut
  <2>3. CASE next # 0
    <3>1. \A t \in ToSet(v.delayed) \ D : v.wake[t] > v.tick
      <4> SUFFICES ASSUME NEW t \in ToSet(z.delayed), t \notin D PROVE z.wake[t] > next
        BY <1>4, <2>3
      <4>1. ~(z.wake[t] <= next)
        BY <1>4, <1>11, <2>3
      <4> QED BY <4>1, <1>1, <1>8, DelayRange
    <3>2. \A t \in ToSet(v.overflow) \ D : v.wake[t] < v.tick
      <4> SUFFICES ASSUME NEW t \in ToSet(z.overflow) PROVE z.wake[t] < next
        BY <1>4, <2>3
      <4>1. next = z.tick + 1
        BY <1>1, <2>3
      <4> QED BY <4>1, <1>1, <1>8, DelayRange
    <3> QED BY <2>1, <3>1, <3>2 DEF InTimeBut
  <2> QED BY <2>2, <2>3
<1>14. /\ r \in Schedulers
       /\ SameState(v, r) /\ r.tick = v.tick /\ r.pending = v.pending
       /\ Ready(r) = Ready(v) \cup D
       /\ ToSet(r.delayed) = ToSet(v.delayed) \ D
       /\ ToSet(r.overflow) = ToSet(v.overflow) \ D
       /\ r.blocked = v.blocked \ D
       /\ r.wake = [t \in Tasks |-> IF t \in D THEN 0 ELSE v.wake[t]]
       /\ \A l \in EventLists :
            /\ ToSet(r.waiting[l]) = ToSet(v.waiting[l]) \ D
            /\ IsInjective(v.waiting[l]) => IsInjective(r.waiting[l])
            /\ \A value : Rising(v.waiting[l], value) => Rising(r.waiting[l], value)
       /\ Tidy(r) /\ InTime(r)
       /\ TopOK(v) => TopOK(r)
  BY SMTT(30), <1>2, <1>4, <1>6, <1>10, <1>13, WakeDueFacts
<1>15. D \subseteq ToSet(v.delayed)
  BY <1>11
<1>16. v.blocked \ D = v.blocked /\ ToSet(v.overflow) \ D = ToSet(v.overflow)
  BY <1>6, <1>15 DEF Tidy
<1>17. SameState(z, r) /\ r.tick = next /\ r.pending = z.pending
  BY <1>4, <1>14 DEF SameState
<1>18. /\ next # 0 => /\ ToSet(r.delayed) = ToSet(z.delayed) \ D
                      /\ ToSet(r.overflow) = ToSet(z.overflow)
       /\ next = 0 => /\ ToSet(r.delayed) = ToSet(z.overflow) \ D
                      /\ ToSet(z.delayed) = {} /\ ToSet(r.overflow) = {}
  BY <1>4, <1>9, <1>14, <1>16
<1>19. /\ Ready(r) = Ready(z) \cup D /\ r.blocked = z.blocked
       /\ r.wake = [t \in Tasks |-> IF t \in D THEN 0 ELSE z.wake[t]]
       /\ \A l \in EventLists :
            /\ ToSet(r.waiting[l]) = ToSet(z.waiting[l]) \ D
            /\ IsInjective(z.waiting[l]) => IsInjective(r.waiting[l])
            /\ \A value : Rising(z.waiting[l], value) => Rising(r.waiting[l], value)
       /\ TopOK(z) => TopOK(r)
  BY <1>4, <1>5, <1>7, <1>14, <1>16
<1> QED BY <1>12, <1>14, <1>17, <1>18, <1>19, ZenonT(60) DEF Ticked, next

(* The value of an event list item says what the priority is. *)
EventOK(z) == \A t \in Tasks : z.event[t] = configMAX_PRIORITIES - z.prio[t]

(* The task h has priority p and is where it was. *)
Reprioritised(z, h, p, r) ==
  /\ r.current = z.current /\ r.pending = z.pending /\ r.waiting = z.waiting
  /\ r.tick = z.tick /\ r.missedTicks = z.missedTicks
  /\ r.missedYield = z.missedYield /\ r.suspended = z.suspended
  /\ r.prio = [z.prio EXCEPT ![h] = p]
  /\ r.event = [z.event EXCEPT ![h] = configMAX_PRIORITIES - p]
  /\ EventOK(r)
  /\ Ready(r) = Ready(z) /\ r.blocked = z.blocked
  /\ ToSet(r.delayed) = ToSet(z.delayed) /\ ToSet(r.overflow) = ToSet(z.overflow)
  /\ \A t \in Tasks \ Ready(z) : r.wake[t] = z.wake[t]
  /\ Tidy(r)
  /\ TopOK(z) => TopOK(r)
  /\ InTime(z) => InTime(r)

NewlyRanked(z, h, p, u) ==
  /\ EventOK(u)
  /\ u.prio = [z.prio EXCEPT ![h] = p]
  /\ u.event = [z.event EXCEPT ![h] = configMAX_PRIORITIES - p]
  /\ u.current = z.current /\ u.pending = z.pending /\ u.waiting = z.waiting
  /\ u.tick = z.tick /\ u.missedTicks = z.missedTicks
  /\ u.missedYield = z.missedYield /\ u.suspended = z.suspended
  /\ Ready(u) = Ready(z) /\ u.ready = z.ready /\ u.wake = z.wake
  /\ u.delayed = z.delayed /\ u.overflow = z.overflow /\ u.blocked = z.blocked
  /\ TidyBut(u, {h})
  /\ h \notin Ready(z) => Tidy(u)
  /\ TopOK(z) => TopOK(u)
  /\ InTime(z) => InTime(u)

(* A task with a new priority that stays where it is. *)
LEMMA NewPriority ==
  ASSUME NEW z \in Schedulers, Tidy(z), EventOK(z), NEW h \in Tasks, NEW p \in Priorities,
         NEW u, u = [z EXCEPT !.prio[h] = p, !.event[h] = configMAX_PRIORITIES - p]
  PROVE  u \in Schedulers /\ NewlyRanked(z, h, p, u)
<1>1. /\ z.prio \in [Tasks -> Priorities] /\ z.event \in [Tasks -> 0..configMAX_PRIORITIES]
      /\ configMAX_PRIORITIES - p \in 0..configMAX_PRIORITIES
  BY PriorityRange, SMTT(30) DEF Schedulers, configMAX_PRIORITIES
<1>2. /\ u.prio = [z.prio EXCEPT ![h] = p]
      /\ u.event = [z.event EXCEPT ![h] = configMAX_PRIORITIES - p]
      /\ u.current = z.current /\ u.pending = z.pending /\ u.waiting = z.waiting
      /\ u.tick = z.tick /\ u.missedTicks = z.missedTicks
      /\ u.missedYield = z.missedYield /\ u.suspended = z.suspended
      /\ u.ready = z.ready /\ u.wake = z.wake /\ u.top = z.top
      /\ u.delayed = z.delayed /\ u.overflow = z.overflow /\ u.blocked = z.blocked
  BY DEF Schedulers
<1>3. u \in Schedulers
  <2>1. /\ u.prio \in [Tasks -> Priorities]
        /\ u.event \in [Tasks -> 0..configMAX_PRIORITIES]
    BY <1>1, <1>2
  <2>2. u = [z EXCEPT !.prio = u.prio, !.event = u.event]
    BY <1>2 DEF Schedulers
  <2> QED BY <2>1, <2>2, Zenon DEF Schedulers
<1>4. EventOK(u)
  BY <1>1, <1>2 DEF EventOK
<1>5. Ready(u) = Ready(z)
  BY <1>2 DEF Ready
<1>6. ASSUME NEW e \in Priorities, NEW t \in ToSet(z.ready[e]) PROVE z.prio[t] = e /\ t \in Tasks
  <2>1. z.ready[e] \in Seq(Tasks)
    BY DEF Schedulers
  <2> QED BY <2>1, InToSet DEF Tidy
<1>7. /\ \A e \in Priorities : IsInjective(u.ready[e])
      /\ IsInjective(u.delayed) /\ IsInjective(u.overflow)
  BY <1>2 DEF Tidy
<1>8. TidyBut(u, {h})
  <2>1. \A e \in Priorities : \A t \in ToSet(u.ready[e]) \ {h} : u.prio[t] = e
    BY <1>1, <1>2, <1>6
  <2> QED BY <2>1, <1>2, <1>5, <1>7 DEF Tidy, TidyBut
<1>9. ASSUME h \notin Ready(z) PROVE Tidy(u)
  <2>1. \A e \in Priorities : \A t \in ToSet(u.ready[e]) : u.prio[t] = e
    <3> SUFFICES ASSUME NEW e \in Priorities, NEW t \in ToSet(z.ready[e]) PROVE u.prio[t] = e
      BY <1>2
    <3>1. t # h
      BY <1>9, InReady
    <3> QED BY <3>1, <1>1, <1>2, <1>6
  <2> QED BY <2>1, <1>2, <1>5, <1>7 DEF Tidy
<1>10. TopOK(z) => TopOK(u)
  BY <1>2 DEF TopOK
<1>11. InTime(z) => InTime(u)
  BY <1>2 DEF InTime
<1> QED BY <1>2, <1>3, <1>4, <1>5, <1>8, <1>9, <1>10, <1>11 DEF NewlyRanked

(* A ready task with a new priority moves to the list of that priority. *)
LEMMA MovedPriority ==
  ASSUME NEW z \in Schedulers, Tidy(z), EventOK(z), NEW h \in Ready(z), h \in Tasks,
         NEW p \in Priorities,
         NEW u, u = [z EXCEPT !.prio[h] = p, !.event[h] = configMAX_PRIORITIES - p],
         NEW r, r = MoveToReady(u, <<h>>)
  PROVE  r \in Schedulers /\ Reprioritised(z, h, p, r)
<1>1. u \in Schedulers /\ NewlyRanked(z, h, p, u)
  BY NewPriority, Zenon
<1>2. <<h>> \in Seq(Tasks) /\ ToSet(<<h>>) = {h} /\ IsInjective(<<h>>)
  BY OneFacts
<1>3. r \in Schedulers /\ Moved(u, <<h>>, r)
  BY <1>1, <1>2, MoveToReadyFacts, Zenon
<1>4. /\ r.current = z.current /\ r.pending = z.pending /\ r.waiting = z.waiting
      /\ r.tick = z.tick /\ r.missedTicks = z.missedTicks
      /\ r.missedYield = z.missedYield /\ r.suspended = z.suspended
      /\ r.prio = u.prio /\ r.event = u.event
  BY <1>1, <1>3 DEF Moved, SameRest, NewlyRanked
<1>5. EventOK(r)
  BY <1>1, <1>4, ZenonT(60) DEF EventOK, NewlyRanked
<1>6. /\ h \notin ToSet(z.delayed) /\ h \notin ToSet(z.overflow) /\ h \notin z.blocked
  BY DEF Tidy
<1>7. /\ Ready(r) = Ready(z) /\ r.blocked = z.blocked
      /\ ToSet(r.delayed) = ToSet(z.delayed) /\ ToSet(r.overflow) = ToSet(z.overflow)
  <2>1. /\ Ready(r) = Ready(z) \cup {h} /\ r.blocked = z.blocked \ {h}
        /\ ToSet(r.delayed) = ToSet(z.delayed) \ {h}
        /\ ToSet(r.overflow) = ToSet(z.overflow) \ {h}
    BY <1>1, <1>2, <1>3 DEF Moved, NewlyRanked
  <2> QED BY SMTT(30), <2>1, <1>6
<1>8. \A t \in Tasks \ Ready(z) : r.wake[t] = z.wake[t]
  BY <1>1, <1>2, <1>3 DEF Moved, NewlyRanked
<1>9. Tidy(r)
  BY <1>1, <1>2, <1>3, Zenon DEF Moved, NewlyRanked
<1>10. InTime(z) => InTime(r)
  <2>1. InTime(u) => InTimeBut(u, {h})
    <3>1. InTime(u) => InTimeBut(u, {})
      BY TidyParts
    <3> QED BY <3>1 DEF InTimeBut
  <2> QED BY <2>1, <1>1, <1>2, <1>3, Zenon DEF Moved, NewlyRanked
<1>11. TopOK(z) => TopOK(r)
  BY <1>1, <1>3 DEF Moved, NewlyRanked
<1> QED BY <1>1, <1>3, <1>4, <1>5, <1>7, <1>8, <1>9, <1>10, <1>11 DEF Reprioritised, NewlyRanked

(* Nothing changes when the priority is the one it was. *)
LEMMA SamePriority ==
  ASSUME NEW z \in Schedulers, Tidy(z), EventOK(z), NEW h \in Tasks
  PROVE  Reprioritised(z, h, z.prio[h], z)
<1>1. z.prio = [z.prio EXCEPT ![h] = z.prio[h]]
  BY DEF Schedulers
<1>2. z.event = [z.event EXCEPT ![h] = configMAX_PRIORITIES - z.prio[h]]
  BY DEF Schedulers, EventOK
<1> QED BY <1>1, <1>2 DEF Reprioritised

(* vTaskPriorityInherit leaves the holder with the higher of the two *)
(* priorities, in the right list wherever it is.                     *)
LEMMA InheritFacts ==
  ASSUME NEW z \in Schedulers, Tidy(z), EventOK(z), NEW h \in Tasks,
         NEW r, r = vTaskPriorityInherit(z, h),
         NEW p, p = IF z.prio[h] >= z.prio[z.current] THEN z.prio[h] ELSE z.prio[z.current]
  PROVE  r \in Schedulers /\ p \in Priorities /\ Reprioritised(z, h, p, r)
<1>1. z.prio[h] \in Priorities /\ z.prio[z.current] \in Priorities
  BY DEF Schedulers
<1>2. p \in Priorities
  BY <1>1
<1>3. CASE z.prio[h] >= z.prio[z.current]
  BY <1>2, <1>3, SamePriority DEF vTaskPriorityInherit
<1>4. CASE ~(z.prio[h] >= z.prio[z.current])
  <2> DEFINE m == z.prio[z.current]
  <2>0. p = m /\ m \in Priorities
    BY <1>1, <1>4
  <2>1. PICK u : u = [z EXCEPT !.prio[h] = m, !.event[h] = configMAX_PRIORITIES - m]
    OBVIOUS
  <2>2. r = IF Contains(z.ready[z.prio[h]], h) THEN MoveToReady(u, <<h>>) ELSE u
    BY <1>4, <2>1 DEF vTaskPriorityInherit
  <2> HIDE DEF m
  <2>3. h \in Ready(z) <=> Contains(z.ready[z.prio[h]], h)
    <3>1. h \in Ready(z) <=> h \in ToSet(z.ready[z.prio[h]])
      BY <1>1, InReady DEF Tidy
    <3>2. z.ready[z.prio[h]] \in Seq(Tasks)
      BY <1>1 DEF Schedulers
    <3>3. h \in ToSet(z.ready[z.prio[h]]) <=> Contains(z.ready[z.prio[h]], h)
      BY <3>2, InToSet DEF Contains
    <3> QED BY <3>1, <3>3
  <2>4. CASE h \in Ready(z)
    BY <2>0, <2>1, <2>2, <2>3, <2>4, MovedPriority, Zenon
  <2>5. CASE h \notin Ready(z)
    <3>1. r = u
      BY <2>2, <2>3, <2>5
    <3>2. u \in Schedulers /\ NewlyRanked(z, h, p, u)
      BY <2>0, <2>1, NewPriority, Zenon
    <3> QED BY <2>0, <2>5, <3>1, <3>2 DEF Reprioritised, NewlyRanked
  <2> QED BY <2>4, <2>5
<1> QED BY <1>3, <1>4

(* vTaskPriorityDisinherit gives the holder its own priority back, in the *)
(* right list.                                                            *)
LEMMA DisinheritFacts ==
  ASSUME NEW z \in Schedulers, Tidy(z), EventOK(z), NEW h \in Ready(z), h \in Tasks,
         NEW r, r = vTaskPriorityDisinherit(z, h)
  PROVE  r \in Schedulers /\ Reprioritised(z, h, uxBasePriority[h], r)
<1>1. uxBasePriority[h] \in Priorities
  BY PriorityRange DEF uxBasePriority, Tasks
<1>2. CASE z.prio[h] = uxBasePriority[h]
  <2>1. r = z
    BY <1>2 DEF vTaskPriorityDisinherit
  <2>2. Reprioritised(z, h, z.prio[h], z)
    BY SamePriority
  <2> QED BY <1>2, <2>1, <2>2
<1>3. CASE z.prio[h] # uxBasePriority[h]
  <2>1. PICK u : u = [z EXCEPT !.prio[h] = uxBasePriority[h],
                               !.event[h] = configMAX_PRIORITIES - uxBasePriority[h]]
    OBVIOUS
  <2>2. r = MoveToReady(u, <<h>>)
    BY <1>3, <2>1 DEF vTaskPriorityDisinherit
  <2> QED BY <1>1, <2>1, <2>2, MovedPriority, Zenon
<1> QED BY <1>2, <1>3

-----------------------------------------------------------------------------
(* Several ticks, and the operators of the queue. *)

(* The tasks in one of the delayed lists, and the ticks each has left. *)
Asleep(z) == ToSet(z.delayed) \cup ToSet(z.overflow)
Left(z, t) == IF t \in ToSet(z.delayed) THEN z.wake[t] - z.tick
              ELSE z.wake[t] + TickModulus - z.tick

(* The tick count after n ticks, fewer than it has values. *)
Later(tick, n) == IF tick + n < TickModulus THEN tick + n ELSE tick + n - TickModulus

(* After n ticks. *)
Elapsed(z, n, r) ==
  /\ SameState(z, r) /\ r.tick = Later(z.tick, n) /\ r.pending = z.pending
  /\ Ready(r) = Ready(z) \cup {t \in Asleep(z) : Left(z, t) <= n}
  /\ r.blocked = z.blocked
  /\ Asleep(r) = Asleep(z) \ Ready(r)
  /\ \A t \in Asleep(r) : Left(r, t) = Left(z, t) - n
  /\ \A l \in EventLists :
       /\ ToSet(r.waiting[l]) = ToSet(z.waiting[l]) \ (Ready(r) \ Ready(z))
       /\ IsInjective(z.waiting[l]) => IsInjective(r.waiting[l])
       /\ \A value : Rising(z.waiting[l], value) => Rising(r.waiting[l], value)
  /\ Tidy(r) /\ InTime(r)
  /\ TopOK(z) => TopOK(r)

(* A sleeping task has between one tick and the longest block time left *)
(* to sleep.                                                            *)
LEMMA LeftFacts ==
  ASSUME NEW z \in Schedulers, Tidy(z), InTime(z), NEW t \in Asleep(z)
  PROVE  t \in Tasks /\ Left(z, t) \in 1..portMAX_DELAY
<1>1. t \in Tasks
  <2>1. z.delayed \in Seq(Tasks) /\ z.overflow \in Seq(Tasks)
    BY DEF Schedulers
  <2> QED BY <2>1, InToSet DEF Asleep
<1>2. z.wake[t] \in 0..portMAX_DELAY /\ z.tick \in 0..portMAX_DELAY
  BY <1>1 DEF Schedulers
<1>3. CASE t \in ToSet(z.delayed)
  <2>1. z.wake[t] > z.tick
    BY <1>3 DEF InTime
  <2> QED BY <1>1, <1>2, <1>3, <2>1, DelayRange DEF Left
<1>4. CASE t \notin ToSet(z.delayed)
  <2>1. z.wake[t] < z.tick
    BY <1>4 DEF InTime, Asleep
  <2> QED BY <1>1, <1>2, <1>4, <2>1, DelayRange DEF Left
<1> QED BY <1>3, <1>4

(* One tick, as an instance of several. *)
LEMMA TickElapsed ==
  ASSUME NEW z \in Schedulers, Tidy(z), InTime(z), z.suspended = 0,
         NEW r, r = vTaskIncrementTick(z)
  PROVE  r \in Schedulers /\ Elapsed(z, 1, r)
<1>1. r \in Schedulers /\ Ticked(z, r)
  BY TickFacts
<1> DEFINE D == DueNext(z)
           next == (z.tick + 1) % TickModulus
<1>2. D \subseteq Asleep(z)
  BY DEF DueNext, Asleep
<1>3. Ready(z) \cap Asleep(z) = {} /\ ToSet(z.delayed) \cap ToSet(z.overflow) = {}
  BY DEF Tidy, Asleep
<1>4. Ready(r) = Ready(z) \cup D
  BY <1>1 DEF Ticked
<1>5. /\ next # 0 => /\ ToSet(r.delayed) = ToSet(z.delayed) \ D
                     /\ ToSet(r.overflow) = ToSet(z.overflow)
      /\ next = 0 => /\ ToSet(r.delayed) = ToSet(z.overflow) \ D
                     /\ ToSet(z.delayed) = {} /\ ToSet(r.overflow) = {}
      /\ r.wake = [t \in Tasks |-> IF t \in D THEN 0 ELSE z.wake[t]]
      /\ r.tick = next
  BY <1>1 DEF Ticked
<1>6. next # 0 => ToSet(z.overflow) \cap D = {}
  <2> SUFFICES ASSUME NEW t \in ToSet(z.overflow), next # 0 PROVE z.wake[t] # next
    BY DEF DueNext
  <2>1. z.wake[t] < z.tick /\ z.tick \in 0..portMAX_DELAY /\ t \in Tasks
    BY InToSet DEF InTime, Schedulers
  <2>2. z.wake[t] \in 0..portMAX_DELAY
    BY <2>1 DEF Schedulers
  <2>3. next = z.tick + 1
    BY <2>1, DelayRange
  <2> HIDE DEF next
  <2> QED BY <2>1, <2>2, <2>3, DelayRange
<1>7. \A t \in Asleep(z) : t \in Tasks /\ z.wake[t] \in 0..portMAX_DELAY
  <2>1. z.delayed \in Seq(Tasks) /\ z.overflow \in Seq(Tasks) /\ z.wake \in [Tasks -> 0..portMAX_DELAY]
    BY DEF Schedulers
  <2>2. ToSet(z.delayed) \subseteq Tasks /\ ToSet(z.overflow) \subseteq Tasks
    BY <2>1, InToSet
  <2> QED BY <2>1, <2>2 DEF Asleep
<1>8. z.tick \in 0..portMAX_DELAY /\ next = IF z.tick = portMAX_DELAY THEN 0 ELSE z.tick + 1
  <2>1. z.tick \in 0..portMAX_DELAY
    BY DEF Schedulers
  <2> QED BY <2>1, DelayRange
<1> HIDE DEF D, next
<1>9. Asleep(r) = Asleep(z) \ Ready(r)
  <2>1. CASE next = 0
    BY <2>1, <1>2, <1>3, <1>4, <1>5 DEF Asleep
  <2>2. CASE next # 0
    BY <2>2, <1>2, <1>3, <1>4, <1>5, <1>6 DEF Asleep
  <2> QED BY <2>1, <2>2
<1>10. ASSUME NEW t \in Asleep(r) PROVE Left(r, t) = Left(z, t) - 1
  <2>1. t \in Asleep(z) /\ t \notin D /\ r.wake[t] = z.wake[t] /\ z.wake[t] \in 0..portMAX_DELAY
    BY <1>4, <1>5, <1>7, <1>9, <1>10
  <2>2. CASE next = 0
    <3>1. t \in ToSet(r.delayed) /\ t \notin ToSet(z.delayed)
      BY <2>2, <1>5, <1>10 DEF Asleep
    <3>2. Left(r, t) = z.wake[t] - 0 /\ Left(z, t) = z.wake[t] + TickModulus - z.tick
      BY <2>1, <2>2, <3>1, <1>5 DEF Left
    <3> QED BY <3>2, <2>1, <2>2, <1>8, DelayRange
  <2>3. CASE next # 0
    <3>1. t \in ToSet(r.delayed) <=> t \in ToSet(z.delayed)
      BY <2>1, <2>3, <1>5
    <3>2. r.tick = z.tick + 1
      BY <2>3, <1>5, <1>8
    <3> QED BY <2>1, <3>1, <3>2, <1>8, DelayRange DEF Left
  <2> QED BY <2>2, <2>3
<1>11. D = Ready(r) \ Ready(z)
  BY <1>2, <1>3, <1>4
<1>12. \A l \in EventLists :
         /\ ToSet(r.waiting[l]) = ToSet(z.waiting[l]) \ D
         /\ IsInjective(z.waiting[l]) => IsInjective(r.waiting[l])
         /\ \A value : Rising(z.waiting[l], value) => Rising(r.waiting[l], value)
  BY <1>1, Zenon DEF Ticked, D
<1>13. /\ SameState(z, r) /\ r.pending = z.pending /\ r.blocked = z.blocked
       /\ Tidy(r) /\ InTime(r)
       /\ TopOK(z) => TopOK(r)
  BY <1>1 DEF Ticked
<1>14. r.tick = Later(z.tick, 1)
  BY <1>5, <1>8, DelayRange DEF Later
<1>15. D = {t \in Asleep(z) : Left(z, t) <= 1}
  <2>1. ASSUME NEW t \in Asleep(z) PROVE z.wake[t] = next <=> Left(z, t) <= 1
    <3>1. z.wake[t] \in 0..portMAX_DELAY /\ Left(z, t) \in 1..portMAX_DELAY
      BY <1>7, <2>1, LeftFacts
    <3>2. CASE next = 0
      <4>1. Left(z, t) = z.wake[t] + TickModulus - z.tick
        BY <1>5, <3>2 DEF Left
      <4> QED BY <3>1, <3>2, <4>1, <1>8, DelayRange
    <3>3. CASE next # 0
      <4>1. CASE t \in ToSet(z.delayed)
        <5>1. Left(z, t) = z.wake[t] - z.tick
          BY <4>1 DEF Left
        <5> QED BY <3>1, <3>3, <5>1, <1>8, DelayRange
      <4>2. CASE t \notin ToSet(z.delayed)
        <5>1. Left(z, t) = z.wake[t] + TickModulus - z.tick
          BY <4>2 DEF Left
        <5>2. z.wake[t] < z.tick
          BY <2>1, <4>2 DEF InTime, Asleep
        <5> QED BY <3>1, <3>3, <5>1, <5>2, <1>8, DelayRange
      <4> QED BY <4>1, <4>2
    <3> QED BY <3>2, <3>3
  <2> QED BY <2>1 DEF D, DueNext, next, Asleep
<1> QED BY <1>15, <1>1, <1>4, <1>9, <1>10, <1>11, <1>12, <1>13, <1>14 DEF Elapsed

(* One more tick after n of them: who has been asleep for n + 1 ticks or *)
(* less is awake, the rest has that much less to sleep.                  *)
LEMMA ElapsedNext ==
  ASSUME NEW z \in Schedulers, NEW n \in 0..portMAX_DELAY - 1, NEW u \in Schedulers, NEW r \in Schedulers,
         Tidy(z), InTime(z), Elapsed(z, n, u), Elapsed(u, 1, r)
  PROVE  Elapsed(z, n + 1, r)
<1>1. SameState(z, r) /\ r.pending = z.pending /\ r.blocked = z.blocked
  BY DEF Elapsed, SameState
<1>2. r.tick = Later(z.tick, n + 1)
  <2>1. u.tick = Later(z.tick, n) /\ r.tick = Later(u.tick, 1) /\ z.tick \in 0..portMAX_DELAY
    BY DEF Elapsed, Schedulers
  <2> QED BY <2>1, DelayRange DEF Later
<1>3. Ready(z) \subseteq Ready(u) /\ Ready(u) \subseteq Ready(r)
  BY DEF Elapsed
<1>4. Asleep(r) = Asleep(z) \ Ready(r) /\ Asleep(r) \subseteq Asleep(u)
  BY <1>3 DEF Elapsed
<1>5. ASSUME NEW t \in Asleep(r) PROVE Left(r, t) = Left(z, t) - (n + 1)
  <2>1. Left(r, t) = Left(u, t) - 1 /\ Left(u, t) = Left(z, t) - n
    BY <1>4, <1>5 DEF Elapsed
  <2>2. Left(z, t) \in Int
    <3>1. t \in Asleep(z) /\ z.tick \in 0..portMAX_DELAY /\ z.wake \in [Tasks -> 0..portMAX_DELAY]
          /\ z.delayed \in Seq(Tasks) /\ z.overflow \in Seq(Tasks)
      BY <1>4, <1>5 DEF Schedulers
    <3>2. t \in Tasks
      BY <3>1, InToSet DEF Asleep
    <3> QED BY <3>1, <3>2, DelayRange DEF Left
  <2> QED BY <2>1, <2>2
<1>6. ASSUME NEW l \in EventLists
      PROVE  /\ ToSet(r.waiting[l]) = ToSet(z.waiting[l]) \ (Ready(r) \ Ready(z))
             /\ IsInjective(z.waiting[l]) => IsInjective(r.waiting[l])
             /\ \A value : Rising(z.waiting[l], value) => Rising(r.waiting[l], value)
  <2>1. /\ ToSet(r.waiting[l]) = ToSet(u.waiting[l]) \ (Ready(r) \ Ready(u))
        /\ IsInjective(u.waiting[l]) => IsInjective(r.waiting[l])
        /\ \A value : Rising(u.waiting[l], value) => Rising(r.waiting[l], value)
    BY DEF Elapsed
  <2>2. /\ ToSet(u.waiting[l]) = ToSet(z.waiting[l]) \ (Ready(u) \ Ready(z))
        /\ IsInjective(z.waiting[l]) => IsInjective(u.waiting[l])
        /\ \A value : Rising(z.waiting[l], value) => Rising(u.waiting[l], value)
    BY DEF Elapsed
  <2>3. ToSet(r.waiting[l]) = ToSet(z.waiting[l]) \ (Ready(r) \ Ready(z))
    BY <2>1, <2>2, <1>3
  <2> QED BY <2>1, <2>2, <2>3
<1>7. Tidy(r) /\ InTime(r) /\ (TopOK(z) => TopOK(r))
  BY DEF Elapsed
<1>8. Ready(r) = Ready(z) \cup {t \in Asleep(z) : Left(z, t) <= n + 1}
  <2>1. /\ Ready(u) = Ready(z) \cup {t \in Asleep(z) : Left(z, t) <= n}
        /\ Asleep(u) = Asleep(z) \ Ready(u)
        /\ \A t \in Asleep(u) : Left(u, t) = Left(z, t) - n
        /\ Ready(r) = Ready(u) \cup {t \in Asleep(u) : Left(u, t) <= 1}
    BY DEF Elapsed
  <2>2. \A t \in Asleep(z) : Left(z, t) \in Int
    BY LeftFacts
  <2>3. ASSUME NEW t \in Asleep(u) PROVE Left(u, t) <= 1 <=> Left(z, t) <= n + 1
    <3>1. t \in Asleep(z) /\ Left(u, t) = Left(z, t) - n
      BY <2>1, <2>3
    <3> QED BY <3>1, <2>2
  <2>4. ASSUME NEW t \in Asleep(z), t \in Ready(u), t \notin Ready(z) PROVE Left(z, t) <= n + 1
    <3>1. Left(z, t) <= n
      BY <2>1, <2>4
    <3> QED BY <3>1, <2>2
  <2>5. ASSUME NEW t \in Ready(r) PROVE t \in Ready(z) \/ (t \in Asleep(z) /\ Left(z, t) <= n + 1)
    BY <2>1, <2>3, <2>4, <2>5
  <2>6. ASSUME NEW t \in Asleep(z), Left(z, t) <= n + 1 PROVE t \in Ready(r)
    BY <2>1, <2>3, <2>6
  <2> QED BY <2>1, <2>5, <2>6
<1> QED BY <1>8, <1>1, <1>2, <1>3, <1>4, <1>5, <1>6, <1>7 DEF Elapsed

CaughtUp(f, z, n) == IF n = 0 THEN z ELSE vTaskIncrementTick(f[n - 1])

(* The recursive function of MissedTicks exists, up to every number of *)
(* ticks.                                                              *)
LEMMA CaughtUpExists ==
  ASSUME NEW z, NEW n \in Nat
  PROVE  \E f : f = [i \in 0..n |-> CaughtUp(f, z, i)]
<1> DEFINE Q(m) == \E f : f = [i \in 0..m |-> CaughtUp(f, z, i)]
           I == {m \in 0..n : Q(m)}
<1>1. 0 \in I
  <2> DEFINE g == [i \in 0..0 |-> z]
  <2>1. g = [i \in 0..0 |-> CaughtUp(g, z, i)]
    BY DEF CaughtUp
  <2>2. Q(0)
    <3> HIDE DEF g
    <3> QED BY <2>1
  <2> QED BY <2>2
<1>2. ASSUME NEW m \in 1..n, m-1 \in I PROVE m \in I
  <2>1. PICK f : f = [i \in 0..(m-1) |-> CaughtUp(f, z, i)]
    BY <1>2
  <2> DEFINE g == [i \in 0..m |-> IF i = m THEN CaughtUp(f, z, m) ELSE f[i]]
  <2>2. ASSUME NEW i \in 0..m PROVE g[i] = CaughtUp(g, z, i)
    <3>1. i # 0 => i - 1 \in 0..(m-1) /\ g[i-1] = f[i-1]
      OBVIOUS
    <3>2. i # m => f[i] = CaughtUp(f, z, i)
      <4>1. i # m => i \in 0..(m-1)
        OBVIOUS
      <4> QED BY <4>1, <2>1
    <3>3. CaughtUp(f, z, i) = CaughtUp(g, z, i)
      BY <3>1 DEF CaughtUp
    <3>4. g[i] = CaughtUp(f, z, i)
      BY <3>2
    <3> QED BY <3>3, <3>4
  <2>3. g = [i \in 0..m |-> CaughtUp(g, z, i)]
    BY <2>2
  <2>4. Q(m)
    <3> HIDE DEF g
    <3> QED BY <2>3
  <2> QED BY <2>4
<1>3. 0..n \subseteq I
  <2> HIDE DEF I
  <2> QED BY <1>1, <1>2, UpTo
<1> QED BY <1>3

(* Every tick that was missed is made up for. *)
LEMMA MissedTicksFacts ==
  ASSUME NEW z \in Schedulers, Tidy(z), InTime(z), z.suspended = 0,
         z.missedTicks <= portMAX_DELAY
  PROVE  \E w \in Schedulers : /\ Elapsed(z, z.missedTicks, w)
                               /\ MissedTicks(z) = [w EXCEPT !.missedTicks = 0]
<1> DEFINE n == z.missedTicks
           f == CHOOSE f : f = [i \in 0..n |-> CaughtUp(f, z, i)]
           I == {i \in 0..n : f[i] \in Schedulers /\ Elapsed(z, i, f[i])}
<1>0. n \in Nat /\ n <= portMAX_DELAY
  BY DEF Schedulers
<1>1. f = [i \in 0..n |-> CaughtUp(f, z, i)]
  BY <1>0, CaughtUpExists
<1>2. MissedTicks(z) = [f[n] EXCEPT !.missedTicks = 0]
  BY DEF MissedTicks, CaughtUp
<1> HIDE DEF n, f
<1>3. 0 \in I
  <2>1. f[0] = z
    BY <1>0, <1>1 DEF CaughtUp
  <2>2. z.tick = Later(z.tick, 0) /\ \A t \in Asleep(z) : Left(z, t) = Left(z, t) - 0
    <3>1. z.tick \in 0..portMAX_DELAY
      BY DEF Schedulers
    <3>2. \A t \in Asleep(z) : t \in Tasks /\ z.wake[t] \in 0..portMAX_DELAY
      <4>1. z.delayed \in Seq(Tasks) /\ z.overflow \in Seq(Tasks) /\ z.wake \in [Tasks -> 0..portMAX_DELAY]
        BY DEF Schedulers
      <4>2. ToSet(z.delayed) \subseteq Tasks /\ ToSet(z.overflow) \subseteq Tasks
        BY <4>1, InToSet
      <4> QED BY <4>1, <4>2 DEF Asleep
    <3> QED BY <3>1, <3>2, DelayRange DEF Left, Later
  <2>3. Asleep(z) = Asleep(z) \ Ready(z)
    BY DEF Tidy, Asleep
  <2>5. {t \in Asleep(z) : Left(z, t) <= 0} = {}
    BY LeftFacts
  <2>4. Elapsed(z, 0, z)
    BY <2>2, <2>3, <2>5 DEF Elapsed, SameState
  <2> QED BY <2>1, <2>4, <1>0
<1>4. ASSUME NEW i \in 1..n, i - 1 \in I PROVE i \in I
  <2>1. f[i - 1] \in Schedulers /\ Elapsed(z, i - 1, f[i - 1]) /\ i - 1 \in 0..portMAX_DELAY - 1 /\ i \in 0..n
    BY <1>4, <1>0, DelayRange
  <2>2. f[i] = vTaskIncrementTick(f[i - 1])
    BY <1>0, <1>1 DEF CaughtUp
  <2>3. f[i] \in Schedulers /\ Elapsed(f[i - 1], 1, f[i])
    BY <2>1, <2>2, TickElapsed, Zenon DEF Elapsed, SameState
  <2>4. Elapsed(z, (i - 1) + 1, f[i])
    BY <2>1, <2>3, ElapsedNext
  <2>5. (i - 1) + 1 = i
    BY <2>1
  <2> QED BY <2>1, <2>3, <2>4, <2>5
<1>5. n \in I
  <2>1. 0..n \subseteq I
    <3> HIDE DEF I
    <3> QED BY <1>0, <1>3, <1>4, UpTo
  <2> QED BY <2>1, <1>0
<1> QED BY <1>2, <1>5, Zenon DEF n

(* The lists of tasks and what they are kept in order by. *)
SamePlaces(z, r) ==
  /\ r.ready = z.ready /\ r.top = z.top /\ r.delayed = z.delayed /\ r.overflow = z.overflow
  /\ r.blocked = z.blocked /\ r.wake = z.wake /\ r.event = z.event /\ r.prio = z.prio
  /\ r.tick = z.tick

(* What the lists are worth depends on nothing but the lists, the *)
(* priorities and the tick count.                                 *)
LEMMA SamePlacesFacts ==
  ASSUME NEW z, NEW r, SamePlaces(z, r)
  PROVE  /\ Ready(r) = Ready(z) /\ Asleep(r) = Asleep(z)
         /\ \A t : Left(r, t) = Left(z, t)
         /\ Tidy(z) => Tidy(r)
         /\ InTime(z) => InTime(r)
         /\ TopOK(z) => TopOK(r)
         /\ EventOK(z) => EventOK(r)
<1>1. Ready(r) = Ready(z)
  BY DEF SamePlaces, Ready
<1>2. Asleep(r) = Asleep(z)
  BY DEF SamePlaces, Asleep
<1>3. \A t : Left(r, t) = Left(z, t)
  BY DEF SamePlaces, Left
<1>4. Tidy(z) => Tidy(r)
  BY <1>1 DEF SamePlaces, Tidy
<1>5. InTime(z) => InTime(r)
  BY DEF SamePlaces, InTime
<1>6. TopOK(z) => TopOK(r)
  BY DEF SamePlaces, TopOK
<1>7. EventOK(z) => EventOK(r)
  BY DEF SamePlaces, EventOK
<1> QED BY <1>1, <1>2, <1>3, <1>4, <1>5, <1>6, <1>7

(* The first k tasks of an event list go to the pending list. *)
WokenFirst(l, k, r) ==
  LET woken == SubSeq(s.waiting[l], 1, k)
  IN  /\ SamePlaces(s, r) /\ r.current = s.current
      /\ r.missedTicks = s.missedTicks /\ r.suspended = s.suspended
      /\ r.waiting = [s.waiting EXCEPT ![l] = SubSeq(@, k + 1, Len(@))]
      /\ r.pending = s.pending \o woken
      /\ r.missedYield = IF \E t \in ToSet(woken) : s.prio[t] >= s.prio[me]
                         THEN 1 ELSE s.missedYield

(* prvUnlockQueue takes as many tasks from the front of the event list as *)
(* were counted, or all of them, and leaves them pending.                 *)
LEMMA WakeCountedFacts ==
  ASSUME s \in Schedulers, NEW l \in EventLists, NEW count \in Nat,
         NEW k, k = IF count <= Len(s.waiting[l]) THEN count ELSE Len(s.waiting[l])
  PROVE  /\ k \in 0..Len(s.waiting[l])
         /\ WakeCounted(l, count) \in Schedulers
         /\ WokenFirst(l, k, WakeCounted(l, count))
<1> DEFINE list == s.waiting[l]
<1>1. list \in Seq(Tasks) /\ s.pending \in Seq(Tasks) /\ Len(list) \in Nat
      /\ s.waiting \in [EventLists -> Seq(Tasks)]
  <2>1. s.waiting \in [EventLists -> Seq(Tasks)] /\ s.pending \in Seq(Tasks)
    BY DEF Schedulers
  <2>2. list \in Seq(Tasks)
    BY <2>1
  <2> QED BY <2>1, <2>2
<1>2. k \in 0..Len(list)
  BY <1>1
<1>3. Min({count, Len(list)}) = k
  <2> DEFINE n == Len(list)
             T == {count, n}
  <2>1. T \in SUBSET Nat /\ T # {}
    BY <1>1
  <2>2. count \in T /\ n \in T /\ \A x \in T : x = count \/ x = n
    OBVIOUS
  <2>4. k = IF count <= n THEN count ELSE n
    OBVIOUS
  <2>5. n \in Nat
    BY <1>1
  <2> HIDE DEF T, n
  <2>3. Min(T) \in T /\ \A y \in T : Min(T) <= y
    BY <2>1, MinFacts
  <2>6. Min(T) = k
    <3>1. PICK m : m = Min(T)
      OBVIOUS
    <3>2. (m = count \/ m = n) /\ m <= count /\ m <= n
      BY <3>1, <2>2, <2>3, Zenon
    <3>3. m = k
      BY <3>2, <2>4, <2>5
    <3> QED BY <3>1, <3>3
  <2> QED BY <2>6 DEF T, n
<1> DEFINE woken == SubSeq(list, 1, k)
           rest == SubSeq(list, k + 1, Len(list))
<1>4. woken \in Seq(Tasks) /\ rest \in Seq(Tasks) /\ Len(woken) = k
  <2> HIDE DEF list
  <2> QED BY <1>1, <1>2, SplitFacts
<1>5. PICK r : r = WakeCounted(l, count)
  OBVIOUS
<1>6. r = [s EXCEPT !.waiting[l] = SubSeq(@, Len(woken) + 1, Len(@)),
                    !.pending = @ \o woken,
                    !.missedYield =
                       IF \E t \in ToSet(woken) : s.prio[t] >= s.prio[me] THEN 1 ELSE @]
  BY <1>3, <1>5, Zenon DEF WakeCounted
<1> HIDE DEF woken
<1>7. /\ r.ready = s.ready /\ r.top = s.top /\ r.delayed = s.delayed /\ r.overflow = s.overflow
      /\ r.blocked = s.blocked /\ r.wake = s.wake /\ r.event = s.event /\ r.prio = s.prio
      /\ r.tick = s.tick /\ r.current = s.current
      /\ r.missedTicks = s.missedTicks /\ r.suspended = s.suspended
      /\ r.waiting = [s.waiting EXCEPT ![l] = rest]
      /\ r.pending = s.pending \o woken
      /\ r.missedYield = IF \E t \in ToSet(woken) : s.prio[t] >= s.prio[me]
                         THEN 1 ELSE s.missedYield
  BY <1>4, <1>6, Zenon DEF Schedulers
<1>8. r \in Schedulers
  <2>1. r = [s EXCEPT !.waiting = r.waiting, !.pending = r.pending, !.missedYield = r.missedYield]
    BY <1>6 DEF Schedulers
  <2>2. r.waiting \in [EventLists -> Seq(Tasks)] /\ r.missedYield \in {0, 1}
    <3>1. s.missedYield \in {0, 1}
      BY DEF Schedulers
    <3> HIDE DEF rest
    <3> QED BY <1>1, <1>4, <1>7, <3>1
  <2>3. r.pending \in Seq(Tasks)
    BY <1>1, <1>4, <1>7, ConcatFacts
  <2> QED BY <2>1, <2>2, <2>3, ZenonT(60) DEF Schedulers
<1> QED BY <1>2, <1>5, <1>7, <1>8 DEF WokenFirst, SamePlaces, woken

(* A sequence that holds every element of a set once. *)
LEMMA SetToSeqsFacts ==
  ASSUME NEW T, IsFiniteSet(T), NEW f \in SetToSeqs(T)
  PROVE  f \in Seq(T) /\ ToSet(f) = T /\ IsInjective(f)
<1> DEFINE n == Cardinality(T)
<1>1. n \in Nat
  BY FS_CardinalityType
<1>2. f \in [1..n -> T] /\ \A i, j \in 1..n : i # j => f[i] # f[j]
  BY DEF SetToSeqs
<1>3. IsFiniteSet(1..n) /\ Cardinality(1..n) = n
  <2> HIDE DEF n
  <2> QED BY <1>1, FS_Interval
<1>4. f \in Injection(1..n, T)
  BY <1>2 DEF Injection, IsInjective
<1>5. f \in Surjection(1..n, T)
  BY <1>3, <1>4, FS_Injection
<1>6. f \in Seq(T)
  <2> HIDE DEF n
  <2> QED BY <1>1, <1>2
<1>7. ToSet(f) = T
  BY <1>2, <1>5 DEF ToSet, Surjection
<1> QED BY <1>4, <1>6, <1>7 DEF Injection

(* When the scheduler starts every task is ready, at its own priority, *)
(* and one of the highest priority runs.                               *)
LEMMA StartedFacts ==
  ASSUME NEW z \in Started, z.current = Last(z.ready[z.top])
  PROVE  /\ z \in Schedulers /\ Tidy(z) /\ InTime(z) /\ TopOK(z) /\ EventOK(z)
         /\ Ready(z) = Tasks /\ \A t \in Tasks : z.prio[t] <= z.prio[z.current]
         /\ z.prio = uxBasePriority /\ z.pending = <<>> /\ Asleep(z) = {}
         /\ z.waiting = [l \in EventLists |-> <<>>]
         /\ z.tick = 0 /\ z.missedTicks = 0 /\ z.missedYield = 0 /\ z.suspended = 0
<1> DEFINE Of(p) == {t \in Tasks : uxBasePriority[t] = p}
           levels == {uxBasePriority[t] : t \in Tasks}
<1>1. /\ z.top = Max(levels) /\ z.pending = <<>> /\ z.delayed = <<>> /\ z.overflow = <<>>
      /\ z.blocked = {} /\ z.waiting = [l \in EventLists |-> <<>>]
      /\ z.wake = [t \in Tasks |-> 0]
      /\ z.event = [t \in Tasks |-> configMAX_PRIORITIES - uxBasePriority[t]]
      /\ z.prio = uxBasePriority /\ z.tick = 0 /\ z.missedTicks = 0 /\ z.missedYield = 0
      /\ z.suspended = 0 /\ z.current \in Tasks
  BY DEF Started
<1>2. /\ z = [z EXCEPT !.ready = z.ready]
      /\ z.ready \in [Priorities -> UNION {SetToSeqs(Of(p)) : p \in Priorities}]
      /\ \A p \in Priorities : z.ready[p] \in SetToSeqs(Of(p))
  BY DEF Started
<1>3. \A t \in Tasks : uxBasePriority[t] \in Priorities
  BY PriorityRange DEF uxBasePriority, Tasks
<1>3a. uxBasePriority \in [Tasks -> Priorities]
  BY <1>3, Zenon DEF uxBasePriority
<1>4. /\ z.top \in Priorities /\ z.top \in levels /\ \A t \in Tasks : uxBasePriority[t] <= z.top
  <2>1. levels \in SUBSET (0..4) /\ levels # {} /\ \A t \in Tasks : uxBasePriority[t] \in levels
    BY <1>3, PriorityRange DEF Tasks
  <2> HIDE DEF levels
  <2>2. Max(levels) \in levels /\ \A y \in levels : Max(levels) >= y
    BY <2>1, MaxFacts
  <2>3. \A t \in Tasks : uxBasePriority[t] \in 0..4
    BY <2>1, Zenon
  <2> QED BY <1>1, <2>1, <2>2, <2>3, PriorityRange, Zenon
<1>5. ASSUME NEW p \in Priorities
      PROVE  z.ready[p] \in Seq(Tasks) /\ ToSet(z.ready[p]) = Of(p) /\ IsInjective(z.ready[p])
  <2>1. IsFiniteSet(Of(p)) /\ Of(p) \subseteq Tasks
    BY TasksAssumption, FS_Subset
  <2>2. z.ready[p] \in SetToSeqs(Of(p))
    BY <1>2
  <2> HIDE DEF Of
  <2>3. z.ready[p] \in Seq(Of(p)) /\ ToSet(z.ready[p]) = Of(p) /\ IsInjective(z.ready[p])
    BY <2>1, <2>2, SetToSeqsFacts
  <2>4. z.ready[p] \in Seq(Tasks)
    BY <2>1, <2>3
  <2> QED BY <2>3, <2>4
<1> HIDE DEF levels
<1>6. z \in Schedulers
  <2>1. z.ready \in [Priorities -> Seq(Tasks)]
    BY <1>2, <1>5
  <2>2. \A t \in Tasks : configMAX_PRIORITIES - uxBasePriority[t] \in 0..configMAX_PRIORITIES
    BY <1>3, PriorityRange DEF configMAX_PRIORITIES
  <2>3. z.event \in [Tasks -> 0..configMAX_PRIORITIES] /\ z.wake \in [Tasks -> 0..portMAX_DELAY]
    BY <1>1, <2>2, DelayRange
  <2>4. z.tick \in 0..portMAX_DELAY
    BY <1>1, DelayRange
  <2>5. z.pending \in Seq(Tasks) /\ z.waiting \in [EventLists -> Seq(Tasks)]
        /\ z.delayed \in Seq(Tasks) /\ z.overflow \in Seq(Tasks)
    BY <1>1
  <2>6. DOMAIN z = DOMAIN [current |-> 0, ready |-> 0, top |-> 0, pending |-> 0, delayed |-> 0,
                           overflow |-> 0, blocked |-> 0, waiting |-> 0, wake |-> 0, event |-> 0,
                           prio |-> 0, tick |-> 0, missedTicks |-> 0, missedYield |-> 0,
                           suspended |-> 0]
    BY DEF Started
  <2>7. z = [current |-> z.current, ready |-> z.ready, top |-> z.top, pending |-> z.pending,
             delayed |-> z.delayed, overflow |-> z.overflow, blocked |-> z.blocked,
             waiting |-> z.waiting, wake |-> z.wake, event |-> z.event, prio |-> z.prio,
             tick |-> z.tick, missedTicks |-> z.missedTicks, missedYield |-> z.missedYield,
             suspended |-> z.suspended]
    BY DEF Started
  <2>8. z.prio \in [Tasks -> Priorities] /\ z.top \in Priorities /\ z.blocked \in SUBSET Tasks
    BY <1>1, <1>3a, <1>4
  <2>9. z.missedTicks \in Nat /\ z.missedYield \in {0, 1} /\ z.suspended \in {0, 1} /\ z.current \in Tasks
    BY <1>1
  <2> QED BY <2>1, <2>3, <2>4, <2>5, <2>7, <2>8, <2>9 DEF Schedulers
<1>7. Ready(z) = Tasks
  <2>1. \A t \in Tasks : t \in Of(uxBasePriority[t])
    OBVIOUS
  <2>2. ASSUME NEW t PROVE t \in Ready(z) <=> t \in Tasks
    BY <1>3, <1>5, <2>1, InReady
  <2> QED BY <2>2, Zenon
<1>8. ToSet(z.delayed) = {} /\ ToSet(z.overflow) = {} /\ IsInjective(z.delayed) /\ IsInjective(z.overflow)
  <2> DEFINE none == <<>>
  <2>1. none \in Seq(Tasks) /\ DOMAIN none = {}
    OBVIOUS
  <2>2. z.delayed = none /\ z.overflow = none
    BY <1>1
  <2> HIDE DEF none
  <2> QED BY <2>1, <2>2 DEF ToSet, IsInjective
<1>9. Tidy(z)
  <2>1. \A p \in Priorities : \A t \in ToSet(z.ready[p]) : z.prio[t] = p
    BY <1>1, <1>5
  <2>2. \A p \in Priorities : IsInjective(z.ready[p])
    BY <1>5
  <2> QED BY <1>1, <1>7, <1>8, <2>1, <2>2 DEF Tidy
<1>10. InTime(z)
  <2> DEFINE none == <<>>
  <2>1. DOMAIN none = {}
    OBVIOUS
  <2>2. z.delayed = none /\ z.overflow = none
    BY <1>1
  <2> HIDE DEF none
  <2> QED BY <1>8, <2>1, <2>2 DEF InTime
<1>11. TopOK(z)
  <2> SUFFICES ASSUME NEW p \in Priorities, z.ready[p] # <<>> PROVE p <= z.top
    BY DEF TopOK
  <2>1. PICK t : t \in Of(p)
    <3>1. z.ready[p] \in Seq(Tasks) /\ ToSet(z.ready[p]) = Of(p)
      BY <1>5
    <3> HIDE DEF Of
    <3> QED BY <3>1, InToSet
  <2> QED BY <2>1, <1>4
<1>12. EventOK(z)
  BY <1>1 DEF EventOK
<1>13. \A t \in Tasks : z.prio[t] <= z.prio[z.current]
  <2> DEFINE list == z.ready[z.top]
  <2>1. list \in Seq(Tasks) /\ ToSet(list) = Of(z.top)
    BY <1>4, <1>5
  <2>2. PICK u \in Tasks : uxBasePriority[u] = z.top
    BY <1>4 DEF levels
  <2>3. u \in ToSet(list)
    BY <2>1, <2>2
  <2>4. z.current = list[Len(list)]
    BY DEF Last
  <2> HIDE DEF list
  <2>5. Len(list) \in 1..Len(list)
    BY <2>1, <2>3, InToSet
  <2>6. z.current \in ToSet(list)
    BY <2>1, <2>4, <2>5, InToSet
  <2>7. uxBasePriority[z.current] = z.top
    BY <2>1, <2>6
  <2> QED BY <1>1, <1>4, <2>7
<1>14. Asleep(z) = {}
  BY <1>8 DEF Asleep
<1> QED BY <1>1, <1>6, <1>7, <1>9, <1>10, <1>11, <1>12, <1>13, <1>14

-----------------------------------------------------------------------------
(* The invariant and the calls. *)

Queues == [messages : 0..QueueLength, holder : Tasks \cup {NoTask},
           txLock : -1..MaxLock, rxLock : -1..MaxLock]

Typed == /\ s \in Schedulers /\ s.missedTicks <= MaxMissed
         /\ q \in Queues /\ call \in [Tasks -> Records] /\ now \in 0..portMAX_DELAY

(* Where the running task holds the scheduler suspended, and where it is   *)
(* about to let it go again.                                               *)
Suspending == {"lock", "check", "test", "place", "unlockTx", "unlockRx", "resume", "delay"}
Leaving == {"unlockTx", "unlockRx", "resume"}

Lists(z) == Tidy(z) /\ InTime(z) /\ TopOK(z) /\ EventOK(z)

(* A task is at most once in one event list or the pending list, and then  *)
(* it is not ready.                                                        *)
Apart(z) ==
  /\ \A l \in EventLists : /\ IsInjective(z.waiting[l]) /\ Rising(z.waiting[l], z.event)
                           /\ ToSet(z.waiting[l]) \cap (ToSet(z.pending) \cup Ready(z)) = {}
  /\ ToSet(z.waiting["send"]) \cap ToSet(z.waiting["receive"]) = {}
  /\ IsInjective(z.pending) /\ ToSet(z.pending) \cap Ready(z) = {}

(* A call that may find its task on a list.                                *)
Parked(c) == \/ c.at \in {"top", "yield"}
             \/ c.at \in Leaving /\ c.after = "yield"

Queued(z, calls) ==
  /\ \A l \in EventLists : \A t \in ToSet(z.waiting[l]) : calls[t].op = l /\ Parked(calls[t])
  /\ \A t \in ToSet(z.pending) : calls[t].op \in EventLists /\ Parked(calls[t])

CallOK(c) ==
  /\ c.at = "out" => c = NoCall
  /\ c.at # "out" => c.op # "none"
  /\ c.at \notin Leaving => c.after = "out"
  /\ c.at \in {"top", "suspend", "lock", "check", "test", "place", "unlockTx", "unlockRx"}
       => c.op \in EventLists
  /\ c.at = "delay" => c.op = "delay"
  /\ c.op = "delay" /\ c.at = "resume" => c.after = "yield"
  /\ c.at \in {"delay", "suspend", "lock", "check", "test", "place"} => c.wait > 0

Calls(z, calls) ==
  /\ \A t \in Tasks : CallOK(calls[t])
  /\ calls[Idle] = NoCall /\ Idle \in Ready(z)

Suspension(z, calls) ==
  /\ \A t \in Tasks : calls[t].at \in Suspending <=> t = z.current /\ z.suspended = 1
  /\ z.suspended = 0 => z.pending = <<>> /\ z.missedTicks = 0 /\ z.missedYield = 0

Orderly(z, calls) == Lists(z) /\ Apart(z) /\ Queued(z, calls) /\ Calls(z, calls)
Sound(z, calls) == Orderly(z, calls) /\ Suspension(z, calls)

TxHeld == {"check", "test", "place", "unlockTx"}
RxHeld == {"check", "test", "place", "unlockTx", "unlockRx"}
Locks == /\ q.txLock >= 0 <=> call[me].at \in TxHeld
         /\ q.rxLock >= 0 <=> call[me].at \in RxHeld

Running == ~Parked(call[me]) \/ At("top") => me \in Ready(s)

Base == Sound(s, call) /\ Locks /\ TicksNeverSlip /\ Running

(* The types of what the steps of the running task read. *)
LEMMA MeTyped ==
  ASSUME Typed
  PROVE  /\ me \in Tasks /\ call[me] \in Records
         /\ s.suspended \in {0, 1} /\ s.tick \in 0..portMAX_DELAY
         /\ s.prio \in [Tasks -> Priorities]
         /\ s.waiting \in [EventLists -> Seq(Tasks)] /\ s.pending \in Seq(Tasks)
         /\ call \in [Tasks -> Records]
         /\ \A t \in Ready(s) : t \in Tasks
<1>1. ASSUME NEW t \in Ready(s) PROVE t \in Tasks
  <2>1. PICK p \in Priorities : t \in ToSet(s.ready[p])
    BY <1>1, InReady
  <2>2. s.ready[p] \in Seq(Tasks)
    BY DEF Typed, Schedulers
  <2> QED BY <2>1, <2>2, InToSet
<1>2. /\ me \in Tasks /\ s.suspended \in {0, 1} /\ s.tick \in 0..portMAX_DELAY
      /\ s.prio \in [Tasks -> Priorities]
      /\ s.waiting \in [EventLists -> Seq(Tasks)] /\ s.pending \in Seq(Tasks)
  BY Zenon DEF Typed, Schedulers, me
<1>3. call \in [Tasks -> Records]
  BY DEF Typed
<1> QED BY <1>1, <1>2, <1>3

(* The running task is ready and in no other list before it parks.         *)
LEMMA MeReady ==
  ASSUME Typed, Base, ~Parked(call[me]) \/ At("top")
  PROVE  /\ me \in Ready(s) /\ me \notin ToSet(s.pending)
         /\ \A l \in EventLists : me \notin ToSet(s.waiting[l])
<1>1. me \in Ready(s)
  BY DEF Base, Running
<1> QED BY <1>1 DEF Base, Sound, Orderly, Apart

(* The idle task calls nothing. *)
LEMMA InCall ==
  ASSUME Typed, Base, ~At("out") PROVE me # Idle
BY DEF Base, Sound, Orderly, Calls, At, NoCall

(* Only the running task's call and the queue change. *)
LEMMA CallStep ==
  ASSUME Typed, Base, s' = s, now' = now, q' \in Queues,
         NEW c \in Records, call' = [call EXCEPT ![me] = c],
         ~Parked(call[me]) \/ At("top"), me # Idle, CallOK(c),
         c.at \in Suspending <=> s.suspended = 1,
         q'.txLock >= 0 <=> c.at \in TxHeld,
         q'.rxLock >= 0 <=> c.at \in RxHeld
  PROVE  Typed' /\ Base'
<1>1. /\ me \in Tasks /\ me \in Ready(s) /\ me \notin ToSet(s.pending)
      /\ \A l \in EventLists : me \notin ToSet(s.waiting[l])
  BY MeTyped, MeReady
<1>2. call \in [Tasks -> Records]
  BY DEF Typed
<1>3. call'[me] = c /\ \A t \in Tasks \ {me} : call'[t] = call[t]
  BY <1>1, <1>2
<1>4. Typed'
  BY <1>1, <1>2 DEF Typed
<1>5. Lists(s') /\ Apart(s') /\ TicksNeverSlip'
  BY DEF Base, Sound, Orderly, TicksNeverSlip
<1>6. Queued(s', call')
  <2>1. /\ \A l \in EventLists : ToSet(s.waiting[l]) \subseteq Tasks
        /\ ToSet(s.pending) \subseteq Tasks
    BY MeTyped, InToSet
  <2> QED BY <2>1, <1>1, <1>3 DEF Base, Sound, Orderly, Queued
<1>7. Calls(s', call')
  <2>1. call'[Idle] = NoCall
    BY <1>3 DEF Base, Sound, Orderly, Calls, Tasks
  <2>2. \A t \in Tasks : CallOK(call'[t])
    BY <1>3 DEF Base, Sound, Orderly, Calls
  <2> QED BY <2>1, <2>2 DEF Base, Sound, Orderly, Calls
<1>8. Suspension(s', call')
  <2>1. \A t \in Tasks : call'[t].at \in Suspending <=> t = me /\ s.suspended = 1
    BY <1>3 DEF Base, Sound, Orderly, Suspension, me
  <2> QED BY <2>1 DEF Base, Sound, Orderly, Suspension, me
<1>9. Locks'
  BY <1>3 DEF Locks, me
<1>10. Running'
  BY <1>1 DEF Running, me
<1> QED BY <1>4, <1>5, <1>6, <1>7, <1>8, <1>9, <1>10 DEF Base, Sound, Orderly

(* A call that begins keeps Base. *)
LEMMA BeginBase ==
  ASSUME Typed, Base, NEW op \in EventLists, NEW n \in BlockTimes, Begin(op, n)
  PROVE  Typed' /\ Base'
<1> DEFINE c == [NoCall EXCEPT !.at = "top", !.op = op, !.wait = n, !.limit = n]
<1>1. /\ me # Idle /\ At("out") /\ call' = [call EXCEPT ![me] = c]
      /\ s' = s /\ q' = q /\ now' = now
  BY DEF Begin
<1>2. n \in 0..portMAX_DELAY
  BY QueueAssumption
<1>3. c \in Records
  <2>1. NoCall \in Records
    BY DelayRange DEF NoCall, Records
  <2> QED BY <1>2, <2>1, Zenon DEF Records, EventLists
<1>4. CallOK(c) /\ c.at = "top"
  BY DEF CallOK, NoCall, Leaving, EventLists
<1> HIDE DEF c
<1>5. call[me].at = "out"
  BY <1>1 DEF At
<1>6. s.suspended # 1 /\ ~(q.txLock >= 0) /\ ~(q.rxLock >= 0)
  BY <1>5, MeTyped, Zenon DEF Base, Sound, Orderly, Suspension, me, Locks, Suspending, TxHeld, RxHeld
<1>7. ~Parked(call[me])
  BY <1>5 DEF Parked, Leaving
<1>8. q' \in Queues
  BY <1>1 DEF Typed
<1> QED BY <1>1, <1>3, <1>4, <1>6, <1>7, <1>8, CallStep, Zenon DEF Suspending, TxHeld, RxHeld

(* A call without a block time that fails keeps Base. *)
LEMMA FailBase ==
  ASSUME Typed, Base, Fail PROVE Typed' /\ Base'
<1>1. /\ At("top") /\ call' = [call EXCEPT ![me] = NoCall]
      /\ s' = s /\ q' = q /\ now' = now
  BY DEF Fail, Return
<1>2. NoCall \in Records /\ CallOK(NoCall) /\ NoCall.at = "out"
  BY DelayRange DEF NoCall, Records, CallOK, Leaving
<1>3. s.suspended # 1 /\ ~(q.txLock >= 0) /\ ~(q.rxLock >= 0)
  BY <1>1, MeTyped, Zenon DEF Base, Sound, Orderly, Suspension, me, Locks, Suspending, TxHeld, RxHeld, At
<1>4. q' \in Queues /\ me # Idle
  BY <1>1, InCall DEF Typed, At
<1> QED BY <1>1, <1>2, <1>3, <1>4, CallStep, Zenon DEF Suspending, TxHeld, RxHeld

(* The first look at the clock keeps Base. *)
LEMMA SetTimeOutBase ==
  ASSUME Typed, Base, vTaskSetTimeOutState PROVE Typed' /\ Base'
<1> DEFINE c == [call[me] EXCEPT !.at = "suspend", !.entrySet = 1,
                   !.entering = IF call[me].entrySet = 0 THEN s.tick ELSE @]
<1>0. me \in Tasks /\ call \in [Tasks -> Records] /\ call[me] \in Records /\ s.tick \in 0..portMAX_DELAY
  BY MeTyped
<1>1. /\ At("top") /\ call[me].wait > 0 /\ call' = [call EXCEPT ![me] = c]
      /\ s' = s /\ q' = q /\ now' = now
  BY <1>0, Zenon DEF vTaskSetTimeOutState
<1>2. c \in Records
  BY <1>0, Zenon DEF Records
<1>3. c.at = "suspend" /\ c.op = call[me].op /\ c.wait = call[me].wait /\ c.after = call[me].after
  BY <1>0 DEF Records
<1> HIDE DEF c
<1>4. CallOK(c)
  BY <1>0, <1>1, <1>3 DEF Base, Sound, Orderly, Calls, CallOK, At, Leaving, EventLists
<1>5. s.suspended # 1 /\ ~(q.txLock >= 0) /\ ~(q.rxLock >= 0)
  BY <1>0, <1>1 DEF Base, Sound, Orderly, Suspension, me, Locks, Suspending, TxHeld, RxHeld, At
<1>6. q' \in Queues /\ me # Idle
  BY <1>1, InCall DEF Typed, At
<1> QED BY <1>1, <1>2, <1>3, <1>4, <1>5, <1>6, CallStep, Zenon DEF Suspending, TxHeld, RxHeld

(* Locking the queue keeps Base. *)
LEMMA LockBase ==
  ASSUME Typed, Base, prvLockQueue PROVE Typed' /\ Base'
<1> DEFINE c == [call[me] EXCEPT !.at = "check"]
<1>0. me \in Tasks /\ call \in [Tasks -> Records] /\ call[me] \in Records
  BY MeTyped
<1>1. /\ At("lock") /\ call' = [call EXCEPT ![me] = c]
      /\ q' = [q EXCEPT !.rxLock = IF @ = -1 THEN 0 ELSE @, !.txLock = IF @ = -1 THEN 0 ELSE @]
      /\ s' = s /\ now' = now
  BY <1>0 DEF prvLockQueue, Goto
<1>2. c \in Records
  BY <1>0 DEF Records
<1>3. c.at = "check" /\ c.op = call[me].op /\ c.wait = call[me].wait /\ c.after = call[me].after
  BY <1>0 DEF Records
<1> HIDE DEF c
<1>4. CallOK(c)
  BY <1>0, <1>1, <1>3 DEF Base, Sound, Orderly, Calls, CallOK, At, Leaving, EventLists
<1>5. s.suspended = 1 /\ ~Parked(call[me])
  BY <1>0, <1>1 DEF Base, Sound, Orderly, Suspension, me, Suspending, At, Parked, Leaving
<1>6. q' \in Queues /\ q'.txLock >= 0 /\ q'.rxLock >= 0
  <2>1. q.txLock \in -1..MaxLock /\ q.rxLock \in -1..MaxLock /\ MaxLock \in Nat
    BY QueueAssumption DEF Typed, Queues
  <2> DEFINE tx == IF q.txLock = -1 THEN 0 ELSE q.txLock
             rx == IF q.rxLock = -1 THEN 0 ELSE q.rxLock
  <2>2. tx \in 0..MaxLock /\ rx \in 0..MaxLock
    BY <2>1
  <2>3. q' = [q EXCEPT !.rxLock = rx, !.txLock = tx]
    BY <1>1
  <2> HIDE DEF tx, rx
  <2>4. tx \in -1..MaxLock /\ rx \in -1..MaxLock /\ tx >= 0 /\ rx >= 0
    BY <2>1, <2>2
  <2> QED BY <2>3, <2>4, Zenon DEF Typed, Queues
<1>7. me # Idle
  BY <1>1, InCall DEF At
<1> QED BY <1>1, <1>2, <1>3, <1>4, <1>5, <1>6, <1>7, CallStep, Zenon DEF Suspending, TxHeld, RxHeld

(* What a call is after the time-out check. *)
Checked(c) ==
  /\ At("check") /\ s' = s /\ q' = q /\ now' = now
  /\ call' = [call EXCEPT ![me] = c]
  /\ LET b == call[me]
         elapsed == (s.tick - b.entering) % TickModulus
         expired == (b.wrapped = 1 /\ s.tick >= b.entering) \/ elapsed >= b.wait
     IN  \/ /\ b.wait = portMAX_DELAY
            /\ c = [b EXCEPT !.at = "test"]
         \/ /\ b.wait < portMAX_DELAY /\ ~expired
            /\ c = [b EXCEPT !.at = "test", !.wait = b.wait - elapsed, !.entering = s.tick,
                             !.wrapped = 0]
         \/ /\ b.wait < portMAX_DELAY /\ expired
            /\ c = [b EXCEPT !.at = "unlockTx", !.after = "out"]

(* xTaskCheckForTimeOut goes on with the call's record changed in one of *)
(* three ways.                                                           *)
LEMMA CheckFacts ==
  ASSUME Typed, xTaskCheckForTimeOut PROVE \E c \in Records : Checked(c)
<1> DEFINE b == call[me]
           elapsed == (s.tick - b.entering) % TickModulus
           expired == (b.wrapped = 1 /\ s.tick >= b.entering) \/ elapsed >= b.wait
<1>0. me \in Tasks /\ call \in [Tasks -> Records] /\ b \in Records /\ s.tick \in 0..portMAX_DELAY
  BY MeTyped
<1>1. At("check") /\ s' = s /\ q' = q /\ now' = now
  BY DEF xTaskCheckForTimeOut
<1>2. elapsed \in 0..portMAX_DELAY
  <2>1. b.entering \in 0..portMAX_DELAY
    BY <1>0 DEF Records
  <2> QED BY <1>0, <2>1, DelayRange
<1>3. CASE b.wait = portMAX_DELAY /\ Goto("test")
  <2> DEFINE c == [b EXCEPT !.at = "test"]
  <2>1. c \in Records
    BY <1>0 DEF Records
  <2>2. call' = [call EXCEPT ![me] = c]
    BY <1>3, <1>0 DEF Goto
  <2> QED BY <1>1, <1>3, <2>1, <2>2, Zenon DEF Checked
<1>4. CASE /\ b.wait < portMAX_DELAY /\ ~expired
           /\ call' = [call EXCEPT ![me] = [Remaining(@, elapsed) EXCEPT !.at = "test"]]
  <2> DEFINE c == [b EXCEPT !.at = "test", !.wait = b.wait - elapsed, !.entering = s.tick,
                            !.wrapped = 0]
  <2>1. b.wait - elapsed \in 0..portMAX_DELAY
    <3>1. b.wait \in 0..portMAX_DELAY
      BY <1>0 DEF Records
    <3>2. ~(elapsed >= b.wait)
      BY <1>4
    <3> HIDE DEF elapsed
    <3> QED BY <3>1, <3>2, <1>2, DelayRange
  <2> HIDE DEF elapsed, expired
  <2>2. c \in Records
    BY <2>1, <1>0, Zenon DEF Records
  <2>3. [Remaining(b, elapsed) EXCEPT !.at = "test"] = c
    BY <1>0, Zenon DEF Remaining, Records
  <2>4. call' = [call EXCEPT ![me] = c]
    BY <1>4, <2>3, <1>0, Zenon
  <2> QED BY <1>1, <1>4, <2>2, <2>4, Zenon DEF Checked, elapsed, expired
<1>5. CASE /\ b.wait < portMAX_DELAY /\ expired
           /\ call' = [call EXCEPT ![me].at = "unlockTx", ![me].after = "out"]
  <2> DEFINE c == [b EXCEPT !.at = "unlockTx", !.after = "out"]
  <2>1. c \in Records
    BY <1>0, Zenon DEF Records
  <2>2. call' = [call EXCEPT ![me] = c]
    BY <1>5, <1>0, Zenon
  <2> QED BY <1>1, <1>5, <2>1, <2>2, Zenon DEF Checked
<1> QED BY <1>3, <1>4, <1>5 DEF xTaskCheckForTimeOut

(* xTaskCheckForTimeOut keeps Base. *)
LEMMA CheckBase ==
  ASSUME Typed, Base, xTaskCheckForTimeOut PROVE Typed' /\ Base'
<1>1. PICK c \in Records : Checked(c)
  BY CheckFacts
<1> DEFINE b == call[me]
           elapsed == (s.tick - b.entering) % TickModulus
<1>2. me \in Tasks /\ b \in Records /\ s.tick \in 0..portMAX_DELAY
  BY MeTyped
<1>3. b.at = "check" /\ b.op \in EventLists /\ b.after = "out" /\ b.wait > 0
  BY <1>1, <1>2 DEF Checked, At, Base, Sound, Orderly, Calls, CallOK, Leaving
<1>4. elapsed \in Int /\ b.wait \in Int
  <2>1. b.entering \in 0..portMAX_DELAY /\ b.wait \in 0..portMAX_DELAY
    BY <1>2 DEF Records
  <2> QED BY <1>2, <2>1, DelayRange
<1> HIDE DEF elapsed
<1>5. c.op = b.op /\ c.after = "out" /\ (c.at = "unlockTx" \/ (c.at = "test" /\ c.wait > 0))
  <2>1. CASE /\ b.wait = portMAX_DELAY
             /\ c = [b EXCEPT !.at = "test"]
    BY <2>1, <1>2, <1>3 DEF Records
  <2>2. CASE /\ ~(elapsed >= b.wait)
             /\ c = [b EXCEPT !.at = "test", !.wait = b.wait - elapsed, !.entering = s.tick,
                              !.wrapped = 0]
    <3>1. b.wait - elapsed > 0
      BY <2>2, <1>4
    <3> QED BY <2>2, <3>1, <1>2, <1>3 DEF Records
  <2>3. CASE c = [b EXCEPT !.at = "unlockTx", !.after = "out"]
    BY <2>3, <1>2, <1>3 DEF Records
  <2> QED BY <1>1, <2>1, <2>2, <2>3 DEF Checked, elapsed
<1>6. CallOK(c) /\ c.at \in Suspending /\ c.at \in TxHeld /\ c.at \in RxHeld
  BY <1>3, <1>5 DEF CallOK, Leaving, EventLists, Suspending, TxHeld, RxHeld
<1>7. s.suspended = 1 /\ ~Parked(b) /\ q.txLock >= 0 /\ q.rxLock >= 0
  BY <1>2, <1>3 DEF Base, Sound, Orderly, Suspension, me, Suspending, Parked, Leaving, Locks, TxHeld, RxHeld
<1>8. q' \in Queues /\ me # Idle
  BY <1>1, <1>3, InCall DEF Typed, At, Checked
<1> QED BY <1>1, <1>6, <1>7, <1>8, CallStep, Zenon DEF Checked

(* Looking at the queue again keeps Base. *)
LEMMA RetestBase ==
  ASSUME Typed, Base, Retest PROVE Typed' /\ Base'
<1> DEFINE b == call[me]
<1>0. me \in Tasks /\ call \in [Tasks -> Records] /\ b \in Records
  BY MeTyped
<1>1. At("test") /\ s' = s /\ q' = q /\ now' = now
  BY DEF Retest
<1>2. PICK c \in Records : /\ call' = [call EXCEPT ![me] = c]
                           /\ c.op = b.op /\ c.wait = b.wait
                           /\ \/ c.at = "place" /\ c.after = b.after
                              \/ c.at = "unlockTx" /\ c.after = "top"
  <2>1. CASE call' = [call EXCEPT ![me].at = "unlockTx", ![me].after = "top"]
    <3> DEFINE c == [b EXCEPT !.at = "unlockTx", !.after = "top"]
    <3>1. c \in Records /\ c.op = b.op /\ c.wait = b.wait /\ c.at = "unlockTx" /\ c.after = "top"
      BY <1>0, Zenon DEF Records
    <3>2. call' = [call EXCEPT ![me] = c]
      BY <2>1, <1>0, Zenon
    <3> QED BY <3>1, <3>2, Zenon
  <2>2. CASE Goto("place")
    <3> DEFINE c == [b EXCEPT !.at = "place"]
    <3>1. c \in Records /\ c.op = b.op /\ c.wait = b.wait /\ c.at = "place" /\ c.after = b.after
      BY <1>0 DEF Records
    <3>2. call' = [call EXCEPT ![me] = c]
      BY <2>2, <1>0 DEF Goto
    <3> QED BY <3>1, <3>2, Zenon
  <2> QED BY <2>1, <2>2 DEF Retest
<1>3. b.at = "test" /\ b.op \in EventLists /\ b.after = "out" /\ b.wait > 0
  BY <1>0, <1>1 DEF At, Base, Sound, Orderly, Calls, CallOK, Leaving
<1>4. CallOK(c) /\ c.at \in Suspending /\ c.at \in TxHeld /\ c.at \in RxHeld
  BY <1>2, <1>3 DEF CallOK, Leaving, EventLists, Suspending, TxHeld, RxHeld
<1>5. s.suspended = 1 /\ ~Parked(b) /\ q.txLock >= 0 /\ q.rxLock >= 0
  BY <1>0, <1>3 DEF Base, Sound, Orderly, Suspension, me, Suspending, Parked, Leaving, Locks, TxHeld, RxHeld
<1>6. q' \in Queues /\ me # Idle
  BY <1>1, InCall DEF Typed, At
<1> QED BY <1>1, <1>2, <1>4, <1>5, <1>6, CallStep, Zenon

(* What is ready is a task. *)
LEMMA ReadyTasks ==
  ASSUME NEW z \in Schedulers, NEW t \in Ready(z) PROVE t \in Tasks
<1>1. PICK p \in Priorities : t \in ToSet(z.ready[p])
  BY InReady
<1>2. z.ready[p] \in Seq(Tasks)
  BY DEF Schedulers
<1> QED BY <1>1, <1>2, InToSet

(* The calls with c in place of t's still fit the lists. *)
Replaced(z, calls, t, c, after) ==
  /\ after \in [Tasks -> Records] /\ after[t] = c
  /\ \A u \in Tasks \ {t} : after[u] = calls[u]
  /\ Queued(z, after) /\ Calls(z, after)

(* Replacing the call of a task in none of the lists. *)
LEMMA OneCall ==
  ASSUME NEW z \in Schedulers, NEW calls \in [Tasks -> Records], Queued(z, calls), Calls(z, calls),
         NEW t \in Tasks, t # Idle, t \notin ToSet(z.pending),
         \A l \in EventLists : t \notin ToSet(z.waiting[l]),
         NEW c \in Records, CallOK(c), NEW after, after = [calls EXCEPT ![t] = c]
  PROVE  Replaced(z, calls, t, c, after)
<1>1. after \in [Tasks -> Records] /\ after[t] = c /\ \A u \in Tasks \ {t} : after[u] = calls[u]
  OBVIOUS
<1>2. Queued(z, after)
  <2>1. z.waiting \in [EventLists -> Seq(Tasks)] /\ z.pending \in Seq(Tasks)
    BY DEF Schedulers
  <2>2. /\ \A l \in EventLists : ToSet(z.waiting[l]) \subseteq Tasks
        /\ ToSet(z.pending) \subseteq Tasks
    BY <2>1, InToSet
  <2> QED BY <2>2, <1>1 DEF Queued
<1>3. Calls(z, after)
  <2>1. after[Idle] = NoCall
    BY <1>1 DEF Calls, Tasks
  <2>2. \A u \in Tasks : CallOK(after[u])
    BY <1>1 DEF Calls
  <2> QED BY <2>1, <2>2 DEF Calls
<1> QED BY <1>1, <1>2, <1>3 DEF Replaced

(* vTaskSuspendAll *)
Suspended(z, r) ==
  /\ SamePlaces(z, r) /\ r.current = z.current /\ r.waiting = z.waiting /\ r.pending = z.pending
  /\ r.missedTicks = z.missedTicks /\ r.missedYield = z.missedYield /\ r.suspended = 1

(* vTaskSuspendAll only sets the flag. *)
LEMMA SuspendFacts ==
  ASSUME NEW z \in Schedulers, NEW r, r = [z EXCEPT !.suspended = 1]
  PROVE  r \in Schedulers /\ Suspended(z, r)
<1>1. r \in Schedulers
  BY Zenon DEF Schedulers
<1>2. Suspended(z, r)
  BY DEF Schedulers, Suspended, SamePlaces
<1> QED BY <1>1, <1>2

(* A step of the running task that suspends the scheduler keeps Base. *)
LEMMA SuspendStep ==
  ASSUME Typed, Base, s' = [s EXCEPT !.suspended = 1], now' = now, q' = q,
         NEW c \in Records, call' = [call EXCEPT ![me] = c],
         call[me].at \notin Suspending, ~Parked(call[me]), me # Idle, CallOK(c),
         c.at \in Suspending, c.at \notin TxHeld, c.at \notin RxHeld
  PROVE  Typed' /\ Base'
<1>1. s' \in Schedulers /\ Suspended(s, s') /\ s \in Schedulers
  BY SuspendFacts DEF Typed
<1>2. /\ me \in Tasks /\ me \in Ready(s) /\ me \notin ToSet(s.pending)
      /\ \A l \in EventLists : me \notin ToSet(s.waiting[l])
      /\ call \in [Tasks -> Records]
  BY MeTyped, MeReady
<1>3. Queued(s, call) /\ Calls(s, call)
  BY DEF Base, Sound, Orderly
<1>4. /\ call' \in [Tasks -> Records] /\ call'[me] = c
      /\ \A u \in Tasks \ {me} : call'[u] = call[u]
      /\ Queued(s, call') /\ Calls(s, call')
  <2>1. Replaced(s, call, me, c, call')
    BY <1>1, <1>2, <1>3, OneCall, Zenon
  <2> QED BY <2>1 DEF Replaced
<1>5. Typed'
  BY <1>1, <1>4 DEF Typed, Suspended
<1>6. /\ Ready(s') = Ready(s) /\ Lists(s')
  <2>1. SamePlaces(s, s') /\ Lists(s)
    BY <1>1 DEF Suspended, Base, Sound, Orderly
  <2> QED BY <2>1, SamePlacesFacts DEF Lists
<1>7. Apart(s')
  BY <1>1, <1>6 DEF Base, Sound, Orderly, Apart, Suspended, SamePlaces
<1>8. Queued(s', call') /\ Calls(s', call')
  BY <1>1, <1>4, <1>6 DEF Queued, Calls, Suspended
<1>9. Suspension(s', call')
  BY <1>1, <1>2, <1>4 DEF Base, Sound, Orderly, Suspension, Suspended, me
<1>10. Locks' /\ Running' /\ TicksNeverSlip'
  <2>1. me' = me
    BY <1>1 DEF Suspended, me
  <2>2. Locks'
    BY <1>4, <2>1 DEF Base, Locks, TxHeld, RxHeld, Suspending
  <2>3. Running' /\ TicksNeverSlip'
    BY <1>1, <1>2, <1>6, <2>1 DEF Base, Running, TicksNeverSlip, Suspended, SamePlaces
  <2> QED BY <2>2, <2>3
<1> QED BY <1>5, <1>6, <1>7, <1>8, <1>9, <1>10 DEF Base, Sound, Orderly

(* A delay that begins keeps Base. *)
LEMMA BeginDelayBase ==
  ASSUME Typed, Base, NEW n \in Delays, BeginDelay(n) PROVE Typed' /\ Base'
<1> DEFINE c == [NoCall EXCEPT !.op = "delay", !.wait = n,
                               !.at = IF n > 0 THEN "delay" ELSE "yield"]
<1>0. me # Idle /\ At("out") /\ q' = q /\ now' = now /\ call' = [call EXCEPT ![me] = c]
      /\ s' = IF n > 0 THEN [s EXCEPT !.suspended = 1] ELSE s
  BY DEF BeginDelay
<1>1. n \in 0..portMAX_DELAY
  BY QueueAssumption
<1>2. c \in Records
  <2>1. NoCall \in Records
    BY DelayRange DEF NoCall, Records
  <2> QED BY <1>1, <2>1, Zenon DEF Records
<1>3. /\ c.at = (IF n > 0 THEN "delay" ELSE "yield")
      /\ c.op = "delay" /\ c.wait = n /\ c.after = "out"
  BY DEF NoCall
<1> HIDE DEF c
<1>4. CallOK(c)
  BY <1>3 DEF CallOK, Leaving
<1>5. call[me].at = "out" /\ call[me].at \notin Suspending /\ ~Parked(call[me])
  BY <1>0 DEF At, Suspending, Parked, Leaving
<1>6. s.suspended # 1 /\ ~(q.txLock >= 0) /\ ~(q.rxLock >= 0)
  BY <1>5, MeTyped, Zenon DEF Base, Sound, Orderly, Suspension, me, Locks, Suspending, TxHeld, RxHeld
<1>7. CASE n > 0
  BY <1>0, <1>2, <1>3, <1>4, <1>5, <1>7, SuspendStep, Zenon DEF Suspending, TxHeld, RxHeld
<1>8. CASE ~(n > 0)
  <2>1. q' \in Queues /\ s' = s
    BY <1>0, <1>8 DEF Typed
  <2> QED BY <1>0, <1>2, <1>3, <1>4, <1>5, <1>6, <1>8, <2>1, CallStep, Zenon DEF Suspending, TxHeld, RxHeld
<1> QED BY <1>7, <1>8

(* vTaskSuspendAll keeps Base. *)
LEMMA SuspendAllBase ==
  ASSUME Typed, Base, vTaskSuspendAll PROVE Typed' /\ Base'
<1> DEFINE c == [call[me] EXCEPT !.at = "lock"]
<1>0. me \in Tasks /\ call \in [Tasks -> Records] /\ call[me] \in Records
  BY MeTyped
<1>1. /\ At("suspend") /\ call' = [call EXCEPT ![me] = c]
      /\ s' = [s EXCEPT !.suspended = 1] /\ q' = q /\ now' = now
  BY <1>0 DEF vTaskSuspendAll, Goto
<1>2. c \in Records
  BY <1>0 DEF Records
<1>3. c.at = "lock" /\ c.op = call[me].op /\ c.wait = call[me].wait /\ c.after = call[me].after
  BY <1>0 DEF Records
<1> HIDE DEF c
<1>4. CallOK(c)
  BY <1>0, <1>1, <1>3 DEF Base, Sound, Orderly, Calls, CallOK, At, Leaving, EventLists
<1>5. call[me].at \notin Suspending /\ ~Parked(call[me]) /\ me # Idle
  BY <1>1, InCall DEF At, Suspending, Parked, Leaving
<1> QED BY <1>1, <1>2, <1>3, <1>4, <1>5, SuspendStep, Zenon DEF Suspending, TxHeld, RxHeld

(* The state after vTaskDelay, with the call at t.                         *)
LEMMA DelayBase ==
  ASSUME Typed, Base, vTaskDelay PROVE Typed' /\ Base'
<1> DEFINE c == [call[me] EXCEPT !.at = "resume", !.after = "yield"]
<1>0. me \in Tasks /\ call \in [Tasks -> Records] /\ call[me] \in Records /\ s \in Schedulers
  BY MeTyped DEF Typed
<1>1. /\ At("delay") /\ call' = [call EXCEPT ![me] = c]
      /\ s' = Delay(s, call[me].wait) /\ q' = q /\ now' = now
  BY <1>0, Zenon DEF vTaskDelay
<1>2. c \in Records
  BY <1>0, Zenon DEF Records
<1>3. c.at = "resume" /\ c.op = call[me].op /\ c.wait = call[me].wait /\ c.after = "yield"
  BY <1>0 DEF Records
<1>4. call[me].wait \in 0..portMAX_DELAY
  BY <1>0 DEF Records
<1> HIDE DEF c
<1>5. CallOK(c) /\ call[me].op = "delay" /\ call[me].wait > 0
  BY <1>0, <1>1, <1>3 DEF Base, Sound, Orderly, Calls, CallOK, At, Leaving, EventLists
<1>6. s' \in Schedulers /\ Delayed(s, call[me].wait, s')
  BY <1>0, <1>1, <1>4, DelayFacts
<1>7. ~Parked(call[me]) /\ me # Idle /\ s.suspended = 1
  BY <1>0, <1>1, InCall DEF At, Suspending, Parked, Leaving, Base, Sound, Orderly, Suspension, me
<1>8. /\ me \in Ready(s) /\ me \notin ToSet(s.pending)
      /\ \A l \in EventLists : me \notin ToSet(s.waiting[l])
  BY <1>7, MeReady
<1>9. /\ call' \in [Tasks -> Records] /\ call'[me] = c
      /\ \A u \in Tasks \ {me} : call'[u] = call[u]
      /\ Queued(s, call') /\ Calls(s, call')
  <2>1. Queued(s, call) /\ Calls(s, call)
    BY DEF Base, Sound, Orderly
  <2>2. Replaced(s, call, me, c, call')
    BY <1>0, <1>1, <1>2, <1>5, <1>7, <1>8, <2>1, OneCall, Zenon
  <2> QED BY <2>2 DEF Replaced
<1>10. /\ SameRest(s, s') /\ Ready(s') = Ready(s) \ {me}
       /\ TopOK(s) => TopOK(s')
       /\ Tidy(s) => Tidy(s')
       /\ InTime(s) => InTime(s')
  BY <1>5, <1>6 DEF Delayed, me
<1>11. Typed'
  BY <1>1, <1>6, <1>9, <1>10 DEF Typed, SameRest
<1>12. Lists(s')
  BY <1>10 DEF Base, Sound, Orderly, Lists, EventOK, SameRest
<1>13. Apart(s')
  BY <1>10 DEF Base, Sound, Orderly, Apart, SameRest
<1>14. Queued(s', call') /\ Calls(s', call')
  BY <1>7, <1>9, <1>10 DEF Queued, Calls, SameRest
<1>15. Suspension(s', call')
  BY <1>0, <1>3, <1>7, <1>9, <1>10 DEF Base, Sound, Orderly, Suspension, SameRest, me, Suspending
<1>16. Locks' /\ Running' /\ TicksNeverSlip'
  <2>1. me' = me
    BY <1>10 DEF SameRest, me
  <2>2. Locks'
    BY <1>1, <1>3, <1>9, <2>1 DEF Base, Locks, TxHeld, RxHeld, At
  <2>3. Running'
    BY <1>3, <1>9, <2>1 DEF Running, Parked, Leaving, At
  <2>4. TicksNeverSlip'
    BY <1>1, <1>10 DEF Base, TicksNeverSlip, SameRest
  <2> QED BY <2>2, <2>3, <2>4
<1> QED BY <1>11, <1>12, <1>13, <1>14, <1>15, <1>16 DEF Base, Sound, Orderly

(* A switch of tasks between critical sections. *)
LEMMA SwitchSound ==
  ASSUME NEW z \in Schedulers, NEW calls, Sound(z, calls), NEW r, r = vTaskSwitchContext(z)
  PROVE  r \in Schedulers /\ Sound(r, calls) /\ Switched(z, r)
<1>1. Tidy(z) /\ TopOK(z) /\ Ready(z) # {}
  BY DEF Sound, Orderly, Lists, Calls
<1>2. r \in Schedulers /\ Switched(z, r)
  BY <1>1, SwitchFacts
<1>3. SameLists(z, r) /\ Tidy(r) /\ TopOK(r)
  BY <1>2 DEF Switched
<1>4. Lists(r)
  BY <1>3 DEF Sound, Orderly, Lists, SameLists, InTime, EventOK
<1>5. Apart(r)
  BY <1>3 DEF Sound, Orderly, Apart, SameLists
<1>6. Queued(r, calls) /\ Calls(r, calls)
  BY <1>3 DEF Sound, Orderly, Queued, Calls, SameLists
<1>7. z.suspended \in {0, 1}
  BY DEF Schedulers
<1>8. Suspension(r, calls)
  <2>1. CASE z.suspended = 0
    BY <1>2, <1>3, <2>1 DEF Sound, Orderly, Suspension, Switched, SameLists
  <2>2. CASE z.suspended = 1
    BY <1>2, <1>3, <2>2 DEF Sound, Orderly, Suspension, Switched, SameLists
  <2> QED BY <1>7, <2>1, <2>2
<1> QED BY <1>2, <1>4, <1>5, <1>6, <1>8 DEF Sound, Orderly

(* What portYIELD does: a switch, and the call goes on at the top or, *)
(* when it was a delay, is over.                                      *)
LEMMA YieldFacts ==
  ASSUME Typed, Base, portYIELD
  PROVE  /\ s' \in Schedulers /\ s.suspended = 0 /\ Switched(s, s') /\ Sound(s', call)
         /\ \E c \in Records : /\ call' = [call EXCEPT ![me] = c] /\ CallOK(c)
                               /\ call[me].at = "yield" /\ call[me].op # "none"
                               /\ \/ call[me].op = "delay" /\ c = NoCall
                                  \/ /\ call[me].op # "delay" /\ call[me].op \in EventLists
                                     /\ c = [call[me] EXCEPT !.at = "top"]
<1>0. me \in Tasks /\ call \in [Tasks -> Records] /\ call[me] \in Records /\ s \in Schedulers
      /\ s.suspended \in {0, 1}
  BY MeTyped DEF Typed
<1>1. /\ s' \in Schedulers /\ Switched(s, s') /\ Sound(s', call)
  BY SwitchSound DEF Typed, Base, portYIELD
<1>2. call[me].at = "yield"
  BY DEF portYIELD, At
<1>3. s.suspended = 0
  BY <1>0, <1>2 DEF Base, Sound, Orderly, Suspension, Suspending, me
<1>4. call[me].op # "none" /\ call[me].after = "out"
  BY <1>0, <1>2 DEF Base, Sound, Orderly, Calls, CallOK, Leaving
<1>5. CASE call[me].op = "delay"
  <2>1. NoCall \in Records /\ CallOK(NoCall)
    BY DelayRange DEF NoCall, Records, CallOK, Leaving
  <2>2. call' = [call EXCEPT ![me] = NoCall]
    BY <1>5 DEF portYIELD, Return
  <2> QED BY <1>1, <1>2, <1>3, <1>4, <1>5, <2>1, <2>2, Zenon
<1>6. CASE call[me].op # "delay"
  <2> DEFINE c == [call[me] EXCEPT !.at = "top"]
  <2>1. call[me].op \in EventLists
    BY <1>0, <1>4, <1>6 DEF Records, EventLists
  <2>2. c \in Records /\ c.at = "top" /\ c.op = call[me].op /\ c.after = call[me].after
    BY <1>0 DEF Records
  <2>3. call' = [call EXCEPT ![me] = c]
    BY <1>0, <1>6 DEF portYIELD, Goto
  <2>4. CallOK(c)
    BY <1>4, <2>1, <2>2 DEF CallOK, Leaving, EventLists
  <2> QED BY <1>1, <1>2, <1>3, <1>4, <1>6, <2>1, <2>2, <2>3, <2>4, Zenon
<1> QED BY <1>5, <1>6

(* portYIELD keeps Base. *)
LEMMA YieldBase ==
  ASSUME Typed, Base, portYIELD PROVE Typed' /\ Base'
<1>0. me \in Tasks /\ call \in [Tasks -> Records] /\ call[me] \in Records /\ s \in Schedulers
      /\ q' = q /\ now' = now
  BY MeTyped DEF Typed, portYIELD
<1>1. s' \in Schedulers /\ s.suspended = 0 /\ Switched(s, s') /\ Sound(s', call)
  BY YieldFacts
<1>2. PICK c \in Records : /\ call' = [call EXCEPT ![me] = c] /\ CallOK(c)
                           /\ call[me].at = "yield" /\ call[me].op # "none"
                           /\ \/ call[me].op = "delay" /\ c = NoCall
                              \/ /\ call[me].op # "delay" /\ call[me].op \in EventLists
                                 /\ c = [call[me] EXCEPT !.at = "top"]
  BY YieldFacts
<1>3. /\ c.at \in {"out", "top"} /\ (c.at = "top" => c.op = call[me].op)
      /\ call[me].op = "delay" => c = NoCall
      /\ call[me].op # "delay" => c.at = "top"
  BY <1>0, <1>2 DEF NoCall, Records
<1>4. call'[me] = c /\ \A u \in Tasks \ {me} : call'[u] = call[u]
  BY <1>0, <1>2
<1>5. SameLists(s, s') /\ s'.current \in Ready(s) /\ s'.missedYield = s.missedYield
  BY <1>1 DEF Switched
<1>6. Typed'
  BY <1>0, <1>1, <1>2, <1>5 DEF Typed, SameLists
<1>7. me # Idle
  BY <1>2, InCall DEF At
<1>8. Calls(s', call')
  <2>1. call'[Idle] = NoCall
    BY <1>1, <1>4, <1>7 DEF Sound, Orderly, Calls, Tasks
  <2> QED BY <1>1, <1>2, <1>4, <2>1 DEF Sound, Orderly, Calls
<1>9. Queued(s', call')
  <2>1. s'.waiting \in [EventLists -> Seq(Tasks)] /\ s'.pending \in Seq(Tasks)
    BY <1>1 DEF Schedulers
  <2>2. /\ \A l \in EventLists : ToSet(s'.waiting[l]) \subseteq Tasks
        /\ ToSet(s'.pending) \subseteq Tasks
    BY <2>1, InToSet
  <2>3. \A l \in EventLists : me \in ToSet(s'.waiting[l]) => c.op = l /\ Parked(c)
    BY <1>1, <1>2, <1>3 DEF Sound, Orderly, Queued, Parked, EventLists
  <2>4. me \in ToSet(s'.pending) => c.op \in EventLists /\ Parked(c)
    BY <1>1, <1>2, <1>3 DEF Sound, Orderly, Queued, Parked, EventLists
  <2> QED BY <1>1, <1>4, <2>2, <2>3, <2>4 DEF Sound, Orderly, Queued
<1>10. \A t \in Tasks : call'[t].at \notin Suspending
  <2>1. \A t \in Tasks : call[t].at \notin Suspending
    BY <1>1 DEF Base, Sound, Orderly, Suspension
  <2> QED BY <2>1, <1>3, <1>4 DEF Suspending
<1>11. Suspension(s', call')
  BY <1>1, <1>5, <1>10 DEF Sound, Orderly, Suspension, SameLists
<1>12. me' \in Ready(s') /\ me' \in Tasks
  BY <1>1, <1>5 DEF SameLists, me, Schedulers
<1>13. Locks'
  <2>1. ~(q.txLock >= 0) /\ ~(q.rxLock >= 0)
    BY <1>2 DEF Base, Locks, TxHeld, RxHeld
  <2> QED BY <1>0, <1>10, <1>12, <2>1 DEF Locks, TxHeld, RxHeld, Suspending
<1>14. Running' /\ TicksNeverSlip'
  BY <1>0, <1>5, <1>12 DEF Running, Base, TicksNeverSlip, SameLists
<1> QED BY <1>1, <1>6, <1>8, <1>9, <1>11, <1>13, <1>14 DEF Base, Sound, Orderly

(* Inheriting or giving back a priority leaves everything in order. *)
LEMMA ReprioritisedOrder ==
  ASSUME NEW z \in Schedulers, NEW calls, Orderly(z, calls), NEW h \in Tasks, NEW p \in Priorities,
         NEW r \in Schedulers, Reprioritised(z, h, p, r),
         \A l \in EventLists : h \in ToSet(z.waiting[l]) => ToSet(z.waiting[l]) = {h}
  PROVE  Orderly(r, calls)
<1>1. /\ r.current = z.current /\ r.pending = z.pending /\ r.waiting = z.waiting
      /\ r.event = [z.event EXCEPT ![h] = configMAX_PRIORITIES - p]
      /\ EventOK(r) /\ Ready(r) = Ready(z) /\ Tidy(r)
      /\ TopOK(z) => TopOK(r)
      /\ InTime(z) => InTime(r)
  BY DEF Reprioritised
<1>2. Lists(r)
  BY <1>1 DEF Orderly, Lists
<1>3. ASSUME NEW l \in EventLists PROVE Rising(r.waiting[l], r.event)
  <2>1. r.waiting[l] = z.waiting[l] /\ z.waiting[l] \in Seq(Tasks) /\ z.event \in [Tasks -> 0..configMAX_PRIORITIES]
    BY <1>1 DEF Schedulers
  <2>2. Rising(z.waiting[l], z.event) /\ IsInjective(z.waiting[l])
    BY DEF Orderly, Apart
  <2> DEFINE list == z.waiting[l]
  <2>3. CASE h \notin ToSet(list)
    <3> HIDE DEF list
    <3>1. list \in Seq(Tasks) /\ Rising(list, z.event)
      BY <2>1, <2>2 DEF list
    <3>2. \A i \in DOMAIN list : list[i] # h /\ list[i] \in Tasks
      BY <2>3, <3>1, InToSet
    <3>3. \A i \in DOMAIN list : r.event[list[i]] = z.event[list[i]]
      BY <1>1, <2>1, <3>2
    <3>4. Rising(list, r.event)
      BY <3>1, <3>3 DEF Rising
    <3> QED BY <2>1, <3>4 DEF list
  <2>4. CASE h \in ToSet(list)
    <3>1. ToSet(list) = {h}
      BY <2>4
    <3>0. list \in Seq(Tasks) /\ IsInjective(list)
      BY <2>1, <2>2
    <3> HIDE DEF list
    <3>2. \A i, j \in DOMAIN list : i = j
      BY <3>0, <3>1, InToSet DEF IsInjective
    <3>3. Rising(list, r.event)
      <4> SUFFICES ASSUME NEW i \in DOMAIN list, NEW j \in DOMAIN list, i < j PROVE FALSE
        BY DEF Rising
      <4>1. i = j /\ i \in Nat
        BY <3>0, <3>2, InToSet
      <4> QED BY <4>1
    <3> QED BY <2>1, <3>3 DEF list
  <2> QED BY <2>3, <2>4
<1>4. Apart(r)
  BY <1>1, <1>3 DEF Orderly, Apart
<1>5. Queued(r, calls) /\ Calls(r, calls)
  BY <1>1 DEF Orderly, Queued, Calls
<1> QED BY <1>2, <1>4, <1>5 DEF Orderly

(* So does readying the head of an event list. *)
LEMMA RemoveSound ==
  ASSUME NEW z \in Schedulers, NEW calls, Sound(z, calls), NEW l \in EventLists,
         z.waiting[l] # <<>>, NEW r, r = xTaskRemoveFromEventList(z, l)
  PROVE  r \in Schedulers /\ Sound(r, calls) /\ Removed(z, l, r)
<1>1. r \in Schedulers /\ Removed(z, l, r)
  BY RemoveFacts
<1>2. PICK t : t = Head(z.waiting[l])
  OBVIOUS
<1>3. /\ SameState(z, r) /\ r.tick = z.tick /\ t \in Tasks
      /\ r.waiting = [z.waiting EXCEPT ![l] = Tail(z.waiting[l])]
      /\ z.suspended = 0 => r.pending = z.pending /\ Ready(r) = Ready(z) \cup {t}
      /\ z.suspended = 1 => r.pending = Append(z.pending, t) /\ Ready(r) = Ready(z)
      /\ TopOK(z) => TopOK(r)
      /\ Tidy(z) => Tidy(r)
      /\ InTime(z) => InTime(r)
  BY <1>1, <1>2 DEF Removed
<1>4. z.suspended \in {0, 1} /\ z.waiting \in [EventLists -> Seq(Tasks)] /\ z.pending \in Seq(Tasks)
  BY DEF Schedulers
<1>5. PICK list : list = z.waiting[l]
  OBVIOUS
<1>6. list \in Seq(Tasks) /\ list # <<>> /\ t = Head(list)
  BY <1>2, <1>4, <1>5
<1>7. /\ IsInjective(list) /\ Rising(list, z.event)
      /\ ToSet(list) \cap (ToSet(z.pending) \cup Ready(z)) = {}
  BY <1>5 DEF Sound, Orderly, Apart
<1>8. /\ ToSet(list) = {t} \cup ToSet(Tail(list))
      /\ IsInjective(Tail(list)) /\ t \notin ToSet(Tail(list))
      /\ Rising(Tail(list), z.event)
  BY <1>6, <1>7, TailFacts
<1>9. /\ r.waiting[l] = Tail(list)
      /\ \A m \in EventLists : m # l => r.waiting[m] = z.waiting[m]
  BY <1>3, <1>4, <1>5
<1>10. \A m \in EventLists : m # l => t \notin ToSet(z.waiting[m])
  BY <1>5, <1>8 DEF Sound, Orderly, Apart, EventLists
<1>11. Lists(r)
  BY <1>3 DEF Sound, Orderly, Lists, SameState, EventOK
<1>12. /\ ToSet(r.pending) \cup Ready(r) = ToSet(z.pending) \cup Ready(z) \cup {t}
       /\ IsInjective(r.pending) /\ ToSet(r.pending) \cap Ready(r) = {}
       /\ ToSet(r.pending) \subseteq ToSet(z.pending) \cup {t}
  <2>1. IsInjective(z.pending) /\ ToSet(z.pending) \cap Ready(z) = {}
        /\ t \notin ToSet(z.pending) /\ t \notin Ready(z)
    BY <1>7, <1>8 DEF Sound, Orderly, Apart
  <2>2. CASE z.suspended = 0
    BY <2>1, <2>2, <1>3
  <2>3. CASE z.suspended = 1
    <3>1. ToSet(r.pending) = ToSet(z.pending) \cup {t} /\ IsInjective(r.pending)
      <4>1. PICK list1 : list1 = z.pending
        OBVIOUS
      <4>2. list1 \in Seq(Tasks) /\ t \in Tasks /\ r.pending = Append(list1, t)
            /\ IsInjective(list1) /\ t \notin ToSet(list1)
        BY <4>1, <2>1, <2>3, <1>3, <1>4
      <4>3. ToSet(Append(list1, t)) = ToSet(list1) \cup {t} /\ IsInjective(Append(list1, t))
        BY <4>2, AppendFacts
      <4> QED BY <4>1, <4>2, <4>3
    <3> QED BY <2>1, <2>3, <3>1, <1>3
  <2> QED BY <2>2, <2>3, <1>4
<1>13. Apart(r)
  <2>1. ASSUME NEW m \in EventLists
        PROVE  /\ IsInjective(r.waiting[m]) /\ Rising(r.waiting[m], r.event)
               /\ ToSet(r.waiting[m]) \cap (ToSet(r.pending) \cup Ready(r)) = {}
    <3>0. r.event = z.event
      BY <1>3 DEF SameState
    <3>1. CASE m = l
      BY <3>0, <3>1, <1>7, <1>8, <1>9, <1>12
    <3>2. CASE m # l
      BY <3>0, <3>2, <1>9, <1>10, <1>12 DEF Sound, Orderly, Apart
    <3> QED BY <3>1, <3>2
  <2>2. ToSet(r.waiting["send"]) \cap ToSet(r.waiting["receive"]) = {}
    <3>1. \A m \in EventLists : ToSet(r.waiting[m]) \subseteq ToSet(z.waiting[m])
      BY <1>5, <1>8, <1>9
    <3> QED BY <3>1 DEF Sound, Orderly, Apart, EventLists
  <2> QED BY <2>1, <2>2, <1>12 DEF Apart
<1>14. Queued(r, calls)
  <2>1. \A m \in EventLists : ToSet(r.waiting[m]) \subseteq ToSet(z.waiting[m])
    BY <1>5, <1>8, <1>9
  <2>2. calls[t].op = l /\ Parked(calls[t])
    BY <1>5, <1>8 DEF Sound, Orderly, Queued
  <2> QED BY <2>1, <2>2, <1>12, Zenon DEF Sound, Orderly, Queued
<1>15. Calls(r, calls)
  <2>1. Idle \in Ready(r)
    BY <1>3, <1>4 DEF Sound, Orderly, Calls
  <2> QED BY <2>1 DEF Sound, Orderly, Calls
<1>16. Suspension(r, calls)
  BY <1>3 DEF Sound, Suspension, SameState
<1> QED BY <1>1, <1>11, <1>13, <1>14, <1>15, <1>16 DEF Sound, Orderly

(* So do ticks. *)
LEMMA ElapsedOrder ==
  ASSUME NEW z \in Schedulers, NEW calls, Orderly(z, calls), NEW n, NEW r \in Schedulers,
         Elapsed(z, n, r), z.pending = <<>>
  PROVE  Orderly(r, calls)
<1>1. /\ SameState(z, r) /\ r.pending = z.pending /\ Ready(z) \subseteq Ready(r)
      /\ \A l \in EventLists :
           /\ ToSet(r.waiting[l]) = ToSet(z.waiting[l]) \ (Ready(r) \ Ready(z))
           /\ IsInjective(z.waiting[l]) => IsInjective(r.waiting[l])
           /\ Rising(z.waiting[l], z.event) => Rising(r.waiting[l], z.event)
      /\ Tidy(r) /\ InTime(r)
      /\ TopOK(z) => TopOK(r)
  BY DEF Elapsed
<1>2. r.event = z.event /\ r.prio = z.prio
  BY <1>1 DEF SameState
<1>3. Lists(r)
  BY <1>1, <1>2 DEF Orderly, Lists, EventOK
<1>4. ToSet(z.pending) = {}
  <2>1. z.pending \in Seq(Tasks)
    BY DEF Schedulers
  <2> QED BY <2>1, InToSet, Zenon
<1>5. Apart(r)
  <2>1. ASSUME NEW l \in EventLists
        PROVE  /\ IsInjective(r.waiting[l]) /\ Rising(r.waiting[l], r.event)
               /\ ToSet(r.waiting[l]) \cap (ToSet(r.pending) \cup Ready(r)) = {}
    <3>1. /\ IsInjective(z.waiting[l]) /\ Rising(z.waiting[l], z.event)
          /\ ToSet(z.waiting[l]) \cap Ready(z) = {}
      BY DEF Orderly, Apart
    <3> QED BY <3>1, <1>1, <1>2, <1>4
  <2>2. ToSet(r.waiting["send"]) \cap ToSet(r.waiting["receive"]) = {}
    <3>1. \A m \in EventLists : ToSet(r.waiting[m]) \subseteq ToSet(z.waiting[m])
      BY <1>1
    <3> QED BY <3>1 DEF Orderly, Apart, EventLists
  <2>3. IsInjective(r.pending) /\ ToSet(r.pending) \cap Ready(r) = {}
    BY <1>1, <1>4 DEF Orderly, Apart
  <2> QED BY <2>1, <2>2, <2>3 DEF Apart
<1>6. Queued(r, calls) /\ Calls(r, calls)
  BY <1>1 DEF Orderly, Queued, Calls
<1> QED BY <1>3, <1>5, <1>6 DEF Orderly

(* prvUnlockQueue *)
LEMMA UnlockStep ==
  ASSUME Typed, Base, NEW l \in EventLists, NEW count \in Nat, s' = WakeCounted(l, count),
         now' = now, q' \in Queues, NEW c \in Records, call' = [call EXCEPT ![me] = c],
         call[me].at \in {"unlockTx", "unlockRx"}, c.at \in {"unlockRx", "resume"},
         c.op = call[me].op, c.after = call[me].after,
         q'.txLock >= 0 <=> c.at \in TxHeld,
         q'.rxLock >= 0 <=> c.at \in RxHeld
  PROVE  Typed' /\ Base'
<1>0. me \in Tasks /\ call \in [Tasks -> Records] /\ call[me] \in Records /\ s \in Schedulers
  BY MeTyped DEF Typed
<1>1. PICK k : k = IF count <= Len(s.waiting[l]) THEN count ELSE Len(s.waiting[l])
  OBVIOUS
<1>2. k \in 0..Len(s.waiting[l]) /\ s' \in Schedulers /\ WokenFirst(l, k, s')
  BY <1>0, <1>1, WakeCountedFacts
<1>3. PICK list : list = s.waiting[l]
  OBVIOUS
<1>4. PICK woken, rest : woken = SubSeq(list, 1, k) /\ rest = SubSeq(list, k + 1, Len(list))
  BY Zenon
<1>5. /\ SamePlaces(s, s') /\ s'.current = s.current
      /\ s'.missedTicks = s.missedTicks /\ s'.suspended = s.suspended
      /\ s'.waiting = [s.waiting EXCEPT ![l] = rest]
      /\ s'.pending = s.pending \o woken
  BY <1>2, <1>3, <1>4 DEF WokenFirst
<1>6. s.waiting \in [EventLists -> Seq(Tasks)] /\ s.pending \in Seq(Tasks) /\ list \in Seq(Tasks)
  BY <1>0, <1>3 DEF Schedulers
<1>7. /\ IsInjective(list) /\ Rising(list, s.event)
      /\ ToSet(list) \cap (ToSet(s.pending) \cup Ready(s)) = {}
      /\ IsInjective(s.pending) /\ ToSet(s.pending) \cap Ready(s) = {}
  BY <1>3 DEF Base, Sound, Orderly, Apart
<1>8. /\ woken \in Seq(Tasks) /\ rest \in Seq(Tasks)
      /\ ToSet(list) = ToSet(woken) \cup ToSet(rest)
      /\ IsInjective(woken) /\ IsInjective(rest) /\ ToSet(woken) \cap ToSet(rest) = {}
      /\ Rising(rest, s.event)
  BY <1>2, <1>3, <1>4, <1>6, <1>7, SplitFacts
<1>9. /\ ToSet(s'.pending) = ToSet(s.pending) \cup ToSet(woken)
      /\ IsInjective(s'.pending)
  <2>1. ToSet(s.pending) \cap ToSet(woken) = {}
    BY <1>7, <1>8
  <2> QED BY <2>1, <1>5, <1>6, <1>7, <1>8, ConcatFacts
<1>10. Lists(s') /\ Ready(s') = Ready(s)
  BY <1>5, SamePlacesFacts DEF Base, Sound, Orderly, Lists
<1>11. /\ s'.waiting[l] = rest
       /\ \A m \in EventLists : m # l => s'.waiting[m] = s.waiting[m]
  BY <1>5, <1>6
<1>12. \A m \in EventLists : ToSet(s'.waiting[m]) \subseteq ToSet(s.waiting[m])
  BY <1>3, <1>8, <1>11
<1>13. Apart(s')
  <2>1. ASSUME NEW m \in EventLists
        PROVE  /\ IsInjective(s'.waiting[m]) /\ Rising(s'.waiting[m], s'.event)
               /\ ToSet(s'.waiting[m]) \cap (ToSet(s'.pending) \cup Ready(s')) = {}
    <3>0. s'.event = s.event
      BY <1>5 DEF SamePlaces
    <3>1. CASE m = l
      BY <3>0, <3>1, <1>7, <1>8, <1>9, <1>10, <1>11
    <3>2. CASE m # l
      <4>1. ToSet(s.waiting[m]) \cap ToSet(list) = {}
        BY <3>2, <1>3 DEF Base, Sound, Orderly, Apart, EventLists
      <4> QED BY <3>0, <3>2, <4>1, <1>8, <1>9, <1>10, <1>11 DEF Base, Sound, Orderly, Apart
    <3> QED BY <3>1, <3>2
  <2>2. ToSet(s'.waiting["send"]) \cap ToSet(s'.waiting["receive"]) = {}
    BY <1>12 DEF Base, Sound, Orderly, Apart, EventLists
  <2>3. ToSet(s'.pending) \cap Ready(s') = {}
    BY <1>7, <1>8, <1>9, <1>10
  <2> QED BY <2>1, <2>2, <2>3, <1>9 DEF Apart
<1>14. call'[me] = c /\ (\A u \in Tasks \ {me} : call'[u] = call[u]) /\ call' \in [Tasks -> Records]
  BY <1>0
<1>15. me # Idle /\ s.suspended = 1
  BY <1>0, InCall DEF At, Base, Sound, Suspension, me, Suspending
<1>16. Parked(c) <=> Parked(call[me])
  BY DEF Parked, Leaving
<1>17. Queued(s', call')
  <2>1. /\ \A m \in EventLists : ToSet(s'.waiting[m]) \subseteq Tasks
        /\ ToSet(s'.pending) \subseteq Tasks
    <3>1. s'.waiting \in [EventLists -> Seq(Tasks)] /\ s'.pending \in Seq(Tasks)
      BY <1>2 DEF Schedulers
    <3> QED BY <3>1, InToSet
  <2>2. \A m \in EventLists : \A t \in ToSet(s'.waiting[m]) : call[t].op = m /\ Parked(call[t])
    BY <1>12 DEF Base, Sound, Orderly, Queued
  <2>3. \A t \in ToSet(s'.pending) : call[t].op \in EventLists /\ Parked(call[t])
    BY <1>3, <1>8, <1>9 DEF Base, Sound, Orderly, Queued
  <2> QED BY <2>1, <2>2, <2>3, <1>14, <1>16 DEF Queued
<1>18. Calls(s', call')
  <2>1. CallOK(c)
    <3>1. CallOK(call[me])
      BY <1>0 DEF Base, Sound, Orderly, Calls
    <3> QED BY <3>1 DEF CallOK, Leaving, EventLists
  <2>2. call'[Idle] = NoCall
    BY <1>14, <1>15 DEF Base, Sound, Orderly, Calls, Tasks
  <2>3. \A t \in Tasks : CallOK(call'[t])
    BY <2>1, <1>14 DEF Base, Sound, Orderly, Calls
  <2> QED BY <2>2, <2>3, <1>10 DEF Base, Sound, Orderly, Calls
<1>19. Suspension(s', call')
  BY <1>0, <1>5, <1>14, <1>15 DEF Base, Sound, Suspension, me, Suspending
<1>20. Typed'
  BY <1>2, <1>5, <1>14 DEF Typed
<1>21. Locks' /\ Running' /\ TicksNeverSlip'
  <2>1. me' = me
    BY <1>5 DEF me
  <2>2. Locks'
    BY <2>1, <1>14 DEF Locks
  <2>3. Running'
    BY <2>1, <1>10, <1>14, <1>16 DEF Running, Base, At
  <2>4. TicksNeverSlip'
    BY <1>5 DEF TicksNeverSlip, Base, SamePlaces
  <2> QED BY <2>2, <2>3, <2>4
<1> QED BY <1>10, <1>13, <1>17, <1>18, <1>19, <1>20, <1>21 DEF Base, Sound, Orderly

(* Waking receivers for what was sent while the queue was locked keeps *)
(* Base.                                                               *)
LEMMA UnlockTxBase ==
  ASSUME Typed, Base, UnlockTx PROVE Typed' /\ Base'
<1> DEFINE c == [call[me] EXCEPT !.at = "unlockRx"]
<1>0. me \in Tasks /\ call \in [Tasks -> Records] /\ call[me] \in Records
  BY MeTyped
<1>1. /\ call[me].at = "unlockTx" /\ call' = [call EXCEPT ![me] = c] /\ now' = now
      /\ s' = WakeCounted("receive", q.txLock) /\ q' = [q EXCEPT !.txLock = -1]
  BY <1>0 DEF UnlockTx, Goto, At
<1>2. c \in Records /\ c.at = "unlockRx" /\ c.op = call[me].op /\ c.after = call[me].after
  BY <1>0 DEF Records
<1>3. q.txLock >= 0 /\ q.rxLock >= 0
  BY <1>1 DEF Base, Locks, TxHeld, RxHeld
<1>4. q.txLock \in Nat /\ q' \in Queues /\ q'.txLock = -1 /\ q'.rxLock = q.rxLock
  <2>1. q.txLock \in -1..MaxLock /\ MaxLock \in Nat /\ q \in Queues
    BY QueueAssumption DEF Typed, Queues
  <2> QED BY <2>1, <1>1, <1>3 DEF Queues
<1> HIDE DEF c
<1>5. /\ q'.txLock >= 0 <=> c.at \in TxHeld
      /\ q'.rxLock >= 0 <=> c.at \in RxHeld
  BY <1>2, <1>3, <1>4 DEF TxHeld, RxHeld
<1>6. /\ call[me].at \in {"unlockTx", "unlockRx"} /\ c.at \in {"unlockRx", "resume"}
      /\ "receive" \in EventLists /\ "send" \in EventLists
  BY <1>1, <1>2 DEF EventLists
<1> QED BY <1>1, <1>2, <1>4, <1>5, <1>6, UnlockStep, Zenon

(* Waking senders for what was received while the queue was locked keeps *)
(* Base.                                                                 *)
LEMMA UnlockRxBase ==
  ASSUME Typed, Base, UnlockRx PROVE Typed' /\ Base'
<1> DEFINE c == [call[me] EXCEPT !.at = "resume"]
<1>0. me \in Tasks /\ call \in [Tasks -> Records] /\ call[me] \in Records
  BY MeTyped
<1>1. /\ call[me].at = "unlockRx" /\ call' = [call EXCEPT ![me] = c] /\ now' = now
      /\ s' = WakeCounted("send", q.rxLock) /\ q' = [q EXCEPT !.rxLock = -1]
  BY <1>0 DEF UnlockRx, Goto, At
<1>2. c \in Records /\ c.at = "resume" /\ c.op = call[me].op /\ c.after = call[me].after
  BY <1>0 DEF Records
<1>3. ~(q.txLock >= 0) /\ q.rxLock >= 0
  BY <1>1 DEF Base, Locks, TxHeld, RxHeld
<1>4. q.rxLock \in Nat /\ q' \in Queues /\ q'.rxLock = -1 /\ q'.txLock = q.txLock
  <2>1. q.rxLock \in -1..MaxLock /\ MaxLock \in Nat /\ q \in Queues
    BY QueueAssumption DEF Typed, Queues
  <2> QED BY <2>1, <1>1, <1>3 DEF Queues
<1> HIDE DEF c
<1>5. /\ q'.txLock >= 0 <=> c.at \in TxHeld
      /\ q'.rxLock >= 0 <=> c.at \in RxHeld
  BY <1>2, <1>3, <1>4 DEF TxHeld, RxHeld
<1>6. /\ call[me].at \in {"unlockTx", "unlockRx"} /\ c.at \in {"unlockRx", "resume"}
      /\ "receive" \in EventLists /\ "send" \in EventLists
  BY <1>1, <1>2 DEF EventLists
<1> QED BY <1>1, <1>2, <1>4, <1>5, <1>6, UnlockStep, Zenon

(* Calls that differ in their times only. *)
Alike(calls, after) ==
  \A t \in Tasks : /\ after[t].at = calls[t].at /\ after[t].op = calls[t].op
                   /\ after[t].after = calls[t].after /\ after[t].wait = calls[t].wait
                   /\ calls[t] = NoCall => after[t] = NoCall

(* Calls that differ in their clocks only are as orderly. *)
LEMMA AlikeOrder ==
  ASSUME NEW z \in Schedulers, NEW calls, NEW after, Alike(calls, after)
  PROVE  /\ Orderly(z, calls) => Orderly(z, after)
         /\ Suspension(z, calls) => Suspension(z, after)
<1>1. ASSUME Queued(z, calls) PROVE Queued(z, after)
  <2>1. z.waiting \in [EventLists -> Seq(Tasks)] /\ z.pending \in Seq(Tasks)
    BY DEF Schedulers
  <2>2. /\ \A l \in EventLists : ToSet(z.waiting[l]) \subseteq Tasks
        /\ ToSet(z.pending) \subseteq Tasks
    BY <2>1, InToSet
  <2>3. \A t \in Tasks : /\ after[t].op = calls[t].op
                         /\ Parked(calls[t]) => Parked(after[t])
    BY DEF Alike, Parked
  <2> QED BY <1>1, <2>2, <2>3 DEF Queued
<1>2. ASSUME Calls(z, calls) PROVE Calls(z, after)
  <2>1. after[Idle] = NoCall
    BY <1>2 DEF Alike, Calls, Tasks
  <2>2. \A t \in Tasks : CallOK(after[t])
    BY <1>2 DEF Alike, Calls, CallOK
  <2> QED BY <1>2, <2>1, <2>2 DEF Calls
<1>3. ASSUME Suspension(z, calls) PROVE Suspension(z, after)
  BY <1>3 DEF Alike, Suspension
<1> QED BY <1>1, <1>2, <1>3 DEF Orderly

(* Counting on and around. *)
LEMMA ModFacts ==
  ASSUME NEW a \in 0..portMAX_DELAY, NEW b \in 0..portMAX_DELAY
  PROVE  /\ (a + b) % TickModulus = Later(a, b)
         /\ (a + b) % TickModulus \in 0..portMAX_DELAY
         /\ (a + b + 1) % TickModulus = (((a + b) % TickModulus) + 1) % TickModulus
<1>1. /\ (a + b) % TickModulus = Later(a, b)
      /\ Later(a, b) \in 0..portMAX_DELAY
  BY DelayRange DEF Later
<1> DEFINE x == Later(a, b)
<1>2. x \in 0..portMAX_DELAY /\ x = IF a + b < TickModulus THEN a + b ELSE a + b - TickModulus
  BY <1>1 DEF Later
<1> HIDE DEF x
<1>3. (x + 1) % TickModulus = IF x + 1 = TickModulus THEN 0 ELSE x + 1
  BY <1>2, DelayRange
<1>4. (a + b + 1) % TickModulus = IF x + 1 = TickModulus THEN 0 ELSE x + 1
  BY <1>2, DelayRange
<1> QED BY <1>1, <1>3, <1>4 DEF x

(* The interrupts leave what they interrupt alone. *)
LEMMA LocksKept ==
  ASSUME Typed, Locks, Suspension(s, call), s' \in Schedulers, Suspension(s', call'),
         \A t \in Tasks : call'[t].at = call[t].at,
         s'.suspended = s.suspended, s.suspended = 1 => me' = me,
         q'.txLock >= 0 <=> q.txLock >= 0, q'.rxLock >= 0 <=> q.rxLock >= 0
  PROVE  Locks'
<1>1. me \in Tasks /\ me' \in Tasks /\ s.suspended \in {0, 1}
  BY DEF Typed, Schedulers, me
<1>2. CASE s.suspended = 1
  BY <1>1, <1>2 DEF Locks
<1>3. CASE s.suspended = 0
  <2>1. call[me].at \notin Suspending /\ call'[me'].at \notin Suspending
    BY <1>1, <1>3 DEF Suspension, me
  <2> QED BY <2>1 DEF Locks, TxHeld, RxHeld, Suspending
<1> QED BY <1>1, <1>2, <1>3

(* The tick, before the switch. *)
LEMMA TickSound ==
  ASSUME Typed, Base, vTickISR, NEW z, z = vTaskIncrementTick(s)
  PROVE  /\ z \in Schedulers /\ Sound(z, call) /\ z.suspended = s.suspended
         /\ z.current = s.current
         /\ s.suspended = 1 => /\ SamePlaces(s, z) /\ z.waiting = s.waiting /\ z.pending = s.pending
                               /\ z.missedTicks = s.missedTicks + 1 /\ s.missedTicks < MaxMissed
         /\ s.suspended = 0 => Elapsed(s, 1, z)
<1>0. s \in Schedulers /\ s.suspended \in {0, 1}
  BY Zenon DEF Typed, Schedulers
<1>1. CASE s.suspended = 1
  <2>1. z = [s EXCEPT !.missedTicks = @ + 1] /\ s.missedTicks < MaxMissed
    BY <1>1 DEF vTaskIncrementTick, vTickISR
  <2>2. /\ SamePlaces(s, z) /\ z.current = s.current /\ z.waiting = s.waiting /\ z.pending = s.pending
        /\ z.missedTicks = s.missedTicks + 1 /\ z.missedYield = s.missedYield
        /\ z.suspended = s.suspended
    BY <1>0, <2>1 DEF Schedulers, SamePlaces
  <2>3. z \in Schedulers
    <3>1. s.missedTicks + 1 \in Nat
      <4>1. s.missedTicks \in Nat
        BY <1>0 DEF Schedulers
      <4> QED BY <4>1
    <3>2. z = [s EXCEPT !.missedTicks = s.missedTicks + 1]
      BY <2>1
    <3> QED BY <1>0, <3>1, <3>2, Zenon DEF Schedulers
  <2>4. Lists(z) /\ Ready(z) = Ready(s)
    BY <2>2, SamePlacesFacts DEF Base, Sound, Orderly, Lists
  <2>5. Apart(z)
    BY <2>2, <2>4 DEF Base, Sound, Orderly, Apart, SamePlaces
  <2>6. Queued(z, call) /\ Calls(z, call) /\ Suspension(z, call)
    BY <1>1, <2>2, <2>4 DEF Base, Sound, Orderly, Queued, Calls, Suspension
  <2> QED BY <1>1, <2>1, <2>2, <2>3, <2>4, <2>5, <2>6 DEF Sound, Orderly
<1>2. CASE s.suspended = 0
  <2>1. z \in Schedulers /\ Elapsed(s, 1, z)
    BY <1>0, <1>2, TickElapsed DEF Base, Sound, Orderly, Lists
  <2>2. s.pending = <<>>
    BY <1>2 DEF Base, Sound, Suspension
  <2>3. Orderly(z, call)
    BY <1>0, <2>1, <2>2, ElapsedOrder DEF Base, Sound
  <2>4. SameState(s, z) /\ z.pending = s.pending
    BY <2>1 DEF Elapsed
  <2>5. Suspension(z, call) /\ z.suspended = s.suspended /\ z.current = s.current
    BY <2>4 DEF Base, Sound, Suspension, SameState
  <2> QED BY <1>2, <2>1, <2>3, <2>5 DEF Sound
<1> QED BY <1>0, <1>1, <1>2

Counting == [t \in Tasks |->
  [call[t] EXCEPT !.waited =
     IF call[t].entrySet = 1 /\ @ < call[t].limit /\ call[t].limit < portMAX_DELAY
     THEN @ + 1 ELSE @]]

(* A tick is counted for the calls that wait; nothing else changes. *)
LEMMA CountingFacts ==
  ASSUME call \in [Tasks -> Records]
  PROVE  Counting \in [Tasks -> Records] /\ Alike(call, Counting)
<1>1. ASSUME NEW t \in Tasks
      PROVE  /\ Counting[t] \in Records
             /\ Counting[t].at = call[t].at /\ Counting[t].op = call[t].op
             /\ Counting[t].after = call[t].after /\ Counting[t].wait = call[t].wait
             /\ call[t] = NoCall => Counting[t] = NoCall
  <2> DEFINE w == IF call[t].entrySet = 1 /\ call[t].waited < call[t].limit
                     /\ call[t].limit < portMAX_DELAY
                  THEN call[t].waited + 1 ELSE call[t].waited
  <2>1. call[t] \in Records
    OBVIOUS
  <2>2. w \in 0..portMAX_DELAY
    <3>1. call[t].waited \in 0..portMAX_DELAY /\ call[t].limit \in 0..portMAX_DELAY
      BY <2>1 DEF Records
    <3> QED BY <3>1, DelayRange
  <2>3. Counting[t] = [call[t] EXCEPT !.waited = w]
    BY DEF Counting
  <2>4. call[t] = NoCall => w = call[t].waited
    BY DEF NoCall
  <2> HIDE DEF w
  <2>5. /\ Counting[t] \in Records
        /\ Counting[t].at = call[t].at /\ Counting[t].op = call[t].op
        /\ Counting[t].after = call[t].after /\ Counting[t].wait = call[t].wait
    BY <2>1, <2>2, <2>3 DEF Records
  <2>6. call[t] = NoCall => Counting[t] = NoCall
    BY <2>1, <2>3, <2>4 DEF Records
  <2> QED BY <2>5, <2>6
<1> QED BY <1>1 DEF Alike, Counting

(* xNumOfOverflows moves on for the calls that wait; nothing else *)
(* changes.                                                       *)
LEMMA WrapFacts ==
  ASSUME NEW calls \in [Tasks -> Records], NEW again \in BOOLEAN
  PROVE  Wrap(calls, again) \in [Tasks -> Records] /\ Alike(calls, Wrap(calls, again))
<1> DEFINE w == Wrap(calls, again)
<1>1. ASSUME NEW t \in Tasks
      PROVE  /\ w[t] \in Records
             /\ w[t].at = calls[t].at /\ w[t].op = calls[t].op
             /\ w[t].after = calls[t].after /\ w[t].wait = calls[t].wait
             /\ calls[t] = NoCall => w[t] = NoCall
  <2>1. calls[t] \in Records
    OBVIOUS
  <2>2. CASE again /\ calls[t].entrySet = 1 /\ calls[t].wait < portMAX_DELAY
    <3>1. w[t] = [calls[t] EXCEPT !.wrapped = 1,
                    !.stalled = IF calls[t].wrapped = 1 THEN 1 ELSE @]
      BY <2>2 DEF Wrap
    <3>2. calls[t] # NoCall
      BY <2>2 DEF NoCall
    <3> HIDE DEF w
    <3> QED BY <2>1, <3>1, <3>2, ZenonT(60) DEF Records
  <2>3. CASE ~(again /\ calls[t].entrySet = 1 /\ calls[t].wait < portMAX_DELAY)
    BY <2>1, <2>3 DEF Wrap
  <2> QED BY <2>2, <2>3
<1>2. w = [t \in Tasks |-> w[t]]
  BY DEF Wrap
<1> HIDE DEF w
<1>3. w \in [Tasks -> Records]
  BY <1>1, <1>2
<1> QED BY <1>1, <1>3 DEF Alike, w

(* What the tick interrupt does to the calls. *)
LEMMA TickCalls ==
  ASSUME Typed, vTickISR
  PROVE  /\ call' \in [Tasks -> Records] /\ Alike(call, call')
         /\ call' = IF s.suspended = 1 THEN Counting
                    ELSE Wrap(Counting, vTaskIncrementTick(s).tick = 0)
<1>1. call' = IF s.suspended = 1 THEN Counting
              ELSE Wrap(Counting, vTaskIncrementTick(s).tick = 0)
  BY DEF vTickISR, Counting
<1>2. Counting \in [Tasks -> Records] /\ Alike(call, Counting)
  BY CountingFacts DEF Typed
<1>3. PICK w : w = Wrap(Counting, vTaskIncrementTick(s).tick = 0)
  OBVIOUS
<1>4. w \in [Tasks -> Records] /\ Alike(Counting, w)
  BY <1>2, <1>3, WrapFacts, Zenon
<1>5. Alike(call, w)
  BY <1>2, <1>4 DEF Alike
<1> QED BY <1>1, <1>2, <1>3, <1>4, <1>5

(* The tick interrupt keeps Base. *)
LEMMA TickISRBase ==
  ASSUME Typed, Base, vTickISR PROVE Typed' /\ Base'
<1>1. PICK z : z = vTaskIncrementTick(s)
  OBVIOUS
<1>2. /\ z \in Schedulers /\ Sound(z, call) /\ z.suspended = s.suspended
      /\ z.current = s.current
      /\ s.suspended = 1 => /\ SamePlaces(s, z) /\ z.waiting = s.waiting /\ z.pending = s.pending
                            /\ z.missedTicks = s.missedTicks + 1 /\ s.missedTicks < MaxMissed
      /\ s.suspended = 0 => Elapsed(s, 1, z)
  BY <1>1, TickSound
<1>3. s' \in Schedulers /\ Sound(s', call) /\ Switched(z, s')
  <2>1. s' = vTaskSwitchContext(z)
    BY <1>1 DEF vTickISR
  <2> QED BY <1>2, <2>1, SwitchSound
<1>4. call' \in [Tasks -> Records] /\ Alike(call, call')
  BY TickCalls
<1>5. Sound(s', call')
  BY <1>3, <1>4, AlikeOrder DEF Sound
<1>6. s.suspended \in {0, 1} /\ s.tick \in 0..portMAX_DELAY /\ s.missedTicks \in Nat
      /\ s.missedTicks <= MaxMissed /\ now' = (now + 1) % TickModulus /\ q' = q
      /\ now = (s.tick + s.missedTicks) % TickModulus
      /\ MaxMissed \in 0..portMAX_DELAY
  BY QueueAssumption DEF Typed, Schedulers, vTickISR, Base, TicksNeverSlip
<1>7. SameLists(z, s')
  BY <1>3 DEF Switched
<1>8. Typed' /\ TicksNeverSlip'
  <2>1. now' \in 0..portMAX_DELAY
    <3>1. now \in 0..portMAX_DELAY
      BY DEF Typed
    <3> QED BY <3>1, <1>6, DelayRange
  <2>2. CASE s.suspended = 1
    <3>1. s'.missedTicks = s.missedTicks + 1 /\ s'.tick = s.tick /\ s.missedTicks < MaxMissed
      BY <1>2, <1>7, <2>2 DEF SameLists, SamePlaces
    <3>2. s'.missedTicks <= MaxMissed
      BY <3>1, <1>6
    <3>3. s.missedTicks \in 0..portMAX_DELAY
      BY <1>6, DelayRange
    <3>4. (s.tick + s.missedTicks + 1) % TickModulus = (((s.tick + s.missedTicks) % TickModulus) + 1) % TickModulus
      BY <3>3, <1>6, ModFacts, Zenon
    <3>5. s.tick + (s.missedTicks + 1) = s.tick + s.missedTicks + 1
      BY <1>6
    <3>6. TicksNeverSlip'
      BY <3>1, <3>4, <3>5, <1>6 DEF TicksNeverSlip
    <3> QED BY <3>2, <3>6, <2>1, <1>3, <1>4, <1>6 DEF Typed
  <2>3. CASE s.suspended = 0
    <3>1. z.tick = Later(s.tick, 1) /\ z.missedTicks = s.missedTicks
      BY <1>2, <2>3 DEF Elapsed, SameState
    <3>2. s.missedTicks = 0
      BY <2>3 DEF Base, Sound, Suspension
    <3>3. s'.tick = Later(s.tick, 1) /\ s'.missedTicks = 0
      BY <3>1, <3>2, <1>7 DEF SameLists
    <3>4. now = s.tick
      BY <3>2, <1>6, DelayRange
    <3>5. now' = Later(s.tick, 1)
      BY <3>4, <1>6, DelayRange DEF Later
    <3>6. Later(s.tick, 1) \in 0..portMAX_DELAY
      BY <3>5, <2>1
    <3>7. TicksNeverSlip'
      <4>1. (s'.tick + 0) % TickModulus = s'.tick
        BY <3>3, <3>6, DelayRange
      <4> QED BY <4>1, <3>3, <3>5 DEF TicksNeverSlip
    <3> QED BY <3>3, <3>7, <2>1, <1>3, <1>4, <1>6 DEF Typed
  <2> QED BY <2>2, <2>3, <1>6
<1>9. Locks'
  <2>1. \A t \in Tasks : call'[t].at = call[t].at
    BY <1>4 DEF Alike
  <2>2. s'.suspended = s.suspended
    BY <1>2, <1>7 DEF SameLists
  <2>3. s.suspended = 1 => me' = me
    BY <1>2, <1>3 DEF Switched, me
  <2> QED BY <2>1, <2>2, <2>3, <1>3, <1>5, <1>6, LocksKept DEF Base, Sound
<1>10. Running'
  <2>1. CASE s.suspended = 0
    BY <2>1, <1>2, <1>3, <1>7 DEF Running, Switched, SameLists, me
  <2>2. CASE s.suspended = 1
    <3>1. me' = me /\ me \in Tasks
      BY <2>2, <1>2, <1>3, MeTyped DEF Switched, me
    <3>2. Ready(s') = Ready(s)
      BY <2>2, <1>2, <1>7, SamePlacesFacts DEF SameLists
    <3> QED BY <3>1, <3>2, <1>4 DEF Base, Running, Alike, Parked, At
  <2> QED BY <2>1, <2>2, <1>6
<1> QED BY <1>5, <1>8, <1>9, <1>10 DEF Base

(* The head of an event list, if any, is readied and takes over if it ranks high enough. *)
Handed(z, l, w) ==
  \/ z.waiting[l] = <<>> /\ w = z
  \/ /\ z.waiting[l] # <<>>
     /\ \E r \in Schedulers : /\ Removed(z, l, r)
                              /\ \/ HeadOutranks(z, l) /\ Switched(r, w)
                                 \/ ~HeadOutranks(z, l) /\ w = r

Hand(z, l) == IF z.waiting[l] = <<>> THEN z
              ELSE LET r == xTaskRemoveFromEventList(z, l)
                   IN  IF HeadOutranks(z, l) THEN vTaskSwitchContext(r) ELSE r

(* Handing an item or room over to the head of an event list keeps the *)
(* lists sound.                                                        *)
LEMMA HandSound ==
  ASSUME NEW z \in Schedulers, NEW calls, Sound(z, calls), NEW l \in EventLists,
         NEW w, w = Hand(z, l)
  PROVE  w \in Schedulers /\ Sound(w, calls) /\ Handed(z, l, w)
<1>1. CASE z.waiting[l] = <<>>
  BY <1>1 DEF Hand, Handed
<1>2. CASE z.waiting[l] # <<>>
  <2>1. PICK r : r = xTaskRemoveFromEventList(z, l)
    OBVIOUS
  <2>2. r \in Schedulers /\ Sound(r, calls) /\ Removed(z, l, r)
    BY <1>2, <2>1, RemoveSound
  <2>3. CASE HeadOutranks(z, l)
    <3>1. w = vTaskSwitchContext(r)
      BY <1>2, <2>1, <2>3 DEF Hand
    <3>2. w \in Schedulers /\ Sound(w, calls) /\ Switched(r, w)
      BY <2>2, <3>1, SwitchSound
    <3> QED BY <1>2, <2>2, <2>3, <3>2 DEF Handed
  <2>4. CASE ~HeadOutranks(z, l)
    <3>1. w = r
      BY <1>2, <2>1, <2>4 DEF Hand
    <3> QED BY <1>2, <2>2, <2>4, <3>1 DEF Handed
  <2> QED BY <2>3, <2>4
<1> QED BY <1>1, <1>2

Passed(z, l, w) ==
         /\ w.tick = z.tick /\ w.missedTicks = z.missedTicks /\ w.suspended = z.suspended
         /\ Ready(z) \subseteq Ready(w) /\ w.prio = z.prio
         /\ z.suspended = 1 => w.current = z.current /\ Ready(w) = Ready(z)
         /\ z.suspended = 0 => w.pending = z.pending
         /\ w.current = z.current \/ w.current \in Ready(w)
         /\ w.waiting = IF z.waiting[l] = <<>> THEN z.waiting
                        ELSE [z.waiting EXCEPT ![l] = Tail(z.waiting[l])]

(* What the queue's own steps need to know of that. *)
LEMMA HandedFacts ==
  ASSUME NEW z \in Schedulers, NEW l \in EventLists, NEW w, Handed(z, l, w)
  PROVE  Passed(z, l, w)
<1>1. CASE z.waiting[l] = <<>> /\ w = z
  BY <1>1 DEF Passed
<1>2. CASE z.waiting[l] # <<>>
  <2>1. PICK r \in Schedulers : /\ Removed(z, l, r)
                                /\ \/ HeadOutranks(z, l) /\ Switched(r, w)
                                   \/ ~HeadOutranks(z, l) /\ w = r
    BY <1>2 DEF Handed
  <2>2. /\ r.tick = z.tick /\ r.missedTicks = z.missedTicks /\ r.suspended = z.suspended
        /\ Ready(z) \subseteq Ready(r) /\ r.prio = z.prio /\ r.current = z.current
        /\ z.suspended = 1 => Ready(r) = Ready(z)
        /\ z.suspended = 0 => r.pending = z.pending
        /\ r.waiting = [z.waiting EXCEPT ![l] = Tail(z.waiting[l])]
    <3>1. z.suspended \in {0, 1}
      BY DEF Schedulers
    <3> QED BY <2>1, <3>1 DEF Removed, SameState
  <2>3. CASE Switched(r, w)
    <3>1. /\ SameLists(r, w)
          /\ r.suspended = 1 => w.current = r.current
          /\ r.suspended = 0 => w.current \in Ready(r)
      BY <2>3 DEF Switched
    <3>2. r.suspended \in {0, 1}
      BY DEF Schedulers
    <3>3. w.current = z.current \/ w.current \in Ready(w)
      BY <2>2, <3>1, <3>2 DEF SameLists
    <3>4. z.suspended = 1 => w.current = z.current /\ Ready(w) = Ready(z)
      BY <2>2, <3>1 DEF SameLists
    <3> QED BY <1>2, <2>2, <3>1, <3>3, <3>4 DEF SameLists, Passed
  <2>4. CASE w = r
    BY <1>2, <2>2, <2>4 DEF Passed
  <2> QED BY <2>1, <2>3, <2>4
<1> QED BY <1>1, <1>2 DEF Handed

(* Whoever gives the mutex holds it, and only those that do not wait for it. *)
Holding ==
  IsMutex =>
    /\ q.messages = 0 <=> q.holder # NoTask
    /\ \A t \in Tasks : /\ call[t].op = "send" => call[t].at = "top" /\ q.holder = t
                        /\ call[t].op = "receive" => q.holder # t
                        /\ call[t].at = "place" => q.messages = 0

(* The number of items stays between none and all. *)
LEMMA MessagesMoved ==
  ASSUME Typed, NEW op \in EventLists, Possible(op), NEW n,
         n = IF op = "send" THEN q.messages + 1 ELSE q.messages - 1
  PROVE  n \in 0..QueueLength
<1>1. q.messages \in 0..QueueLength /\ QueueLength \in Nat
  BY QueueAssumption DEF Typed, Queues
<1>2. CASE op = "send"
  BY <1>1, <1>2 DEF Possible
<1>3. CASE op # "send"
  BY <1>1, <1>3 DEF Possible
<1> QED BY <1>2, <1>3

(* What an interrupt of the device does. *)
Interrupted(op) ==
  LET lock == IF op = "send" THEN q.txLock ELSE q.rxLock
      n == IF op = "send" THEN q.messages + 1 ELSE q.messages - 1
  IN  /\ ~IsMutex /\ Possible(op) /\ call' = call /\ now' = now
      /\ \/ /\ lock = -1 /\ q' = [q EXCEPT !.messages = n]
            /\ s' \in Schedulers /\ Sound(s', call) /\ Handed(s, Other(op), s')
         \/ /\ lock >= 0 /\ lock < MaxLock /\ s' = s
            /\ op = "send" => q' = [q EXCEPT !.messages = n, !.txLock = lock + 1]
            /\ op # "send" => q' = [q EXCEPT !.messages = n, !.rxLock = lock + 1]

(* What a device's handler does, with the queue locked and without. *)
LEMMA DeviceFacts ==
  ASSUME Typed, Base, NEW op \in EventLists, DeviceISR(op) PROVE Interrupted(op)
<1>1. ~IsMutex /\ Possible(op) /\ call' = call /\ now' = now
  BY DEF DeviceISR
<1> DEFINE lock == IF op = "send" THEN q.txLock ELSE q.rxLock
           n == IF op = "send" THEN q.messages + 1 ELSE q.messages - 1
<1>2. Other(op) \in EventLists /\ q \in Queues
  BY DEF Other, EventLists, Typed
<1>3. CASE lock = -1 /\ q' = [q EXCEPT !.messages = n] /\ s' = Hand(s, Other(op))
  <2>1. s' \in Schedulers /\ Sound(s', call) /\ Handed(s, Other(op), s')
    BY <1>2, <1>3, HandSound DEF Typed, Base
  <2> QED BY <1>1, <1>3, <2>1 DEF Interrupted
<1>4. CASE /\ lock >= 0 /\ lock < MaxLock /\ s' = s
           /\ q' = IF op = "send" THEN [[q EXCEPT !.messages = n] EXCEPT !.txLock = @ + 1]
                   ELSE [[q EXCEPT !.messages = n] EXCEPT !.rxLock = @ + 1]
  <2>1. CASE op = "send"
    <3>1. q' = [q EXCEPT !.messages = n, !.txLock = lock + 1]
      BY <1>2, <1>4, <2>1 DEF Queues
    <3> QED BY <1>1, <1>4, <2>1, <3>1 DEF Interrupted
  <2>2. CASE op # "send"
    <3>1. q' = [q EXCEPT !.messages = n, !.rxLock = lock + 1]
      BY <1>2, <1>4, <2>2 DEF Queues
    <3> QED BY <1>1, <1>4, <2>2, <3>1 DEF Interrupted
  <2> QED BY <2>1, <2>2
<1> QED BY <1>3, <1>4 DEF DeviceISR, Hand

(* What it does to the queue. *)
LEMMA InterruptedQueue ==
  ASSUME Typed, NEW op \in EventLists, Interrupted(op)
  PROVE  /\ q' \in Queues /\ q'.holder = q.holder
         /\ q'.messages = IF op = "send" THEN q.messages + 1 ELSE q.messages - 1
         /\ q'.txLock = IF op = "send" /\ q.txLock >= 0 THEN q.txLock + 1 ELSE q.txLock
         /\ q'.rxLock = IF op = "receive" /\ q.rxLock >= 0 THEN q.rxLock + 1 ELSE q.rxLock
<1> DEFINE lock == IF op = "send" THEN q.txLock ELSE q.rxLock
           n == IF op = "send" THEN q.messages + 1 ELSE q.messages - 1
<1>1. n \in 0..QueueLength
  BY MessagesMoved DEF Interrupted
<1>2. q \in Queues /\ q.txLock \in -1..MaxLock /\ q.rxLock \in -1..MaxLock /\ MaxLock \in Nat
  BY QueueAssumption DEF Typed, Queues
<1>3. CASE lock = -1 /\ q' = [q EXCEPT !.messages = n]
  <2>1. op = "send" => ~(q.txLock >= 0)
    BY <1>3
  <2>2. op = "receive" => ~(q.rxLock >= 0)
    BY <1>3
  <2> HIDE DEF lock, n
  <2> QED BY <1>1, <1>2, <1>3, <2>1, <2>2 DEF Queues, n
<1>4. CASE lock >= 0 /\ lock < MaxLock /\ op = "send" /\ q' = [q EXCEPT !.messages = n, !.txLock = lock + 1]
  <2>1. lock + 1 \in -1..MaxLock /\ lock = q.txLock
    BY <1>2, <1>4
  <2> HIDE DEF lock, n
  <2> QED BY <1>1, <1>2, <1>4, <2>1, Zenon DEF Queues, n
<1>5. CASE lock >= 0 /\ lock < MaxLock /\ op # "send" /\ q' = [q EXCEPT !.messages = n, !.rxLock = lock + 1]
  <2>1. lock + 1 \in -1..MaxLock /\ lock = q.rxLock /\ op = "receive"
    BY <1>2, <1>5 DEF EventLists
  <2> HIDE DEF lock, n
  <2> QED BY <1>1, <1>2, <1>5, <2>1, Zenon DEF Queues, n
<1> QED BY <1>3, <1>4, <1>5 DEF Interrupted

(* A device's handler keeps Base. *)
LEMMA DeviceBase ==
  ASSUME Typed, Base, NEW op \in EventLists, DeviceISR(op) PROVE Typed' /\ Base'
<1>1. Interrupted(op)
  BY DeviceFacts
<1>2. /\ q' \in Queues
      /\ q'.txLock >= 0 <=> q.txLock >= 0
      /\ q'.rxLock >= 0 <=> q.rxLock >= 0
  <2>1. /\ q' \in Queues
        /\ q'.txLock = IF op = "send" /\ q.txLock >= 0 THEN q.txLock + 1 ELSE q.txLock
        /\ q'.rxLock = IF op = "receive" /\ q.rxLock >= 0 THEN q.rxLock + 1 ELSE q.rxLock
    BY <1>1, InterruptedQueue
  <2>2. q.txLock \in Int /\ q.rxLock \in Int
    BY QueueAssumption DEF Typed, Queues
  <2> QED BY <2>1, <2>2
<1>3. call' = call /\ now' = now
  BY <1>1 DEF Interrupted
<1>4. CASE s' = s
  BY <1>2, <1>3, <1>4 DEF Typed, Base, Locks, Running, TicksNeverSlip, At, me
<1>5. CASE s' \in Schedulers /\ Sound(s', call) /\ Handed(s, Other(op), s')
  <2>0. s \in Schedulers /\ Other(op) \in EventLists
    BY DEF Typed, Other, EventLists
  <2>1. /\ s'.tick = s.tick /\ s'.missedTicks = s.missedTicks /\ s'.suspended = s.suspended
        /\ Ready(s) \subseteq Ready(s')
        /\ s.suspended = 1 => s'.current = s.current
        /\ s'.current = s.current \/ s'.current \in Ready(s')
    <3>1. Passed(s, Other(op), s')
      BY <1>5, <2>0, HandedFacts
    <3> QED BY <3>1 DEF Passed
  <2>2. Typed'
    BY <1>2, <1>3, <1>5, <2>1 DEF Typed
  <2>3. Sound(s', call')
    BY <1>3, <1>5
  <2>4. Locks'
    BY <1>2, <1>3, <1>5, <2>1, <2>3, LocksKept DEF Base, Sound, me
  <2>5. Running' /\ TicksNeverSlip'
    BY <1>3, <2>1 DEF Base, Running, TicksNeverSlip, At, me
  <2> QED BY <2>2, <2>3, <2>4, <2>5 DEF Base
<1> QED BY <1>1, <1>4, <1>5 DEF Interrupted

(* A new priority keeps the lists sound when the task is in no event *)
(* list, or alone in it.                                             *)
LEMMA ReprioritisedSound ==
  ASSUME NEW z \in Schedulers, NEW calls, Sound(z, calls), NEW h \in Tasks, NEW p \in Priorities,
         NEW r \in Schedulers, Reprioritised(z, h, p, r),
         \A l \in EventLists : h \in ToSet(z.waiting[l]) => ToSet(z.waiting[l]) = {h}
  PROVE  Sound(r, calls)
<1>1. Orderly(r, calls)
  BY ReprioritisedOrder DEF Sound
<1>2. Suspension(r, calls)
  BY DEF Sound, Suspension, Reprioritised
<1> QED BY <1>1, <1>2 DEF Sound

(* The first critical section of a send or receive that succeeds: the      *)
(* scheduler after a mutex has been given back, and what becomes of it.     *)
Transferred(z) ==
  LET op == call[me].op
  IN  /\ z \in Schedulers /\ Sound(z, call) /\ Passed(z, Other(op), s')
      /\ ~(IsMutex /\ op = "send") => z = s
      /\ IsMutex /\ op = "send" => /\ q.holder = me /\ me \in Ready(s)
                                   /\ Reprioritised(s, me, uxBasePriority[me], z)
      /\ Handed(z, Other(op), s') /\ s' \in Schedulers /\ Sound(s', call)

(* What a successful call does: a mutex given back first takes the    *)
(* inherited priority away, then the head of the other list is woken. *)
LEMMA TransferFacts ==
  ASSUME Typed, Base, Holding, Transfer
  PROVE  /\ call[me].at = "top" /\ call[me].op \in EventLists /\ s.suspended = 0
         /\ Possible(call[me].op) /\ call' = [call EXCEPT ![me] = NoCall] /\ now' = now
         /\ q' \in Queues /\ q'.txLock = q.txLock /\ q'.rxLock = q.rxLock
         /\ q'.messages = IF call[me].op = "send" THEN q.messages + 1 ELSE q.messages - 1
         /\ q'.holder = IF IsMutex /\ call[me].op = "receive" THEN me ELSE NoTask
         /\ \E z : Transferred(z)
<1> DEFINE op == call[me].op
<1>0. me \in Tasks /\ call \in [Tasks -> Records] /\ s \in Schedulers /\ s.suspended \in {0, 1}
  BY MeTyped DEF Typed
<1>1. /\ call[me].at = "top" /\ Possible(op) /\ call' = [call EXCEPT ![me] = NoCall] /\ now' = now
      /\ q' = [q EXCEPT !.messages = IF op = "send" THEN @ + 1 ELSE @ - 1,
                        !.holder = IF IsMutex /\ op = "receive" THEN me ELSE NoTask]
  BY DEF Transfer, Return, At
<1>2. op \in EventLists /\ s.suspended = 0
  BY <1>0, <1>1 DEF Base, Sound, Orderly, Calls, CallOK, Suspension, Suspending, me
<1>3. PICK n : n = IF op = "send" THEN q.messages + 1 ELSE q.messages - 1
  OBVIOUS
<1>4. n \in 0..QueueLength
  BY <1>1, <1>2, <1>3, MessagesMoved
<1>5. PICK h : h = IF IsMutex /\ op = "receive" THEN me ELSE NoTask
  OBVIOUS
<1>6. q' = [q EXCEPT !.messages = n, !.holder = h] /\ h \in Tasks \cup {NoTask}
  BY <1>0, <1>1, <1>3, <1>5
<1>7. /\ q' \in Queues /\ q'.txLock = q.txLock /\ q'.rxLock = q.rxLock
      /\ q'.messages = n /\ q'.holder = h
  BY <1>4, <1>6, Zenon DEF Typed, Queues
<1>8. \E z : Transferred(z)
  <2>1. PICK z : z = IF IsMutex /\ op = "send" /\ q.holder # NoTask
                     THEN vTaskPriorityDisinherit(s, q.holder) ELSE s
    OBVIOUS
  <2>2. s' = Hand(z, Other(op))
    BY <2>1 DEF Transfer, Hand
  <2>3. me \in Ready(s) /\ \A l \in EventLists : me \notin ToSet(s.waiting[l])
    BY <1>1, MeReady DEF At
  <2>4. CASE ~(IsMutex /\ op = "send")
    <3>1. z = s
      BY <2>1, <2>4
    <3> QED BY <1>0, <1>1, <2>2, <2>4, <3>1, HandSound, HandedFacts DEF Transferred, Base, Other, EventLists
  <2>5. CASE IsMutex /\ op = "send"
    <3>1. q.holder = me /\ me # NoTask
      BY <1>0, <2>5, QueueAssumption DEF Holding
    <3>2. z = vTaskPriorityDisinherit(s, me)
      BY <2>1, <2>5, <3>1
    <3>3. z \in Schedulers /\ Reprioritised(s, me, uxBasePriority[me], z)
      BY <1>0, <2>3, <3>2, DisinheritFacts DEF Base, Sound, Orderly, Lists
    <3>4. uxBasePriority[me] \in Priorities
      BY <1>0, PriorityRange DEF uxBasePriority, Tasks
    <3>5. Sound(z, call)
      BY <1>0, <2>3, <3>3, <3>4, ReprioritisedSound DEF Base
    <3> QED BY <1>0, <1>1, <2>2, <2>3, <2>5, <3>1, <3>3, <3>5, HandSound, HandedFacts
            DEF Transferred, Other, EventLists
  <2> QED BY <2>4, <2>5
<1> QED BY <1>1, <1>2, <1>3, <1>5, <1>7, <1>8

(* A successful call keeps Base. *)
LEMMA TransferBase ==
  ASSUME Typed, Base, Holding, Transfer PROVE Typed' /\ Base'
<1>0. me \in Tasks /\ call \in [Tasks -> Records] /\ s \in Schedulers /\ call[me] \in Records
  BY MeTyped DEF Typed
<1>1. /\ call[me].at = "top" /\ call[me].op \in EventLists /\ s.suspended = 0
      /\ call' = [call EXCEPT ![me] = NoCall] /\ now' = now
      /\ q' \in Queues /\ q'.txLock = q.txLock /\ q'.rxLock = q.rxLock
  BY TransferFacts
<1>2. PICK z : Transferred(z)
  BY TransferFacts
<1>3. /\ z \in Schedulers /\ Sound(z, call) /\ Passed(z, Other(call[me].op), s')
      /\ s' \in Schedulers /\ Sound(s', call)
  BY <1>2 DEF Transferred
<1>4. /\ Ready(z) = Ready(s) /\ z.tick = s.tick /\ z.missedTicks = s.missedTicks
      /\ z.suspended = s.suspended /\ z.current = s.current
  BY <1>2 DEF Transferred, Reprioritised
<1>5. /\ s'.tick = s.tick /\ s'.missedTicks = s.missedTicks /\ s'.suspended = 0
      /\ Ready(s) \subseteq Ready(s')
      /\ s'.current = s.current \/ s'.current \in Ready(s')
  BY <1>1, <1>3, <1>4 DEF Passed
<1>6. me \in Ready(s')
  BY <1>1, <1>5, MeReady DEF At
<1>7. /\ me \notin ToSet(s'.pending)
      /\ \A l \in EventLists : me \notin ToSet(s'.waiting[l])
  BY <1>3, <1>6 DEF Sound, Orderly, Apart
<1>8. me # Idle
  BY <1>1, InCall DEF At
<1>9. NoCall \in Records /\ CallOK(NoCall) /\ NoCall.at = "out"
  BY DelayRange DEF NoCall, Records, CallOK, Leaving
<1>10. /\ call' \in [Tasks -> Records] /\ call'[me] = NoCall
       /\ \A u \in Tasks \ {me} : call'[u] = call[u]
       /\ Queued(s', call') /\ Calls(s', call')
  <2>1. Queued(s', call) /\ Calls(s', call)
    BY <1>3 DEF Sound, Orderly
  <2>2. Replaced(s', call, me, NoCall, call')
    BY <1>0, <1>1, <1>3, <1>7, <1>8, <1>9, <2>1, OneCall, Zenon
  <2> QED BY <2>2 DEF Replaced
<1>11. Typed'
  BY <1>1, <1>3, <1>5, <1>10 DEF Typed
<1>12. \A t \in Tasks : call'[t].at \notin Suspending
  <2>1. \A t \in Tasks : call[t].at \notin Suspending
    BY <1>3, <1>5 DEF Sound, Suspension
  <2> QED BY <2>1, <1>9, <1>10 DEF Suspending
<1>13. Sound(s', call')
  BY <1>3, <1>5, <1>10, <1>12 DEF Sound, Orderly, Suspension
<1>14. Locks'
  <2>1. ~(q.txLock >= 0) /\ ~(q.rxLock >= 0)
    BY <1>1 DEF Base, Locks, TxHeld, RxHeld
  <2>2. me' \in Tasks
    BY <1>3 DEF Schedulers, me
  <2> QED BY <1>1, <1>12, <2>1, <2>2 DEF Locks, TxHeld, RxHeld, Suspending
<1>15. Running' /\ TicksNeverSlip'
  BY <1>1, <1>5, <1>6 DEF Running, Base, TicksNeverSlip, me
<1> QED BY <1>11, <1>13, <1>14, <1>15 DEF Base

(* The running task takes its place among those that wait, after the       *)
(* holder of a mutex has inherited its priority.                           *)
PlacedAfter(z) ==
  /\ z \in Schedulers /\ Sound(z, call) /\ Placed(z, call[me].op, call[me].wait, s')
  /\ z.current = me /\ s' \in Schedulers
  /\ ~IsMutex => z = s
  /\ IsMutex => /\ call[me].op = "receive" /\ q.holder \in Tasks \ {me} /\ q.messages = 0
                /\ Reprioritised(s, q.holder,
                     IF s.prio[q.holder] >= s.prio[me] THEN s.prio[q.holder] ELSE s.prio[me], z)

(* What putting the running task on the event list does, after the holder *)
(* of the mutex inherited its priority.                                   *)
LEMMA PlaceStep ==
  ASSUME Typed, Base, Holding, Place
  PROVE  /\ call[me].at = "place" /\ call[me].op \in EventLists /\ s.suspended = 1
         /\ call[me].wait \in 1..portMAX_DELAY
         /\ call' = [call EXCEPT ![me].at = "unlockTx", ![me].after = "yield"]
         /\ q' = q /\ now' = now
         /\ \E z : PlacedAfter(z)
<1> DEFINE c == call[me]
<1>0. me \in Tasks /\ call \in [Tasks -> Records] /\ c \in Records /\ s \in Schedulers
  BY MeTyped DEF Typed
<1>1. /\ c.at = "place" /\ q' = q /\ now' = now
      /\ call' = [call EXCEPT ![me].at = "unlockTx", ![me].after = "yield"]
  BY DEF Place, At
<1>2. c.op \in EventLists /\ c.wait > 0 /\ s.suspended = 1
  BY <1>0, <1>1 DEF Base, Sound, Orderly, Calls, CallOK, Suspension, Suspending, me
<1>3. c.wait \in 1..portMAX_DELAY
  <2>1. c.wait \in 0..portMAX_DELAY
    BY <1>0 DEF Records
  <2> QED BY <2>1, <1>2
<1>4. PICK z : z = IF IsMutex /\ c.op = "receive" THEN vTaskPriorityInherit(s, q.holder) ELSE s
  OBVIOUS
<1>5. s' = vTaskPlaceOnEventList(z, c.op, c.wait)
  BY <1>4 DEF Place
<1>6. CASE ~IsMutex
  <2>1. z = s
    BY <1>4, <1>6
  <2>2. s' \in Schedulers /\ Placed(z, c.op, c.wait, s')
    BY <1>0, <1>2, <1>3, <1>5, <2>1, PlaceFacts
  <2> QED BY <1>0, <1>1, <1>2, <1>3, <1>6, <2>1, <2>2 DEF PlacedAfter, Base, me
<1>7. CASE IsMutex
  <2>1. c.op = "receive" /\ q.messages = 0 /\ q.holder # NoTask /\ q.holder # me
    BY <1>0, <1>1, <1>2, <1>7 DEF Holding, EventLists
  <2>2. q.holder \in Tasks
    BY <2>1 DEF Typed, Queues
  <2>3. PICK p : p = IF s.prio[q.holder] >= s.prio[me] THEN s.prio[q.holder] ELSE s.prio[me]
    OBVIOUS
  <2>4. z = vTaskPriorityInherit(s, q.holder)
    BY <1>4, <1>7, <2>1
  <2>5. z \in Schedulers /\ p \in Priorities /\ Reprioritised(s, q.holder, p, z)
    BY <1>0, <2>2, <2>3, <2>4, InheritFacts DEF me, Base, Sound, Orderly, Lists
  <2>6. ASSUME NEW l \in EventLists, q.holder \in ToSet(s.waiting[l])
        PROVE  ToSet(s.waiting[l]) = {q.holder}
    <3>1. \A t \in ToSet(s.waiting[l]) : t \in Tasks /\ call[t].op = l
      <4>1. s.waiting[l] \in Seq(Tasks)
        BY <1>0 DEF Schedulers
      <4> QED BY <4>1, InToSet DEF Base, Sound, Orderly, Queued
    <3>2. l = "send"
      BY <1>7, <2>2, <2>6, <3>1 DEF Holding, EventLists
    <3>3. \A t \in ToSet(s.waiting[l]) : t = q.holder
      BY <1>7, <3>1, <3>2 DEF Holding
    <3> QED BY <2>6, <3>3
  <2>7. Sound(z, call)
    BY <1>0, <2>2, <2>5, <2>6, ReprioritisedSound, Zenon DEF Base
  <2>8. s' \in Schedulers /\ Placed(z, c.op, c.wait, s')
    BY <1>2, <1>3, <1>5, <2>5, PlaceFacts
  <2>9. z.current = me
    BY <2>5 DEF Reprioritised, me
  <2> QED BY <1>0, <1>1, <1>2, <1>3, <1>7, <2>1, <2>2, <2>3, <2>5, <2>7, <2>8, <2>9 DEF PlacedAfter
<1> QED BY <1>6, <1>7

(* Putting the running task on the event list keeps Base. *)
LEMMA PlaceBase ==
  ASSUME Typed, Base, Holding, Place PROVE Typed' /\ Base'
<1> DEFINE b == call[me]
           c == [b EXCEPT !.at = "unlockTx", !.after = "yield"]
           l == b.op
<1>0. me \in Tasks /\ call \in [Tasks -> Records] /\ b \in Records /\ s \in Schedulers
  BY MeTyped DEF Typed
<1>1. /\ b.at = "place" /\ l \in EventLists /\ s.suspended = 1 /\ b.wait \in 1..portMAX_DELAY
      /\ q' = q /\ now' = now
  BY PlaceStep
<1>2. call' = [call EXCEPT ![me] = c]
  <2>1. call' = [call EXCEPT ![me].at = "unlockTx", ![me].after = "yield"]
    BY PlaceStep
  <2> QED BY <2>1, <1>0, Zenon
<1>3. /\ c \in Records /\ c.at = "unlockTx" /\ c.after = "yield" /\ c.op = b.op /\ c.wait = b.wait
  BY <1>0, Zenon DEF Records
<1>4. PICK z : PlacedAfter(z)
  BY PlaceStep
<1>5. z \in Schedulers /\ Sound(z, call) /\ s' \in Schedulers /\ z.current = me
      /\ Placed(z, l, b.wait, s')
  BY <1>4 DEF PlacedAfter
<1>6. /\ Ready(z) = Ready(s) /\ z.tick = s.tick /\ z.missedTicks = s.missedTicks
      /\ z.suspended = s.suspended
  BY <1>4 DEF PlacedAfter, Reprioritised
<1> HIDE DEF c, l
<1>7. /\ SameState(z, s') /\ s'.tick = z.tick /\ s'.pending = z.pending
      /\ s'.waiting = [z.waiting EXCEPT ![l] = vListInsert(z.waiting[l], z.event, me)]
      /\ Ready(s') = Ready(z) \ {me}
      /\ Tidy(s') /\ InTime(s') /\ TopOK(s')
  BY <1>1, <1>5 DEF Placed, Sound, Orderly, Lists
<1>8. Lists(s')
  BY <1>5, <1>7 DEF Sound, Orderly, Lists, SameState, EventOK
<1>9. me # Idle /\ ~Parked(b)
  BY <1>1, InCall DEF At, Parked, Leaving
<1>10. me \in Ready(z) /\ me \notin ToSet(z.pending) /\ \A m \in EventLists : me \notin ToSet(z.waiting[m])
  <2>1. me \in Ready(z)
    BY <1>6, <1>9, MeReady
  <2> QED BY <2>1, <1>5 DEF Sound, Orderly, Apart
<1>11. z.waiting \in [EventLists -> Seq(Tasks)] /\ z.event \in [Tasks -> 0..configMAX_PRIORITIES]
       /\ z.pending \in Seq(Tasks)
  BY <1>5, Zenon DEF Schedulers
<1>12. PICK list, new : list = z.waiting[l] /\ new = vListInsert(list, z.event, me)
  OBVIOUS
<1>13. list \in Seq(Tasks) /\ IsInjective(list) /\ Rising(list, z.event) /\ me \notin ToSet(list)
  BY <1>1, <1>5, <1>10, <1>11, <1>12 DEF Sound, Orderly, Apart, l
<1>14. /\ new \in Seq(Tasks) /\ ToSet(new) = ToSet(list) \cup {me} /\ IsInjective(new)
       /\ Rising(new, z.event)
  <2>1. ASSUME NEW x \in Tasks PROVE z.event[x] \in Int
    <3>1. z.event[x] \in 0..configMAX_PRIORITIES
      BY <1>11
    <3> QED BY <3>1
  <2> QED BY <2>1, <1>0, <1>12, <1>13, InsertFacts
<1>15. /\ s'.waiting[l] = new
       /\ \A m \in EventLists : m # l => s'.waiting[m] = z.waiting[m]
  BY <1>1, <1>7, <1>11, <1>12 DEF l
<1>16. Apart(s')
  <2>0. s'.event = z.event
    BY <1>7 DEF SameState
  <2>1. ASSUME NEW m \in EventLists
        PROVE  /\ IsInjective(s'.waiting[m]) /\ Rising(s'.waiting[m], s'.event)
               /\ ToSet(s'.waiting[m]) \cap (ToSet(s'.pending) \cup Ready(s')) = {}
    <3>1. ToSet(z.waiting[m]) \cap (ToSet(z.pending) \cup Ready(z)) = {}
      BY <1>5 DEF Sound, Orderly, Apart
    <3>2. CASE m = l
      BY <2>0, <3>1, <3>2, <1>7, <1>10, <1>12, <1>14, <1>15
    <3>3. CASE m # l
      BY <2>0, <3>1, <3>3, <1>5, <1>7, <1>15 DEF Sound, Orderly, Apart
    <3> QED BY <3>2, <3>3
  <2>2. ToSet(s'.waiting["send"]) \cap ToSet(s'.waiting["receive"]) = {}
    <3>1. ToSet(z.waiting["send"]) \cap ToSet(z.waiting["receive"]) = {}
      BY <1>5 DEF Sound, Orderly, Apart
    <3> QED BY <3>1, <1>1, <1>10, <1>12, <1>14, <1>15 DEF EventLists, l
  <2>3. IsInjective(s'.pending) /\ ToSet(s'.pending) \cap Ready(s') = {}
    BY <1>5, <1>7 DEF Sound, Orderly, Apart
  <2> QED BY <2>1, <2>2, <2>3 DEF Apart
<1>17. call'[me] = c /\ (\A u \in Tasks \ {me} : call'[u] = call[u]) /\ call' \in [Tasks -> Records]
  BY <1>0, <1>2, <1>3
<1>18. Queued(s', call')
  <2>1. /\ \A m \in EventLists : ToSet(z.waiting[m]) \subseteq Tasks
        /\ ToSet(z.pending) \subseteq Tasks
    BY <1>11, InToSet
  <2>2. /\ \A m \in EventLists : \A t \in ToSet(z.waiting[m]) : call'[t].op = m /\ Parked(call'[t])
        /\ \A t \in ToSet(z.pending) : call'[t].op \in EventLists /\ Parked(call'[t])
    BY <2>1, <1>5, <1>10, <1>17 DEF Sound, Orderly, Queued
  <2>3. call'[me].op = l /\ Parked(call'[me])
    BY <1>3, <1>17 DEF Parked, Leaving, l
  <2>4. ASSUME NEW m \in EventLists, NEW t \in ToSet(s'.waiting[m])
        PROVE  call'[t].op = m /\ Parked(call'[t])
    <3>1. CASE m = l
      BY <3>1, <2>2, <2>3, <2>4, <1>12, <1>14, <1>15
    <3>2. CASE m # l
      BY <3>2, <2>2, <2>4, <1>15
    <3> QED BY <3>1, <3>2
  <2> QED BY <2>2, <2>4, <1>7 DEF Queued
<1>19. Calls(s', call')
  <2>1. CallOK(c)
    BY <1>1, <1>3 DEF CallOK, Leaving, EventLists, l
  <2>2. call'[Idle] = NoCall /\ Idle \in Ready(s')
    BY <1>5, <1>7, <1>9, <1>17 DEF Sound, Orderly, Calls, Tasks
  <2> QED BY <2>1, <2>2, <1>17 DEF Base, Sound, Orderly, Calls
<1>20. Suspension(s', call')
  <2>1. s'.current = me /\ s'.suspended = 1
    BY <1>1, <1>5, <1>6, <1>7 DEF SameState
  <2> QED BY <2>1, <1>0, <1>1, <1>3, <1>17 DEF Base, Sound, Suspension, Suspending, me
<1>21. Typed'
  BY <1>1, <1>5, <1>6, <1>7, <1>17 DEF Typed, SameState
<1>22. Locks' /\ Running' /\ TicksNeverSlip'
  <2>1. me' = me
    BY <1>5, <1>7 DEF SameState, me
  <2>2. Locks'
    BY <2>1, <1>1, <1>3, <1>17 DEF Base, Locks, TxHeld, RxHeld
  <2>3. Running'
    BY <2>1, <1>3, <1>17 DEF Running, Parked, Leaving, At
  <2>4. TicksNeverSlip'
    BY <1>1, <1>5, <1>6, <1>7 DEF TicksNeverSlip, Base, SameState
  <2> QED BY <2>2, <2>3, <2>4
<1> QED BY <1>8, <1>16, <1>18, <1>19, <1>20, <1>21, <1>22 DEF Base, Sound, Orderly

(* The pending list is emptied and the scheduler goes on. *)
Resuming(z) ==
  /\ z \in Schedulers /\ z.suspended = 0 /\ z.pending = <<>> /\ z.current = s.current
  /\ z.missedTicks = s.missedTicks /\ z.missedYield = s.missedYield /\ z.waiting = s.waiting
  /\ z.tick = s.tick /\ z.event = s.event /\ z.prio = s.prio
  /\ Ready(z) = Ready(s) \cup ToSet(s.pending)
  /\ ToSet(z.delayed) = ToSet(s.delayed) \ ToSet(s.pending)
  /\ ToSet(z.overflow) = ToSet(s.overflow) \ ToSet(s.pending)
  /\ z.wake = [t \in Tasks |-> IF t \in ToSet(s.pending) THEN 0 ELSE s.wake[t]]
  /\ Orderly(z, call)

(* xTaskResumeAll first makes the pending tasks ready. *)
LEMMA ResumingFacts ==
  ASSUME Typed, Base, NEW z,
         z = [MoveToReady(s, s.pending) EXCEPT !.suspended = 0, !.pending = <<>>]
  PROVE  Resuming(z)
<1>0. s \in Schedulers /\ s.pending \in Seq(Tasks) /\ ToSet(s.pending) \subseteq Tasks
  BY MeTyped, InToSet DEF Typed
<1>1. PICK u : u = MoveToReady(s, s.pending)
  OBVIOUS
<1>2. u \in Schedulers /\ Moved(s, s.pending, u)
  BY <1>0, <1>1, MoveToReadyFacts
<1>3. /\ SamePlaces(u, z) /\ z.current = u.current /\ z.waiting = u.waiting
      /\ z.missedTicks = u.missedTicks /\ z.missedYield = u.missedYield
      /\ z.pending = <<>> /\ z.suspended = 0 /\ z \in Schedulers
  <2>1. z = [u EXCEPT !.suspended = 0, !.pending = <<>>]
    BY <1>1
  <2>2. z \in Schedulers
    <3> DEFINE none == <<>>
    <3>1. none \in Seq(Tasks) /\ z = [u EXCEPT !.suspended = 0, !.pending = none]
      BY <2>1
    <3> HIDE DEF none
    <3> QED BY <1>2, <3>1, ZenonT(60) DEF Schedulers
  <2> QED BY <1>2, <2>1, <2>2, ZenonT(60) DEF Schedulers, SamePlaces
<1>4. /\ SameRest(s, u) /\ Ready(u) = Ready(s) \cup ToSet(s.pending)
      /\ ToSet(u.delayed) = ToSet(s.delayed) \ ToSet(s.pending)
      /\ ToSet(u.overflow) = ToSet(s.overflow) \ ToSet(s.pending)
      /\ u.wake = [t \in Tasks |-> IF t \in ToSet(s.pending) THEN 0 ELSE s.wake[t]]
      /\ TopOK(s) => TopOK(u)
      /\ TidyBut(s, ToSet(s.pending)) /\ IsInjective(s.pending) => Tidy(u)
      /\ InTimeBut(s, ToSet(s.pending)) => InTime(u)
  BY <1>2 DEF Moved
<1>5. /\ Tidy(s) /\ InTime(s) /\ TopOK(s) /\ EventOK(s) /\ IsInjective(s.pending)
      /\ TidyBut(s, ToSet(s.pending)) /\ InTimeBut(s, ToSet(s.pending))
  <2>1. Tidy(s) /\ InTime(s) /\ TopOK(s) /\ EventOK(s) /\ IsInjective(s.pending)
    BY DEF Base, Sound, Orderly, Lists, Apart
  <2>2. TidyBut(s, {}) /\ InTimeBut(s, {})
    BY <2>1, TidyParts
  <2> QED BY <2>1, <2>2 DEF TidyBut, InTimeBut
<1>6. Lists(u)
  BY <1>4, <1>5 DEF Lists, SameRest, EventOK
<1>7. Lists(z) /\ Ready(z) = Ready(u)
  BY <1>3, <1>6, SamePlacesFacts DEF Lists
<1>8. /\ z.current = s.current /\ z.waiting = s.waiting
      /\ z.missedTicks = s.missedTicks /\ z.missedYield = s.missedYield
      /\ z.tick = s.tick /\ z.event = s.event /\ z.prio = s.prio
  BY <1>3, <1>4 DEF SamePlaces, SameRest
<1>9. ToSet(z.pending) = {} /\ IsInjective(z.pending)
  <2> DEFINE none == <<>>
  <2>1. none \in Seq(Tasks) /\ DOMAIN none = {}
    OBVIOUS
  <2>2. z.pending = none
    BY <1>3
  <2> HIDE DEF none
  <2> QED BY <2>1, <2>2 DEF ToSet, IsInjective
<1>10. Apart(z)
  <2>1. ASSUME NEW l \in EventLists
        PROVE  /\ IsInjective(z.waiting[l]) /\ Rising(z.waiting[l], z.event)
               /\ ToSet(z.waiting[l]) \cap (ToSet(z.pending) \cup Ready(z)) = {}
    BY <1>4, <1>7, <1>8, <1>9 DEF Base, Sound, Orderly, Apart
  <2>2. ToSet(z.waiting["send"]) \cap ToSet(z.waiting["receive"]) = {}
    BY <1>8 DEF Base, Sound, Orderly, Apart
  <2> QED BY <2>1, <2>2, <1>9 DEF Apart
<1>11. Queued(z, call) /\ Calls(z, call)
  BY <1>4, <1>7, <1>8, <1>9 DEF Base, Sound, Orderly, Queued, Calls
<1>12. /\ ToSet(z.delayed) = ToSet(u.delayed) /\ ToSet(z.overflow) = ToSet(u.overflow)
       /\ z.wake = u.wake
  BY <1>3 DEF SamePlaces
<1> QED BY <1>3, <1>4, <1>7, <1>8, <1>10, <1>11, <1>12 DEF Resuming, Orderly

(* xTaskResumeAll: the state z it goes on in, w after the missed ticks,    *)
(* and whether it yields.                                                  *)
ResumeYields ==
  \/ \E t \in ToSet(s.pending) : s.prio[t] >= s.prio[me]
  \/ s.missedTicks > 0
  \/ s.missedYield = 1

Resumption(z, w) ==
  /\ Resuming(z) /\ w \in Schedulers /\ Elapsed(z, s.missedTicks, w) /\ Orderly(w, call)
  /\ \E v \in Schedulers : 
       /\ SamePlaces(w, v) /\ v.current = me /\ v.waiting = w.waiting /\ v.pending = <<>>
       /\ v.missedTicks = 0 /\ v.missedYield = 0 /\ v.suspended = 0
       /\ ResumeYields => Switched(v, s')
       /\ ~ResumeYields => s' = v
  /\ s' \in Schedulers /\ Orderly(s', call)
  /\ call' = [Wrap(call, w.tick < s.tick) EXCEPT ![me] = Resumed(@, ResumeYields)]

(* What xTaskResumeAll does: pending tasks, missed ticks, then a switch *)
(* if one is due.                                                       *)
LEMMA ResumeFacts ==
  ASSUME Typed, Base, xTaskResumeAll
  PROVE  /\ call[me].at = "resume" /\ s.suspended = 1 /\ q' = q /\ now' = now
         /\ \E z, w : Resumption(z, w)
<1>0. s \in Schedulers /\ me \in Tasks /\ call[me] \in Records
  BY MeTyped DEF Typed
<1>1. call[me].at = "resume" /\ s.suspended = 1 /\ q' = q /\ now' = now
  BY <1>0 DEF xTaskResumeAll, At, Base, Sound, Suspension, Suspending, me
<1>2. PICK z0 : z0 = [MoveToReady(s, s.pending) EXCEPT !.suspended = 0, !.pending = <<>>]
  OBVIOUS
<1>3. Resuming(z0)
  BY <1>2, ResumingFacts
<1>4. /\ z0 \in Schedulers /\ Orderly(z0, call) /\ z0.suspended = 0 /\ z0.pending = <<>>
      /\ z0.missedTicks = s.missedTicks /\ z0.current = me /\ z0.missedYield = s.missedYield
  BY <1>3 DEF Resuming, me
<1>5. z0.missedTicks <= portMAX_DELAY
  <2>1. s.missedTicks \in Nat /\ s.missedTicks <= MaxMissed /\ MaxMissed \in 0..portMAX_DELAY
    BY QueueAssumption DEF Typed, Schedulers
  <2> QED BY <2>1, <1>4, DelayRange
<1>6. PICK w \in Schedulers : /\ Elapsed(z0, z0.missedTicks, w)
                              /\ MissedTicks(z0) = [w EXCEPT !.missedTicks = 0]
  BY <1>4, <1>5, MissedTicksFacts DEF Orderly, Lists
<1>7. Orderly(w, call)
  BY <1>4, <1>6, ElapsedOrder
<1>8. /\ w.pending = <<>> /\ w.suspended = 0 /\ w.current = me /\ w.missedYield = s.missedYield
  BY <1>4, <1>6 DEF Elapsed, SameState
<1>9. PICK z : z = MissedTicks(z0)
  OBVIOUS
<1>10. /\ z \in Schedulers /\ SamePlaces(w, z) /\ z.waiting = w.waiting /\ z.pending = <<>>
       /\ z.suspended = 0 /\ z.current = me /\ z.missedYield = s.missedYield
       /\ z.missedTicks = 0
  <2>1. z = [w EXCEPT !.missedTicks = 0] /\ w \in Schedulers
    BY <1>6, <1>9
  <2>2. z \in Schedulers
    BY <2>1, Zenon DEF Schedulers
  <2> QED BY <2>1, <2>2, <1>8, ZenonT(60) DEF Schedulers, SamePlaces
<1>11. PICK v : v = [z EXCEPT !.missedYield = 0]
  BY Zenon
<1>12. /\ v \in Schedulers /\ SamePlaces(w, v) /\ v.waiting = w.waiting /\ v.pending = <<>>
       /\ v.suspended = 0 /\ v.current = me /\ v.missedYield = 0 /\ v.missedTicks = 0
  <2>1. v \in Schedulers
    BY <1>10, <1>11, Zenon DEF Schedulers
  <2> QED BY <2>1, <1>10, <1>11, Zenon DEF Schedulers, SamePlaces
<1>13. Orderly(v, call)
  <2>1. Lists(v) /\ Ready(v) = Ready(w)
    BY <1>7, <1>12, SamePlacesFacts DEF Orderly, Lists
  <2>2. Apart(v)
    BY <2>1, <1>7, <1>8, <1>12 DEF Orderly, Apart, SamePlaces
  <2>3. Queued(v, call) /\ Calls(v, call)
    BY <2>1, <1>7, <1>8, <1>12 DEF Orderly, Queued, Calls
  <2> QED BY <2>1, <2>2, <2>3 DEF Orderly
<1>14. /\ s' = IF ResumeYields THEN vTaskSwitchContext(v) ELSE z
       /\ call' = [Wrap(call, z.tick < s.tick) EXCEPT ![me] = Resumed(@, ResumeYields)]
  BY <1>2, <1>9, <1>11 DEF xTaskResumeAll, ResumeYields
<1>15. z.tick = w.tick
  BY <1>10 DEF SamePlaces
<1>16. CASE ResumeYields
  <2>1. Tidy(v) /\ TopOK(v) /\ Ready(v) # {}
    BY <1>13 DEF Orderly, Lists, Calls
  <2>2. s' \in Schedulers /\ Switched(v, s')
    BY <1>12, <1>14, <1>16, <2>1, SwitchFacts
  <2>3. Orderly(s', call)
    <3>1. SameLists(v, s') /\ Tidy(s') /\ TopOK(s')
      BY <2>2 DEF Switched
    <3>2. Lists(s')
      BY <3>1, <1>13 DEF Orderly, Lists, SameLists, InTime, EventOK
    <3>3. Apart(s')
      BY <3>1, <1>13 DEF Orderly, Apart, SameLists
    <3>4. Queued(s', call) /\ Calls(s', call)
      BY <3>1, <1>13 DEF Orderly, Queued, Calls, SameLists
    <3> QED BY <3>2, <3>3, <3>4 DEF Orderly
  <2> QED BY <1>1, <1>3, <1>4, <1>6, <1>7, <1>12, <1>14, <1>15, <1>16, <2>2, <2>3, Zenon DEF Resumption
<1>17. CASE ~ResumeYields
  <2>1. s.missedYield = 0
    <3>1. s.missedYield \in {0, 1}
      BY <1>0 DEF Schedulers
    <3> QED BY <3>1, <1>17 DEF ResumeYields
  <2>2. v = z
    BY <2>1, <1>10, <1>11 DEF Schedulers
  <2>3. s' = v
    BY <2>2, <1>14, <1>17
  <2> QED BY <1>1, <1>3, <1>4, <1>6, <1>7, <1>12, <1>13, <1>14, <1>15, <1>17, <2>3, ZenonT(60) DEF Resumption
<1> QED BY <1>16, <1>17

(* Where the call goes on after xTaskResumeAll. *)
GoesOn(c, yielded, r) ==
  /\ r \in Records /\ CallOK(r) /\ r.at \in {"out", "top", "yield"}
  /\ r.at = "out" => r = NoCall /\ (c.after = "out" \/ c.op = "delay")
  /\ r.at # "out" => /\ r.op = c.op /\ r.wait = c.wait
                     /\ c.after # "out" /\ r = [c EXCEPT !.at = r.at, !.after = "out"]
  /\ r.at = "yield" => c.after = "yield" /\ ~yielded
  /\ c.after = "yield" /\ ~yielded => r.at = "yield"
  /\ c.after = "yield" /\ c.op # "delay" => Parked(r)

(* What becomes of the call. *)
LEMMA ResumedFacts ==
  ASSUME NEW c \in Records, CallOK(c), c.at = "resume", NEW yielded \in BOOLEAN,
         NEW r, r = Resumed(c, yielded)
  PROVE  GoesOn(c, yielded, r)
<1>1. CASE c.after = "out" \/ (c.op = "delay" /\ yielded)
  <2>1. r = NoCall
    BY <1>1 DEF Resumed
  <2>2. NoCall \in Records /\ CallOK(NoCall) /\ NoCall.at = "out"
    BY DelayRange DEF NoCall, Records, CallOK, Leaving
  <2> QED BY <1>1, <2>1, <2>2 DEF GoesOn
<1>2. CASE ~(c.after = "out" \/ (c.op = "delay" /\ yielded))
  <2> DEFINE at == IF c.after = "yield" /\ ~yielded THEN "yield" ELSE "top"
  <2>1. r = [c EXCEPT !.at = at, !.after = "out"]
    BY <1>2 DEF Resumed
  <2>2. /\ r \in Records /\ r.at = at /\ r.after = "out" /\ r.op = c.op /\ r.wait = c.wait
    BY <2>1, Zenon DEF Records
  <2>3. c.op # "none" /\ (c.op = "delay" => c.after = "yield")
    BY DEF CallOK
  <2>4. c.op \in {"none", "send", "receive", "delay"}
    BY DEF Records
  <2>5. CallOK(r)
    BY <1>2, <2>2, <2>3, <2>4 DEF CallOK, Leaving, EventLists
  <2> QED BY <1>2, <2>1, <2>2, <2>5 DEF Parked, GoesOn
<1> QED BY <1>1, <1>2

(* xTaskResumeAll keeps Base. *)
LEMMA ResumeBase ==
  ASSUME Typed, Base, xTaskResumeAll PROVE Typed' /\ Base'
<1>0. me \in Tasks /\ call \in [Tasks -> Records] /\ call[me] \in Records /\ s \in Schedulers
  BY MeTyped DEF Typed
<1>1. call[me].at = "resume" /\ s.suspended = 1 /\ q' = q /\ now' = now
  BY ResumeFacts
<1>2. PICK z, w : Resumption(z, w)
  BY ResumeFacts
<1>3. /\ Resuming(z) /\ w \in Schedulers /\ Elapsed(z, s.missedTicks, w)
      /\ s' \in Schedulers /\ Orderly(s', call)
      /\ call' = [Wrap(call, w.tick < s.tick) EXCEPT ![me] = Resumed(@, ResumeYields)]
  BY <1>2 DEF Resumption
<1>4. PICK v \in Schedulers :
           /\ SamePlaces(w, v) /\ v.current = me /\ v.waiting = w.waiting /\ v.pending = <<>>
           /\ v.missedTicks = 0 /\ v.missedYield = 0 /\ v.suspended = 0
           /\ ResumeYields => Switched(v, s')
           /\ ~ResumeYields => s' = v
  BY <1>2 DEF Resumption
<1>5. /\ s'.pending = <<>> /\ s'.missedTicks = 0 /\ s'.missedYield = 0 /\ s'.suspended = 0
      /\ s'.tick = w.tick /\ Ready(s') = Ready(w)
      /\ ResumeYields => s'.current \in Ready(s')
      /\ ~ResumeYields => s'.current = me
  <2>1. CASE ResumeYields
    BY <2>1, <1>4, SamePlacesFacts DEF Switched, SameLists, SamePlaces
  <2>2. CASE ~ResumeYields
    BY <2>2, <1>4, SamePlacesFacts DEF SamePlaces
  <2> QED BY <2>1, <2>2
<1>6. PICK again : again = (w.tick < s.tick) /\ again \in BOOLEAN
  <2>1. w.tick \in 0..portMAX_DELAY /\ s.tick \in 0..portMAX_DELAY
    BY <1>0, <1>3 DEF Schedulers
  <2>2. (w.tick < s.tick) \in BOOLEAN
    BY <2>1
  <2> QED BY <2>2, Zenon
<1>7. PICK calls : calls = Wrap(call, again)
  OBVIOUS
<1>8. calls \in [Tasks -> Records] /\ Alike(call, calls)
  BY <1>0, <1>6, <1>7, WrapFacts, Zenon
<1>9. PICK y, c : y = ResumeYields /\ c = Resumed(calls[me], y)
  OBVIOUS
<1>10. call' = [calls EXCEPT ![me] = c] /\ y \in BOOLEAN
  BY <1>3, <1>6, <1>7, <1>9, <1>8, <1>0 DEF ResumeYields
<1>11. Orderly(s', calls)
  BY <1>3, <1>8, AlikeOrder
<1>12. calls[me] \in Records /\ CallOK(calls[me]) /\ calls[me].at = "resume"
  BY <1>0, <1>1, <1>8, <1>11 DEF Orderly, Calls, Alike
<1>13. /\ c \in Records /\ CallOK(c) /\ c.at \in {"out", "top", "yield"}
       /\ c.at = "out" => c = NoCall /\ (calls[me].after = "out" \/ calls[me].op = "delay")
       /\ c.at # "out" => c.op = calls[me].op /\ calls[me].after # "out"
       /\ c.at = "yield" => calls[me].after = "yield" /\ ~y
       /\ calls[me].after = "yield" /\ ~y => c.at = "yield"
       /\ calls[me].after = "yield" /\ calls[me].op # "delay" => Parked(c)
  <2>1. GoesOn(calls[me], y, c)
    BY <1>9, <1>10, <1>12, ResumedFacts
  <2> QED BY <2>1 DEF GoesOn
<1>14. /\ call'[me] = c /\ (\A u \in Tasks \ {me} : call'[u] = calls[u])
       /\ call' \in [Tasks -> Records]
  BY <1>0, <1>8, <1>10, <1>13
<1>15. me # Idle
  BY <1>1, InCall DEF At
<1>16. Calls(s', call')
  <2>1. call'[Idle] = NoCall
    BY <1>11, <1>14, <1>15 DEF Orderly, Calls, Tasks
  <2> QED BY <2>1, <1>11, <1>13, <1>14 DEF Orderly, Calls
<1>17. Queued(s', call')
  <2>1. s'.waiting \in [EventLists -> Seq(Tasks)] /\ s'.pending \in Seq(Tasks)
    BY <1>3 DEF Schedulers
  <2>2. /\ \A l \in EventLists : ToSet(s'.waiting[l]) \subseteq Tasks
        /\ ToSet(s'.pending) = {}
    <3>1. \A l \in EventLists : ToSet(s'.waiting[l]) \subseteq Tasks
      BY <2>1, InToSet
    <3>2. PICK list : list = s'.pending
      OBVIOUS
    <3>3. list \in Seq(Tasks) /\ list = <<>>
      BY <3>2, <2>1, <1>5
    <3>4. ToSet(list) = {}
      BY <3>3, InToSet, Zenon
    <3> QED BY <3>1, <3>2, <3>4
  <2>3. ASSUME NEW l \in EventLists, me \in ToSet(s'.waiting[l]) PROVE c.op = l /\ Parked(c)
    <3>1. calls[me].op = l /\ Parked(calls[me])
      BY <2>3, <1>11 DEF Orderly, Queued
    <3>2. calls[me].after = "yield" /\ calls[me].op # "delay"
      BY <3>1, <1>12 DEF Parked, Leaving, EventLists
    <3> QED BY <3>1, <3>2, <1>13
  <2> QED BY <2>2, <2>3, <1>11, <1>14 DEF Orderly, Queued
<1>18. \A t \in Tasks : call'[t].at \notin Suspending
  <2>1. \A t \in Tasks \ {me} : call[t].at \notin Suspending
    BY <1>0 DEF Base, Sound, Suspension, me
  <2> QED BY <2>1, <1>8, <1>13, <1>14 DEF Suspending, Alike
<1>19. Suspension(s', call')
  BY <1>5, <1>18 DEF Suspension
<1>20. Lists(s') /\ Apart(s')
  BY <1>3 DEF Orderly
<1>21. Typed'
  <2>1. s'.missedTicks <= MaxMissed
    BY <1>5, QueueAssumption
  <2> QED BY <2>1, <1>1, <1>3, <1>14 DEF Typed
<1>22. Locks'
  <2>1. ~(q.txLock >= 0) /\ ~(q.rxLock >= 0)
    BY <1>1 DEF Base, Locks, TxHeld, RxHeld
  <2>2. me' \in Tasks
    BY <1>3 DEF Schedulers, me
  <2> QED BY <2>1, <2>2, <1>1, <1>18 DEF Locks, TxHeld, RxHeld, Suspending
<1>23. Running'
  <2>1. CASE ResumeYields
    BY <2>1, <1>5 DEF Running, me
  <2>2. CASE ~ResumeYields
    <3>1. me' = me
      BY <2>2, <1>5 DEF me
    <3>2. CASE c.at = "yield"
      BY <3>1, <3>2, <1>14 DEF Running, Parked, At
    <3>3. CASE c.at # "yield"
      <4>1. calls[me].after # "yield"
        BY <2>2, <3>3, <1>9, <1>13
      <4>2. ~Parked(call[me])
        BY <4>1, <1>0, <1>1, <1>8 DEF Alike, Parked, Leaving
      <4>3. me \in Ready(s)
        BY <4>2, MeReady
      <4>4. Ready(s) \subseteq Ready(s')
        BY <1>3, <1>5 DEF Resuming, Elapsed
      <4> QED BY <3>1, <4>3, <4>4 DEF Running
    <3> QED BY <3>2, <3>3
  <2> QED BY <2>1, <2>2
<1>24. TicksNeverSlip'
  <2>1. s.tick \in 0..portMAX_DELAY /\ s.missedTicks \in 0..portMAX_DELAY
    <3>1. s.missedTicks \in Nat /\ s.missedTicks <= MaxMissed /\ MaxMissed \in 0..portMAX_DELAY
          /\ s.tick \in 0..portMAX_DELAY
      BY QueueAssumption DEF Typed, Schedulers
    <3> QED BY <3>1, DelayRange
  <2>2. w.tick = Later(s.tick, s.missedTicks)
    BY <1>3 DEF Resuming, Elapsed
  <2>3. (s.tick + s.missedTicks) % TickModulus = now
    BY DEF Base, TicksNeverSlip
  <2>4. w.tick = now
    BY <2>1, <2>2, <2>3, ModFacts
  <2>5. now \in 0..portMAX_DELAY
    BY DEF Typed
  <2>6. (now + 0) % TickModulus = now
    BY <2>5, DelayRange
  <2> QED BY <2>4, <2>6, <1>1, <1>5 DEF TicksNeverSlip
<1> QED BY <1>16, <1>17, <1>19, <1>20, <1>21, <1>22, <1>23, <1>24 DEF Base, Sound, Orderly

-----------------------------------------------------------------------------
(* The mutex, and the theorems. *)

(* Steps that keep the messages, the holder and what tasks are about.      *)
LEMMA HoldingKept ==
  ASSUME Holding, q'.messages = q.messages, q'.holder = q.holder,
         \A t \in Tasks :
           /\ call'[t].op = "send" => /\ call[t].op = "send"
                                      /\ call[t].at = "top" => call'[t].at = "top"
           /\ call'[t].op = "receive" => call[t].op = "receive"
           /\ call'[t].at = "place" => call[t].at = "place"
  PROVE  Holding'
BY DEF Holding

(* Holding needs no more of a step of the running task that leaves the *)
(* queue alone.                                                        *)
LEMMA HoldingCall ==
  ASSUME Typed, Holding, q'.messages = q.messages, q'.holder = q.holder,
         NEW c, call' = [call EXCEPT ![me] = c],
         c.op \notin EventLists \/ c.op = call[me].op,
         c.op = "send" => call[me].at # "top" \/ c.at = "top",
         c.at = "place" => call[me].at = "place"
  PROVE  Holding'
<1>1. me \in Tasks /\ call \in [Tasks -> Records]
  BY MeTyped
<1>2. call'[me] = c /\ \A t \in Tasks \ {me} : call'[t] = call[t]
  BY <1>1
<1>3. ASSUME NEW t \in Tasks
      PROVE  /\ call'[t].op = "send" => /\ call[t].op = "send"
                                        /\ call[t].at = "top" => call'[t].at = "top"
             /\ call'[t].op = "receive" => call[t].op = "receive"
             /\ call'[t].at = "place" => call[t].at = "place"
  BY <1>2 DEF EventLists
<1> QED BY <1>3, HoldingKept

(* A call that begins keeps Holding: a mutex is only given by its holder, *)
(* and only taken by another task.                                        *)
LEMMA BeginHolding ==
  ASSUME Typed, Holding, NEW op \in EventLists, NEW n \in BlockTimes, Begin(op, n) PROVE Holding'
<1>1. me \in Tasks /\ call \in [Tasks -> Records]
  BY MeTyped
<1>2. /\ q' = q /\ call' = [call EXCEPT ![me] = [NoCall EXCEPT !.at = "top", !.op = op,
                                                   !.wait = n, !.limit = n]]
      /\ IsMutex => IF op = "send" THEN q.holder = me /\ n = 0 ELSE q.holder # me
  BY DEF Begin
<1>3. /\ call'[me].op = op /\ call'[me].at = "top"
      /\ \A t \in Tasks \ {me} : call'[t] = call[t]
  BY <1>1, <1>2 DEF NoCall
<1> QED BY <1>1, <1>2, <1>3 DEF Holding, EventLists

(* In a mutex's queue there is always room for its holder. *)
LEMMA GivingSucceeds ==
  ASSUME Typed, Holding, IsMutex, call[me].op = "send" PROVE Possible("send")
<1>1. me \in Tasks /\ NoTask \notin Tasks /\ QueueLength = 1
  BY MeTyped, QueueAssumption
<1>2. q.holder = me
  BY <1>1 DEF Holding
<1>3. q.messages = 0
  BY <1>1, <1>2 DEF Holding
<1> QED BY <1>1, <1>3 DEF Possible

(* The steps in the middle of a call keep Holding. *)
LEMMA CallHolding ==
  ASSUME Typed, Base, Holding,
         \/ \E n \in Delays : BeginDelay(n)
         \/ vTaskDelay \/ Fail \/ vTaskSuspendAll \/ prvLockQueue
         \/ Place \/ UnlockTx \/ UnlockRx
  PROVE  Holding'
<1>0. me \in Tasks /\ call \in [Tasks -> Records] /\ call[me] \in Records /\ q \in Queues
  BY MeTyped DEF Typed
<1>1. ASSUME NEW n \in Delays, BeginDelay(n) PROVE Holding'
  <2> DEFINE c == [NoCall EXCEPT !.op = "delay", !.wait = n,
                                 !.at = IF n > 0 THEN "delay" ELSE "yield"]
  <2>1. call' = [call EXCEPT ![me] = c] /\ q' = q
    BY <1>1, Zenon DEF BeginDelay
  <2>2. c.op = "delay" /\ c.at # "place"
    BY DEF NoCall
  <2> HIDE DEF c
  <2> QED BY <2>1, <2>2, HoldingCall, Zenon DEF EventLists
<1>2. CASE vTaskDelay
  <2> DEFINE c == [call[me] EXCEPT !.at = "resume", !.after = "yield"]
  <2>1. call' = [call EXCEPT ![me] = c] /\ q' = q /\ call[me].at = "delay"
    BY <1>0, <1>2, Zenon DEF vTaskDelay, At
  <2>2. c.op = call[me].op /\ c.at = "resume"
    BY <1>0 DEF Records
  <2> HIDE DEF c
  <2> QED BY <2>1, <2>2, HoldingCall, Zenon
<1>3. CASE Fail
  <2>1. call' = [call EXCEPT ![me] = NoCall] /\ q' = q
    BY <1>3 DEF Fail, Return
  <2> QED BY <2>1, HoldingCall, Zenon DEF EventLists, NoCall
<1>4. CASE vTaskSuspendAll
  <2> DEFINE c == [call[me] EXCEPT !.at = "lock"]
  <2>1. call' = [call EXCEPT ![me] = c] /\ q' = q /\ call[me].at = "suspend"
    BY <1>0, <1>4 DEF vTaskSuspendAll, Goto, At
  <2>2. c.op = call[me].op /\ c.at = "lock"
    BY <1>0 DEF Records
  <2> HIDE DEF c
  <2> QED BY <2>1, <2>2, HoldingCall, Zenon
<1>5. CASE prvLockQueue
  <2> DEFINE c == [call[me] EXCEPT !.at = "check"]
  <2>1. /\ call' = [call EXCEPT ![me] = c] /\ call[me].at = "lock"
        /\ q'.messages = q.messages /\ q'.holder = q.holder
    BY <1>0, <1>5 DEF prvLockQueue, Goto, At, Queues
  <2>2. c.op = call[me].op /\ c.at = "check"
    BY <1>0 DEF Records
  <2> HIDE DEF c
  <2> QED BY <2>1, <2>2, HoldingCall, Zenon
<1>6. CASE Place
  <2> DEFINE c == [call[me] EXCEPT !.at = "unlockTx", !.after = "yield"]
  <2>1. call' = [call EXCEPT ![me] = c] /\ call[me].at = "place" /\ q' = q
    BY <1>0, <1>6, Zenon DEF Place, At
  <2>2. c.op = call[me].op /\ c.at = "unlockTx"
    BY <1>0 DEF Records
  <2> HIDE DEF c
  <2> QED BY <2>1, <2>2, HoldingCall, Zenon
<1>7. CASE UnlockTx
  <2> DEFINE c == [call[me] EXCEPT !.at = "unlockRx"]
  <2>1. /\ call' = [call EXCEPT ![me] = c] /\ call[me].at = "unlockTx"
        /\ q'.messages = q.messages /\ q'.holder = q.holder
    BY <1>0, <1>7 DEF UnlockTx, Goto, At, Queues
  <2>2. c.op = call[me].op /\ c.at = "unlockRx"
    BY <1>0 DEF Records
  <2> HIDE DEF c
  <2> QED BY <2>1, <2>2, HoldingCall, Zenon
<1>8. CASE UnlockRx
  <2> DEFINE c == [call[me] EXCEPT !.at = "resume"]
  <2>1. /\ call' = [call EXCEPT ![me] = c] /\ call[me].at = "unlockRx"
        /\ q'.messages = q.messages /\ q'.holder = q.holder
    BY <1>0, <1>8 DEF UnlockRx, Goto, At, Queues
  <2>2. c.op = call[me].op /\ c.at = "resume"
    BY <1>0 DEF Records
  <2> HIDE DEF c
  <2> QED BY <2>1, <2>2, HoldingCall, Zenon
<1> QED BY <1>1, <1>2, <1>3, <1>4, <1>5, <1>6, <1>7, <1>8

(* The first look at the clock keeps Holding: giving a mutex never comes *)
(* there.                                                                *)
LEMMA SetTimeOutHolding ==
  ASSUME Typed, Holding, vTaskSetTimeOutState PROVE Holding'
<1>0. me \in Tasks /\ call \in [Tasks -> Records] /\ call[me] \in Records
  BY MeTyped
<1> DEFINE c == [call[me] EXCEPT !.at = "suspend", !.entrySet = 1,
                   !.entering = IF call[me].entrySet = 0 THEN s.tick ELSE @]
<1>1. call' = [call EXCEPT ![me] = c] /\ q' = q /\ ~Possible(call[me].op)
  BY <1>0, Zenon DEF vTaskSetTimeOutState
<1>2. c.op = call[me].op /\ c.at = "suspend"
  BY <1>0 DEF Records
<1> HIDE DEF c
<1>3. CASE IsMutex
  <2>1. c.op # "send"
    BY <1>1, <1>2, <1>3, GivingSucceeds
  <2> QED BY <1>1, <1>2, <2>1, HoldingCall, Zenon
<1>4. CASE ~IsMutex
  BY <1>4 DEF Holding
<1> QED BY <1>3, <1>4

(* xTaskCheckForTimeOut keeps Holding. *)
LEMMA CheckHolding ==
  ASSUME Typed, Holding, xTaskCheckForTimeOut PROVE Holding'
<1>0. me \in Tasks /\ call \in [Tasks -> Records] /\ call[me] \in Records
  BY MeTyped
<1>1. PICK c \in Records : Checked(c)
  BY CheckFacts
<1>2. call' = [call EXCEPT ![me] = c] /\ q' = q /\ call[me].at = "check"
  BY <1>1 DEF Checked, At
<1>3. c.op = call[me].op /\ c.at # "place"
  BY <1>0, <1>1, ZenonT(60) DEF Checked, Records
<1> QED BY <1>2, <1>3, HoldingCall, Zenon

(* A mutex is only waited for while somebody holds it. *)
LEMMA RetestHolding ==
  ASSUME Typed, Base, Holding, Retest PROVE Holding'
<1>0. me \in Tasks /\ call \in [Tasks -> Records] /\ call[me] \in Records
  BY MeTyped
<1>1. q' = q /\ call[me].at = "test"
  BY DEF Retest, At
<1>2. CASE call' = [call EXCEPT ![me].at = "unlockTx", ![me].after = "top"]
  <2> DEFINE c == [call[me] EXCEPT !.at = "unlockTx", !.after = "top"]
  <2>1. call' = [call EXCEPT ![me] = c] /\ c.op = call[me].op /\ c.at = "unlockTx"
    BY <1>0, <1>2, Zenon DEF Records
  <2> HIDE DEF c
  <2> QED BY <1>1, <2>1, HoldingCall, Zenon
<1>3. CASE ~Possible(call[me].op) /\ Goto("place")
  <2>1. /\ call'[me].op = call[me].op /\ call'[me].at = "place"
        /\ \A t \in Tasks \ {me} : call'[t] = call[t]
    BY <1>0, <1>3 DEF Goto, Records
  <2>2. IsMutex => call[me].op # "send"
    BY <1>0, <1>1 DEF Holding
  <2>3. call[me].op \in EventLists
    BY <1>0, <1>1 DEF Base, Sound, Orderly, Calls, CallOK
  <2>4. IsMutex => q.messages = 0
    <3>1. q.messages \in 0..QueueLength /\ QueueLength \in Nat
      BY QueueAssumption DEF Typed, Queues
    <3> QED BY <3>1, <2>2, <2>3, <1>3 DEF Possible, EventLists
  <2> QED BY <1>1, <2>1, <2>2, <2>4 DEF Holding
<1> QED BY <1>2, <1>3 DEF Retest

(* A successful call keeps Holding. *)
LEMMA TransferHolding ==
  ASSUME Typed, Base, Holding, Transfer PROVE Holding'
<1>0. me \in Tasks /\ call \in [Tasks -> Records] /\ call[me] \in Records
  BY MeTyped
<1>1. /\ call[me].at = "top" /\ call[me].op \in EventLists /\ Possible(call[me].op)
      /\ call' = [call EXCEPT ![me] = NoCall]
      /\ q'.messages = IF call[me].op = "send" THEN q.messages + 1 ELSE q.messages - 1
      /\ q'.holder = IF IsMutex /\ call[me].op = "receive" THEN me ELSE NoTask
  BY TransferFacts
<1>2. /\ call'[me].op = "none" /\ call'[me].at = "out"
      /\ \A t \in Tasks \ {me} : call'[t] = call[t]
  BY <1>0, <1>1 DEF NoCall
<1>3. SUFFICES ASSUME IsMutex PROVE Holding'
  BY DEF Holding
<1>4. NoTask \notin Tasks /\ QueueLength = 1 /\ q.messages \in 0..1
  BY <1>3, QueueAssumption DEF Typed, Queues
<1>5. \A t \in Tasks : call'[t].at # "place"
  <2>1. \A t \in Tasks : call[t].at # "place"
    <3>1. s.suspended # 1
      BY <1>0, <1>1 DEF Base, Sound, Suspension, Suspending, me
    <3> QED BY <3>1 DEF Base, Sound, Suspension, Suspending
  <2> QED BY <2>1, <1>2
<1>6. CASE call[me].op = "send"
  <2>1. q'.messages = 1 /\ q'.holder = NoTask
    BY <1>1, <1>4, <1>6 DEF Possible
  <2>2. q.holder = me
    BY <1>0, <1>3, <1>6 DEF Holding
  <2>3. \A t \in Tasks \ {me} : call'[t].op # "send"
    BY <1>2, <1>3, <2>2 DEF Holding
  <2> QED BY <1>2, <1>4, <1>5, <2>1, <2>3 DEF Holding
<1>7. CASE call[me].op = "receive"
  <2>1. q'.messages = 0 /\ q'.holder = me /\ q.messages # 0
    BY <1>1, <1>3, <1>4, <1>7 DEF Possible
  <2>2. q.holder = NoTask
    BY <1>3, <2>1 DEF Holding
  <2>3. \A t \in Tasks : call[t].op # "send"
    BY <1>3, <1>4, <2>2 DEF Holding
  <2> QED BY <1>0, <1>2, <1>4, <1>5, <2>1, <2>3 DEF Holding
<1> QED BY <1>1, <1>6, <1>7 DEF EventLists

(* xTaskResumeAll keeps Holding. *)
LEMMA ResumeHolding ==
  ASSUME Typed, Base, Holding, xTaskResumeAll PROVE Holding'
<1>0. me \in Tasks /\ call \in [Tasks -> Records] /\ call[me] \in Records /\ s \in Schedulers
  BY MeTyped DEF Typed
<1>1. call[me].at = "resume" /\ q' = q
  BY ResumeFacts
<1>2. PICK z, w : Resumption(z, w)
  BY ResumeFacts
<1>3. PICK again : again = (w.tick < s.tick) /\ again \in BOOLEAN
  <2>1. w.tick \in 0..portMAX_DELAY /\ s.tick \in 0..portMAX_DELAY
    BY <1>0, <1>2 DEF Schedulers, Resumption
  <2>2. (w.tick < s.tick) \in BOOLEAN
    BY <2>1
  <2> QED BY <2>2, Zenon
<1>4. PICK calls : calls = Wrap(call, again)
  OBVIOUS
<1>5. calls \in [Tasks -> Records] /\ Alike(call, calls)
  BY <1>0, <1>3, <1>4, WrapFacts, Zenon
<1>6. PICK y, c : y = ResumeYields /\ c = Resumed(calls[me], y)
  OBVIOUS
<1>7. call' = [calls EXCEPT ![me] = c] /\ y \in BOOLEAN
  BY <1>0, <1>2, <1>3, <1>4, <1>5, <1>6 DEF Resumption, ResumeYields
<1>8. calls[me] \in Records /\ CallOK(calls[me]) /\ calls[me].at = "resume"
  BY <1>0, <1>1, <1>5 DEF Base, Sound, Orderly, Calls, Alike, CallOK
<1>9. /\ c.at \in {"out", "top", "yield"}
      /\ c.at = "out" => c = NoCall
      /\ c.at # "out" => c.op = calls[me].op
  <2>1. GoesOn(calls[me], y, c)
    BY <1>6, <1>7, <1>8, ResumedFacts
  <2> QED BY <2>1 DEF GoesOn
<1>10. call'[me] = c /\ \A t \in Tasks \ {me} : call'[t] = calls[t]
  BY <1>0, <1>5, <1>7
<1>11. ASSUME NEW t \in Tasks
       PROVE  /\ call'[t].op = "send" => /\ call[t].op = "send"
                                         /\ call[t].at = "top" => call'[t].at = "top"
              /\ call'[t].op = "receive" => call[t].op = "receive"
              /\ call'[t].at = "place" => call[t].at = "place"
  <2>1. CASE t = me
    <3>1. c.op # "none" => c.op = call[me].op
      BY <1>0, <1>5, <1>9 DEF Alike, NoCall
    <3> QED BY <2>1, <3>1, <1>1, <1>9, <1>10
  <2>2. CASE t # me
    BY <2>2, <1>5, <1>10 DEF Alike
  <2> QED BY <2>1, <2>2
<1> QED BY <1>1, <1>11, HoldingKept

(* portYIELD keeps Holding. *)
LEMMA YieldHolding ==
  ASSUME Typed, Base, Holding, portYIELD PROVE Holding'
<1>0. call[me] \in Records
  BY MeTyped
<1>1. PICK c \in Records : /\ call' = [call EXCEPT ![me] = c] /\ CallOK(c)
                           /\ call[me].at = "yield" /\ call[me].op # "none"
                           /\ \/ call[me].op = "delay" /\ c = NoCall
                              \/ /\ call[me].op # "delay" /\ call[me].op \in EventLists
                                 /\ c = [call[me] EXCEPT !.at = "top"]
  BY YieldFacts
<1>2. c.op \notin EventLists \/ c.op = call[me].op
  BY <1>0, <1>1 DEF NoCall, Records, EventLists
<1>3. c.at # "place"
  BY <1>0, <1>1 DEF NoCall, Records
<1>4. q' = q
  BY DEF portYIELD
<1> QED BY <1>1, <1>2, <1>3, <1>4, HoldingCall, Zenon

(* The tick interrupt keeps Holding. *)
LEMMA TickHolding ==
  ASSUME Typed, Holding, vTickISR PROVE Holding'
<1>1. Alike(call, call') /\ q' = q
  BY TickCalls DEF vTickISR
<1> QED BY <1>1, HoldingKept DEF Alike

Inv == Typed /\ Base /\ Holding

(* The invariant holds when the scheduler starts. *)
LEMMA InitInv == Init => Inv
<1> SUFFICES ASSUME Init PROVE Inv
  OBVIOUS
<1>1. /\ s \in Started /\ s.current = Last(s.ready[s.top])
      /\ q = [messages |-> IF IsMutex THEN 1 ELSE 0, holder |-> NoTask,
              txLock |-> -1, rxLock |-> -1]
      /\ call = [t \in Tasks |-> NoCall] /\ now = 0
  BY DEF Init
<1>2. /\ s \in Schedulers /\ Tidy(s) /\ InTime(s) /\ TopOK(s) /\ EventOK(s)
      /\ Ready(s) = Tasks
      /\ s.pending = <<>> /\ s.waiting = [l \in EventLists |-> <<>>]
      /\ s.tick = 0 /\ s.missedTicks = 0 /\ s.missedYield = 0 /\ s.suspended = 0
  BY <1>1, StartedFacts
<1>3. NoCall \in Records /\ CallOK(NoCall) /\ NoCall.at = "out" /\ NoCall.op = "none"
      /\ ~Parked(NoCall)
  BY DelayRange DEF NoCall, Records, CallOK, Leaving, Parked
<1>4. me \in Tasks /\ \A t \in Tasks : call[t] = NoCall
  BY <1>1, <1>2 DEF me, Schedulers
<1>5. Typed
  <2>1. q \in Queues
    <3>1. (IF IsMutex THEN 1 ELSE 0) \in 0..QueueLength /\ -1 \in -1..MaxLock
      BY QueueAssumption
    <3> QED BY <1>1, <3>1 DEF Queues
  <2>2. s.missedTicks <= MaxMissed /\ now \in 0..portMAX_DELAY
    BY <1>1, <1>2, QueueAssumption, DelayRange
  <2>3. call \in [Tasks -> Records]
    BY <1>1, <1>3
  <2> QED BY <1>2, <2>1, <2>2, <2>3 DEF Typed
<1>6. /\ ToSet(s.pending) = {} /\ IsInjective(s.pending)
      /\ \A l \in EventLists : /\ ToSet(s.waiting[l]) = {} /\ IsInjective(s.waiting[l])
                               /\ Rising(s.waiting[l], s.event)
  <2> DEFINE none == <<>>
  <2>1. none \in Seq(Tasks) /\ DOMAIN none = {}
    OBVIOUS
  <2>2. s.pending = none /\ \A l \in EventLists : s.waiting[l] = none
    BY <1>2
  <2> HIDE DEF none
  <2> QED BY <2>1, <2>2 DEF ToSet, IsInjective, Rising
<1>7. Apart(s)
  <2>1. "send" \in EventLists /\ "receive" \in EventLists
    BY DEF EventLists
  <2> QED BY <1>6, <2>1 DEF Apart
<1>8. Queued(s, call) /\ Calls(s, call)
  BY <1>2, <1>3, <1>4, <1>6 DEF Queued, Calls, Tasks
<1>9. Suspension(s, call)
  BY <1>2, <1>3, <1>4 DEF Suspension, Suspending
<1>10. Locks /\ Running
  BY <1>1, <1>2, <1>3, <1>4 DEF Locks, Running, TxHeld, RxHeld
<1>11. TicksNeverSlip
  <2>1. (0 + 0) % TickModulus = 0
    BY DelayRange
  <2> QED BY <2>1, <1>1, <1>2 DEF TicksNeverSlip
<1>12. Holding
  BY <1>1, <1>3, <1>4 DEF Holding
<1> QED BY <1>2, <1>5, <1>7, <1>8, <1>9, <1>10, <1>11, <1>12 DEF Inv, Base, Sound, Orderly, Lists

(* Every step keeps the invariant. *)
LEMMA NextInv == Inv /\ [Next]_vars => Inv'
<1> SUFFICES ASSUME Inv, [Next]_vars PROVE Inv'
  OBVIOUS
<1>0. Typed /\ Base /\ Holding
  BY DEF Inv
<1>1. ASSUME NEW op \in EventLists, NEW n \in BlockTimes, Begin(op, n) PROVE Inv'
  BY <1>0, <1>1, BeginBase, BeginHolding DEF Inv
<1>2. ASSUME NEW n \in Delays, BeginDelay(n) PROVE Inv'
  BY <1>0, <1>2, BeginDelayBase, CallHolding DEF Inv
<1>3. CASE vTaskDelay
  BY <1>0, <1>3, DelayBase, CallHolding DEF Inv
<1>4. CASE Transfer
  BY <1>0, <1>4, TransferBase, TransferHolding DEF Inv
<1>5. CASE Fail
  BY <1>0, <1>5, FailBase, CallHolding DEF Inv
<1>6. CASE vTaskSetTimeOutState
  BY <1>0, <1>6, SetTimeOutBase, SetTimeOutHolding DEF Inv
<1>7. CASE vTaskSuspendAll
  BY <1>0, <1>7, SuspendAllBase, CallHolding DEF Inv
<1>8. CASE prvLockQueue
  BY <1>0, <1>8, LockBase, CallHolding DEF Inv
<1>9. CASE xTaskCheckForTimeOut
  BY <1>0, <1>9, CheckBase, CheckHolding DEF Inv
<1>10. CASE Retest
  BY <1>0, <1>10, RetestBase, RetestHolding DEF Inv
<1>11. CASE Place
  BY <1>0, <1>11, PlaceBase, CallHolding DEF Inv
<1>12. CASE UnlockTx
  BY <1>0, <1>12, UnlockTxBase, CallHolding DEF Inv
<1>13. CASE UnlockRx
  BY <1>0, <1>13, UnlockRxBase, CallHolding DEF Inv
<1>14. CASE xTaskResumeAll
  BY <1>0, <1>14, ResumeBase, ResumeHolding DEF Inv
<1>15. CASE portYIELD
  BY <1>0, <1>15, YieldBase, YieldHolding DEF Inv
<1>16. CASE vTickISR
  BY <1>0, <1>16, TickISRBase, TickHolding DEF Inv
<1>17. ASSUME NEW op \in EventLists, DeviceISR(op) PROVE Inv'
  <2>1. Typed' /\ Base'
    BY <1>0, <1>17, DeviceBase
  <2>2. Holding'
    BY <1>17 DEF DeviceISR, Holding
  <2> QED BY <2>1, <2>2 DEF Inv
<1>18. CASE UNCHANGED vars
  BY <1>0, <1>18 DEF vars, Inv, Typed, Base, Holding, Locks, TicksNeverSlip, Running, me, At
<1> QED BY <1>1, <1>2, <1>3, <1>4, <1>5, <1>6, <1>7, <1>8, <1>9, <1>10, <1>11, <1>12, <1>13,
           <1>14, <1>15, <1>16, <1>17, <1>18
        DEF Next, xQueueGenericSendFromISR, xQueueReceiveFromISR, EventLists

(* The invariant the properties follow from always holds. *)
THEOREM Invariance == Spec => []Inv
BY InitInv, NextInv, PTL DEF Spec

(* Type correctness, with the queue's count of items between none and its *)
(* length.                                                                *)
THEOREM TypeCorrect == Spec => []TypeOK
<1>1. Inv => TypeOK
  BY DEF Inv, Typed, Schedulers, Queues, TypeOK
<1> QED BY <1>1, Invariance, PTL

(* Every task is always in exactly one of the scheduler's lists, once, *)
(* and a ready one in the list of the priority it has at the moment,   *)
(* whatever priorities it inherits (OneList).                          *)
THEOREM ListsAgree == Spec => []OneList
<1>1. Inv => OneList
  BY DEF Inv, Base, Sound, Orderly, Lists, OneList
<1> QED BY <1>1, Invariance, PTL

(* Both delayed lists are always in order and split at the point where    *)
(* the tick count comes round (DelayedInTime): the comment at the swap of *)
(* the two lists.                                                         *)
THEOREM Punctual == Spec => []DelayedInTime
<1>1. Inv => DelayedInTime
  BY DEF Inv, Base, Sound, Orderly, Lists, DelayedInTime
<1> QED BY <1>1, Invariance, PTL

(* However long the scheduler was suspended, no tick is lost *)
(* (TicksNeverSlip).                                         *)
THEOREM NoTickLost == Spec => []TicksNeverSlip
<1>1. Inv => TicksNeverSlip
  BY DEF Inv, Base
<1> QED BY <1>1, Invariance, PTL

-----------------------------------------------------------------------------
(* The task that runs has the highest priority of the ready ones.          *)

(* No ready task outranks the running one. *)
Topmost(z) == \A t \in Ready(z) : z.prio[t] <= z.prio[z.current]

(* Only a task that yields next, with the scheduler running, may be        *)
(* outranked; without a mutex, whose holder may drop in priority.          *)
Ranks == ~IsMutex /\ (s.suspended = 1 \/ ~At("yield")) => Topmost(s)

(* When the head of an event list is woken, either the running task still *)
(* is topmost or the woken one outranks it and a switch is due.           *)
LEMMA HandedTopmost ==
  ASSUME NEW z \in Schedulers, NEW l \in EventLists, NEW w, Handed(z, l, w)
  PROVE  /\ Topmost(z) => Topmost(w)
         /\ z.suspended = 0 => Topmost(w) \/ w.current = z.current
<1>0. z.prio \in [Tasks -> Priorities] /\ z.current \in Tasks /\ z.suspended \in {0, 1}
      /\ Priorities \subseteq Nat
  BY PriorityRange DEF Schedulers
<1>1. CASE w = z
  BY <1>1
<1>2. ASSUME NEW r \in Schedulers, Removed(z, l, r), HeadOutranks(z, l), Switched(r, w)
      PROVE  /\ Topmost(z) => Topmost(w)
             /\ z.suspended = 0 => Topmost(w) \/ w.current = z.current
  <2>1. CASE z.suspended = 0
    BY <1>2, <2>1 DEF Topmost, Removed, SameState, Switched, SameLists
  <2>2. CASE z.suspended = 1
    BY <1>2, <2>2 DEF Topmost, Removed, SameState, Switched, SameLists
  <2> QED BY <1>0, <2>1, <2>2
<1>3. ASSUME Removed(z, l, w), ~HeadOutranks(z, l)
      PROVE  /\ Topmost(z) => Topmost(w)
             /\ z.suspended = 0 => Topmost(w) \/ w.current = z.current
  <2>1. w.current = z.current /\ w.prio = z.prio
    BY <1>3 DEF Removed, SameState
  <2>2. Head(z.waiting[l]) \in Tasks
    BY <1>3 DEF Removed
  <2>3. z.prio[Head(z.waiting[l])] <= z.prio[z.current]
    <3>1. z.prio[Head(z.waiting[l])] \in Nat /\ z.prio[z.current] \in Nat
      BY <1>0, <2>2, Zenon
    <3> QED BY <1>3, <3>1 DEF HeadOutranks
  <2>4. Ready(w) \subseteq Ready(z) \cup {Head(z.waiting[l])}
    BY <1>0, <1>3 DEF Removed
  <2> QED BY <2>1, <2>3, <2>4 DEF Topmost
<1> QED BY <1>1, <1>2, <1>3 DEF Handed

(* After a switch the running task is topmost. *)
LEMMA SwitchedTopmost ==
  ASSUME NEW z, NEW r, Switched(z, r), z.suspended = 0
  PROVE  Topmost(r)
BY DEF Switched, SameLists, Topmost

(* A step that changes nothing but the call of the running task and the *)
(* queue.                                                               *)
LEMMA CallRanks ==
  ASSUME Typed, Base, Ranks,
         \/ s' = s
         \/ s' \in Schedulers /\ Suspended(s, s')
         \/ \E l \in EventLists, k \in Nat : WokenFirst(l, k, s'),
         s.suspended = 1 \/ ~At("yield")
  PROVE  Ranks'
<1>1. ~IsMutex => Topmost(s)
  BY DEF Ranks
<1>2. Ready(s') = Ready(s) /\ s'.prio = s.prio /\ s'.current = s.current
  BY SamePlacesFacts, Zenon DEF Suspended, WokenFirst, SamePlaces
<1> QED BY <1>1, <1>2 DEF Ranks, Topmost

(* A successful call keeps Ranks: it yields at once when the task it woke *)
(* outranks its own.                                                      *)
LEMMA TransferRanks ==
  ASSUME Typed, Base, Holding, Ranks, Transfer PROVE Ranks'
<1>1. PICK z : Transferred(z)
  BY TransferFacts
<1>2. call[me].at = "top" /\ call[me].op \in EventLists
  BY TransferFacts
<1> SUFFICES ASSUME ~IsMutex PROVE Topmost(s')
  BY DEF Ranks
<1>3. Topmost(s)
  BY <1>2 DEF Ranks, At
<1>4. s \in Schedulers /\ Handed(s, Other(call[me].op), s') /\ Other(call[me].op) \in EventLists
  BY <1>1 DEF Transferred, Typed, Other, EventLists
<1> QED BY <1>3, <1>4, HandedTopmost

(* A task that goes to sleep with the scheduler suspended owes nobody the *)
(* processor yet.                                                         *)
LEMMA DelayRanks ==
  ASSUME Typed, Base, Ranks, vTaskDelay PROVE Ranks'
<1>0. me \in Tasks /\ call[me] \in Records /\ s \in Schedulers
  BY MeTyped DEF Typed
<1>1. At("delay") /\ s' = Delay(s, call[me].wait) /\ call[me].wait \in 0..portMAX_DELAY
  BY <1>0 DEF vTaskDelay, Records
<1>2. Delayed(s, call[me].wait, s')
  BY <1>0, <1>1, DelayFacts
<1>3. ~IsMutex => Topmost(s)
  BY <1>1 DEF Ranks, At
<1> QED BY <1>2, <1>3 DEF Ranks, Topmost, Delayed, SameRest

(* So does a task that goes to sleep on an event list. *)
LEMMA PlaceRanks ==
  ASSUME Typed, Base, Holding, Ranks, Place PROVE Ranks'
<1>1. PICK z : PlacedAfter(z)
  BY PlaceStep
<1> SUFFICES ASSUME ~IsMutex PROVE Topmost(s')
  BY DEF Ranks
<1>2. Topmost(s) /\ Placed(s, call[me].op, call[me].wait, s')
  BY <1>1, PlaceStep DEF Ranks, At, PlacedAfter
<1> QED BY <1>2 DEF Topmost, Placed, SameState

(* xTaskResumeAll keeps Ranks: it yields when a pending task outranks its *)
(* own, or a tick was missed.                                             *)
LEMMA ResumeRanks ==
  ASSUME Typed, Base, Ranks, xTaskResumeAll PROVE Ranks'
<1> SUFFICES ASSUME ~IsMutex PROVE Topmost(s')
  BY DEF Ranks
<1>0. s \in Schedulers /\ s.prio \in [Tasks -> Priorities] /\ Priorities \subseteq Nat /\ me \in Tasks
      /\ s.missedTicks \in Nat
  BY MeTyped, PriorityRange, Zenon DEF Typed, Schedulers
<1>1. s.suspended = 1 /\ Topmost(s)
  BY ResumeFacts DEF Ranks
<1>2. PICK z, w : Resumption(z, w)
  BY ResumeFacts
<1>3. Resuming(z) /\ Elapsed(z, s.missedTicks, w)
  BY <1>2 DEF Resumption
<1>4. PICK v \in Schedulers :
           /\ SamePlaces(w, v) /\ v.current = me /\ v.suspended = 0
           /\ ResumeYields => Switched(v, s')
           /\ ~ResumeYields => s' = v
  BY <1>2 DEF Resumption
<1>5. CASE ResumeYields
  BY <1>4, <1>5, SwitchedTopmost
<1>6. CASE ~ResumeYields
  <2>1. s.missedTicks = 0 /\ \A t \in ToSet(s.pending) : ~(s.prio[t] >= s.prio[me])
    BY <1>0, <1>6 DEF ResumeYields
  <2>2. \A t \in Ready(z) : s.prio[t] <= s.prio[me]
    <3>1. ToSet(s.pending) \subseteq Tasks
      BY InToSet, MeTyped
    <3>2. ASSUME NEW t \in ToSet(s.pending) PROVE s.prio[t] <= s.prio[me]
      <4>1. s.prio[t] \in Nat /\ s.prio[me] \in Nat
        BY <1>0, <3>1, <3>2, Zenon
      <4>2. ~(s.prio[t] >= s.prio[me])
        BY <2>1, <3>2
      <4> QED BY <4>1, <4>2
    <3> QED BY <1>1, <1>3, <3>2 DEF Resuming, Topmost, me
  <2>3. Ready(w) = Ready(z)
    <3>1. z \in Schedulers /\ Tidy(z) /\ InTime(z)
      BY <1>3 DEF Resuming, Orderly, Lists
    <3>2. {t \in Asleep(z) : Left(z, t) <= 0} = {}
      BY <3>1, LeftFacts
    <3> QED BY <2>1, <3>2, <1>3 DEF Elapsed
  <2>4. Ready(s') = Ready(w) /\ s'.prio = s.prio /\ s'.current = me
    BY <1>3, <1>4, <1>6, SamePlacesFacts DEF Resuming, Elapsed, SameState, SamePlaces
  <2> QED BY <2>2, <2>3, <2>4 DEF Topmost
<1> QED BY <1>5, <1>6

(* portYIELD keeps Ranks. *)
LEMMA YieldRanks ==
  ASSUME Typed, Base, Ranks, portYIELD PROVE Ranks'
BY YieldFacts, SwitchedTopmost DEF Ranks

(* The tick interrupt keeps Ranks, as it switches after each tick. *)
LEMMA TickRanks ==
  ASSUME Typed, Base, Ranks, vTickISR PROVE Ranks'
<1>1. PICK z : z = vTaskIncrementTick(s)
  OBVIOUS
<1>2. /\ z \in Schedulers /\ Sound(z, call) /\ z.suspended = s.suspended
      /\ z.current = s.current
      /\ s.suspended = 1 => SamePlaces(s, z)
  BY <1>1, TickSound
<1>3. Switched(z, s')
  <2>1. s' = vTaskSwitchContext(z)
    BY <1>1 DEF vTickISR
  <2> QED BY <1>2, <2>1, SwitchSound
<1>4. CASE s.suspended = 1
  <2>1. Ready(s') = Ready(s) /\ s'.prio = s.prio /\ s'.current = s.current
    BY <1>2, <1>3, <1>4, SamePlacesFacts DEF Switched, SameLists, SamePlaces
  <2> QED BY <1>4, <2>1 DEF Ranks, Topmost
<1>5. CASE s.suspended # 1
  <2>1. z.suspended = 0
    BY <1>2, <1>5, MeTyped
  <2> QED BY <1>3, <2>1, SwitchedTopmost DEF Ranks
<1> QED BY <1>4, <1>5

(* A device's handler keeps Ranks: it yields when the task it woke *)
(* outranks the running one.                                       *)
LEMMA DeviceRanks ==
  ASSUME Typed, Base, Ranks, NEW op \in EventLists, DeviceISR(op) PROVE Ranks'
<1>1. Interrupted(op)
  BY DeviceFacts
<1>2. call' = call /\ s \in Schedulers /\ s.suspended \in {0, 1} /\ Other(op) \in EventLists
  BY <1>1, MeTyped DEF Interrupted, Typed, Other, EventLists
<1>3. CASE s' = s
  BY <1>2, <1>3 DEF Ranks, At, me
<1>4. CASE Handed(s, Other(op), s')
  <2>1. CASE s.suspended = 1 \/ ~At("yield")
    BY <1>2, <1>4, <2>1, HandedTopmost DEF Ranks
  <2>2. CASE s.suspended = 0 /\ At("yield")
    <3>1. s'.suspended = 0
      <4>1. Passed(s, Other(op), s')
        BY <1>2, <1>4, HandedFacts
      <4> QED BY <2>2, <4>1 DEF Passed
    <3>2. Topmost(s') \/ s'.current = s.current
      BY <1>2, <1>4, <2>2, HandedTopmost
    <3> QED BY <1>2, <2>2, <3>1, <3>2 DEF Ranks, At, me
  <2> QED BY <1>2, <2>1, <2>2
<1> QED BY <1>1, <1>3, <1>4 DEF Interrupted

(* Every step keeps Ranks. *)
LEMMA NextRanks == Inv /\ Ranks /\ [Next]_vars => Ranks'
<1> SUFFICES ASSUME Inv, Ranks, [Next]_vars PROVE Ranks'
  OBVIOUS
<1>0. Typed /\ Base /\ Holding /\ s \in Schedulers
  BY DEF Inv, Typed
<1>1. ASSUME NEW op \in EventLists, NEW n \in BlockTimes, Begin(op, n) PROVE Ranks'
  BY <1>0, <1>1, CallRanks DEF Begin, At
<1>2. ASSUME NEW n \in Delays, BeginDelay(n) PROVE Ranks'
  <2>1. At("out") /\ (s' = s \/ s' = [s EXCEPT !.suspended = 1])
    BY <1>2 DEF BeginDelay
  <2>2. s' = s \/ (s' \in Schedulers /\ Suspended(s, s'))
    BY <1>0, <2>1, SuspendFacts
  <2> QED BY <1>0, <2>1, <2>2, CallRanks DEF At
<1>3. CASE vTaskDelay
  BY <1>0, <1>3, DelayRanks
<1>4. CASE Transfer
  BY <1>0, <1>4, TransferRanks
<1>5. CASE Fail \/ vTaskSetTimeOutState
  BY <1>0, <1>5, CallRanks DEF Fail, vTaskSetTimeOutState, At
<1>6. CASE vTaskSuspendAll
  <2>1. s' \in Schedulers /\ Suspended(s, s')
    BY <1>0, <1>6, SuspendFacts DEF vTaskSuspendAll
  <2> QED BY <1>0, <1>6, <2>1, CallRanks DEF vTaskSuspendAll, At
<1>7. CASE prvLockQueue \/ xTaskCheckForTimeOut \/ Retest
  BY <1>0, <1>7, CallRanks DEF prvLockQueue, xTaskCheckForTimeOut, Retest, At
<1>8. CASE Place
  BY <1>0, <1>8, PlaceRanks
<1>9. CASE UnlockTx
  <2>1. At("unlockTx") /\ q.txLock \in Nat /\ s' = WakeCounted("receive", q.txLock)
    BY <1>0, <1>9, QueueAssumption DEF UnlockTx, Typed, Queues, Base, Locks, TxHeld, At
  <2>2. \E k \in Nat : WokenFirst("receive", k, s')
    BY <1>0, <2>1, WakeCountedFacts, SMTT(30) DEF EventLists
  <2> QED BY <1>0, <2>1, <2>2, CallRanks DEF EventLists, At
<1>10. CASE UnlockRx
  <2>1. At("unlockRx") /\ q.rxLock \in Nat /\ s' = WakeCounted("send", q.rxLock)
    BY <1>0, <1>10, QueueAssumption DEF UnlockRx, Typed, Queues, Base, Locks, RxHeld, At
  <2>2. \E k \in Nat : WokenFirst("send", k, s')
    BY <1>0, <2>1, WakeCountedFacts DEF EventLists
  <2> QED BY <1>0, <2>1, <2>2, CallRanks DEF EventLists, At
<1>11. CASE xTaskResumeAll
  BY <1>0, <1>11, ResumeRanks
<1>12. CASE portYIELD
  BY <1>0, <1>12, YieldRanks
<1>13. CASE vTickISR
  BY <1>0, <1>13, TickRanks
<1>14. ASSUME NEW op \in EventLists, DeviceISR(op) PROVE Ranks'
  BY <1>0, <1>14, DeviceRanks
<1>15. CASE UNCHANGED vars
  BY <1>15 DEF vars, Ranks, Topmost, At, me
<1> QED BY <1>1, <1>2, <1>3, <1>4, <1>5, <1>6, <1>7, <1>8, <1>9, <1>10, <1>11, <1>12, <1>13,
           <1>14, <1>15
        DEF Next, xQueueGenericSendFromISR, xQueueReceiveFromISR, EventLists

(* Of a queue that is not a mutex: whenever the scheduler is not          *)
(* suspended and no switch is due, no ready task outranks the running one *)
(* (HighestPriorityRuns), though wake-ups come from calls, ticks and      *)
(* handlers.                                                              *)
THEOREM HighestRuns == Spec => [](~IsMutex => HighestPriorityRuns)
<1>1. Init => Ranks
  <2> SUFFICES ASSUME Init PROVE Topmost(s)
    BY DEF Ranks
  <2> QED BY StartedFacts DEF Init, Topmost
<1>2. Inv /\ Ranks => (~IsMutex => HighestPriorityRuns)
  <2> SUFFICES ASSUME Inv, Ranks, ~IsMutex, s.suspended = 0, ~At("yield")
               PROVE  /\ me \in ToSet(s.ready[s.prio[me]])
                      /\ \A t \in Ready(s) : s.prio[t] <= s.prio[me]
    BY DEF HighestPriorityRuns
  <2>1. Typed /\ Base /\ Topmost(s)
    BY DEF Inv, Ranks
  <2>2. call[me].at \notin Leaving
    BY <2>1, MeTyped DEF Base, Sound, Suspension, Suspending, Leaving, me
  <2>3. me \in Ready(s)
    BY <2>1, <2>2, MeReady DEF Parked, At
  <2>4. PICK p \in Priorities : me \in ToSet(s.ready[p])
    BY <2>3, InReady
  <2>5. s.prio[me] = p
    BY <2>1, <2>4 DEF Base, Sound, Orderly, Lists, Tidy
  <2> QED BY <2>1, <2>4, <2>5 DEF Topmost, me
<1> QED BY <1>1, <1>2, NextRanks, Invariance, PTL DEF Spec

-----------------------------------------------------------------------------
(* Nobody who waits for the mutex outranks its holder.                     *)

(* No receiver that waits outranks the task h. *)
Leads(z, h) == \A t \in ToSet(z.waiting["receive"]) : z.prio[t] <= z.prio[h]

(* A task that was woken for the mutex and has not looked yet. *)
Claims(z, calls, t) ==
  t \in Ready(z) /\ calls[t].op = "receive" /\ calls[t].at \in {"top", "yield"}

(* A holder ranks as high as those that wait, the others have their own    *)
(* priority; and while the mutex is free and tasks wait for it, one that   *)
(* was woken is to take it and nobody of a lower rank can be first.        *)
MutexOK ==
  /\ \A t \in Tasks \ {q.holder} : s.prio[t] = uxBasePriority[t]
  /\ q.holder # NoTask => Leads(s, q.holder)
  /\ q.holder = NoTask /\ s.waiting["receive"] # <<>> =>
       /\ \E w \in Tasks : Claims(s, call, w) /\ Leads(s, w)
       /\ s.suspended = 1 \/ ~At("yield") => Leads(s, me)

Mutex == IsMutex => MutexOK

(* The mutex stays with its holder, or free. *)
LEMMA MutexKept ==
  ASSUME Typed, s' \in Schedulers, MutexOK, q'.holder = q.holder, s'.prio = s.prio,
         ToSet(s'.waiting["receive"]) \subseteq ToSet(s.waiting["receive"]),
         q.holder = NoTask => \A t \in Tasks : Claims(s, call, t) => Claims(s', call', t),
         \/ Topmost(s')
         \/ me' = me /\ (s.suspended = 1 \/ ~At("yield"))
         \/ s'.suspended = 0 /\ At("yield")'
  PROVE  MutexOK'
<1>1. /\ s.waiting \in [EventLists -> Seq(Tasks)] /\ s'.waiting \in [EventLists -> Seq(Tasks)]
      /\ s.prio \in [Tasks -> Priorities] /\ me \in Tasks /\ me' \in Tasks
      /\ "receive" \in EventLists /\ Priorities \subseteq Nat
  BY PriorityRange DEF Typed, Schedulers, EventLists, me
<1>2. s'.waiting["receive"] # <<>> => s.waiting["receive"] # <<>>
  <2> DEFINE a == s.waiting["receive"]
             b == s'.waiting["receive"]
  <2>1. a \in Seq(Tasks) /\ b \in Seq(Tasks) /\ ToSet(b) \subseteq ToSet(a)
    BY <1>1
  <2> HIDE DEF a, b
  <2>2. (ToSet(a) = {} <=> a = <<>>) /\ (ToSet(b) = {} <=> b = <<>>)
    BY <2>1, InToSet
  <2>3. b # <<>> => a # <<>>
    BY <2>1, <2>2
  <2> QED BY <2>3 DEF a, b
<1>3. \A t \in Tasks : Leads(s, t) => Leads(s', t)
  BY DEF Leads
<1>4. ASSUME q.holder = NoTask, s'.waiting["receive"] # <<>>
      PROVE  /\ \E w \in Tasks : Claims(s', call', w) /\ Leads(s', w)
             /\ s'.suspended = 1 \/ ~At("yield")' => Leads(s', me')
  <2>1. PICK w \in Tasks : Claims(s, call, w) /\ Leads(s, w)
    BY <1>2, <1>4 DEF MutexOK
  <2>2. Claims(s', call', w) /\ Leads(s', w)
    BY <1>3, <1>4, <2>1
  <2>3. CASE Topmost(s')
    <3>1. s'.prio[w] <= s'.prio[me']
      BY <2>2, <2>3 DEF Topmost, Claims, me
    <3>2. ASSUME NEW t \in ToSet(s'.waiting["receive"]) PROVE s'.prio[t] <= s'.prio[me']
      <4>1. t \in Tasks
        BY <1>1, <3>2, InToSet
      <4>2. s'.prio[t] <= s'.prio[w]
        BY <2>2, <3>2 DEF Leads
      <4>3. s'.prio[t] \in Nat /\ s'.prio[w] \in Nat /\ s'.prio[me'] \in Nat
        BY <1>1, <4>1, Zenon
      <4> QED BY <3>1, <4>2, <4>3
    <3> QED BY <2>2, <3>2 DEF Leads
  <2>4. CASE me' = me /\ (s.suspended = 1 \/ ~At("yield"))
    BY <1>1, <1>2, <1>3, <1>4, <2>2, <2>4 DEF MutexOK
  <2>5. CASE s'.suspended = 0 /\ At("yield")'
    BY <2>2, <2>5
  <2> QED BY <2>3, <2>4, <2>5
<1>5. q.holder # NoTask => q.holder \in Tasks
  BY DEF Typed, Queues
<1> QED BY <1>3, <1>4, <1>5 DEF MutexOK

(* A step in which only the running task's call changes. *)
LEMMA CallMutex ==
  ASSUME Typed, s' \in Schedulers, MutexOK, q'.holder = q.holder, s'.prio = s.prio, me' = me,
         ToSet(s'.waiting["receive"]) \subseteq ToSet(s.waiting["receive"]),
         Ready(s) \ {me} \subseteq Ready(s'),
         \A t \in Tasks \ {me} : call'[t] = call[t],
         ~At("yield"), q.holder = NoTask => ~At("top")
  PROVE  MutexOK'
<1>1. q.holder = NoTask => \A t \in Tasks : Claims(s, call, t) => Claims(s', call', t)
  BY DEF Claims, At
<1> QED BY <1>1, MutexKept

(* A step of the running task that leaves priorities, lists and mutex *)
(* alone, and does not put its call on the event list.                *)
LEMMA OneCallMutex ==
  ASSUME Typed, Base, Holding, IsMutex, MutexOK, Typed', q'.holder = q.holder,
         \/ s' = s
         \/ Suspended(s, s')
         \/ Delayed(s, call[me].wait, s')
         \/ \E l \in EventLists, k \in Nat : WokenFirst(l, k, s') /\ k <= Len(s.waiting[l]),
         \E c : call' = [call EXCEPT ![me] = c],
         ~At("yield"), q.holder = NoTask => ~At("top")
  PROVE  MutexOK'
<1>0. /\ s \in Schedulers /\ s' \in Schedulers /\ me \in Tasks /\ call \in [Tasks -> Records]
      /\ s.waiting \in [EventLists -> Seq(Tasks)]
  BY MeTyped DEF Typed
<1>1. \A t \in Tasks \ {me} : call'[t] = call[t]
  BY <1>0
<1>2. CASE s' = s \/ Suspended(s, s')
  <2>1. s'.prio = s.prio /\ me' = me /\ s'.waiting = s.waiting /\ Ready(s') = Ready(s)
    BY <1>2, SamePlacesFacts DEF Suspended, SamePlaces, me
  <2> QED BY <1>0, <1>1, <2>1, CallMutex
<1>3. CASE Delayed(s, call[me].wait, s')
  <2>1. s'.prio = s.prio /\ me' = me /\ s'.waiting = s.waiting /\ Ready(s') = Ready(s) \ {me}
    BY <1>3 DEF Delayed, SameRest, me
  <2> QED BY <1>0, <1>1, <2>1, CallMutex
<1>4. ASSUME NEW l \in EventLists, NEW k \in Nat, WokenFirst(l, k, s'), k <= Len(s.waiting[l])
      PROVE  MutexOK'
  <2>1. s'.prio = s.prio /\ me' = me /\ Ready(s') = Ready(s)
        /\ s'.waiting = [s.waiting EXCEPT ![l] = SubSeq(@, k + 1, Len(@))]
    BY <1>4, SamePlacesFacts DEF WokenFirst, SamePlaces, me
  <2>2. s.waiting[l] \in Seq(Tasks) /\ k \in 0..Len(s.waiting[l])
    BY <1>0, <1>4
  <2>3. ToSet(SubSeq(s.waiting[l], k + 1, Len(s.waiting[l]))) \subseteq ToSet(s.waiting[l])
    BY <2>2, SplitFacts
  <2>4. ToSet(s'.waiting["receive"]) \subseteq ToSet(s.waiting["receive"])
    BY <1>0, <2>1, <2>3 DEF EventLists
  <2> QED BY <1>0, <1>1, <2>1, <2>4, CallMutex, SMTT(30)
<1> QED BY <1>2, <1>3, <1>4

(* Going on the event list keeps Mutex: vTaskPriorityInherit has lifted *)
(* the holder first.                                                    *)
LEMMA PlaceMutex ==
  ASSUME Typed, Base, Holding, IsMutex, MutexOK, Place, Typed' PROVE MutexOK'
<1>0. /\ s \in Schedulers /\ me \in Tasks /\ s.prio \in [Tasks -> Priorities] /\ Priorities \subseteq Nat
      /\ s.waiting \in [EventLists -> Seq(Tasks)]
  BY MeTyped, PriorityRange DEF Typed
<1>1. q' = q /\ call[me].op \in EventLists /\ call[me].at = "place"
  BY PlaceStep
<1>2. PICK z : PlacedAfter(z)
  BY PlaceStep
<1>3. PICK p : p = IF s.prio[q.holder] >= s.prio[me] THEN s.prio[q.holder] ELSE s.prio[me]
  OBVIOUS
<1>4. /\ q.holder \in Tasks \ {me} /\ call[me].op = "receive" /\ q.messages = 0
      /\ Reprioritised(s, q.holder, p, z) /\ z \in Schedulers /\ z.current = me
      /\ Placed(z, call[me].op, call[me].wait, s')
  BY <1>2, <1>3 DEF PlacedAfter
<1>5. /\ s'.prio = [s.prio EXCEPT ![q.holder] = p]
      /\ s'.waiting = [s.waiting EXCEPT !["receive"] = vListInsert(@, z.event, me)]
  BY <1>4 DEF Reprioritised, Placed, SameState
<1>6. ToSet(s'.waiting["receive"]) = ToSet(s.waiting["receive"]) \cup {me}
  <2>1. s.waiting["receive"] \in Seq(Tasks) /\ "receive" \in EventLists
    BY <1>0 DEF EventLists
  <2>2. \A x \in Tasks : z.event[x] \in Int
    <3>1. z.event \in [Tasks -> 0..configMAX_PRIORITIES]
      BY <1>4 DEF Schedulers
    <3> QED BY <3>1 DEF configMAX_PRIORITIES
  <2>3. ToSet(vListInsert(s.waiting["receive"], z.event, me)) = ToSet(s.waiting["receive"]) \cup {me}
    BY <1>0, <2>1, <2>2, InsertFacts
  <2> QED BY <1>0, <1>5, <2>1, <2>3
<1>7. p \in Nat /\ p >= s.prio[q.holder] /\ p >= s.prio[me] /\ q.holder # NoTask
  <2>1. s.prio[q.holder] \in Nat /\ s.prio[me] \in Nat
    BY <1>0, <1>4, Zenon
  <2>2. q.holder # NoTask
    BY <1>4, QueueAssumption
  <2> QED BY <2>1, <2>2, <1>3
<1>8. ASSUME NEW t \in ToSet(s'.waiting["receive"]) PROVE s'.prio[t] <= s'.prio[q.holder]
  <2>1. t \in Tasks
    <3>1. ToSet(s.waiting["receive"]) \subseteq Tasks
      BY <1>0, InToSet DEF EventLists
    <3> QED BY <1>0, <1>6, <1>8, <3>1
  <2>2. t \in ToSet(s.waiting["receive"]) => s.prio[t] <= s.prio[q.holder]
    BY <1>7 DEF MutexOK, Leads
  <2>3. s'.prio[q.holder] = p /\ s'.prio[t] = IF t = q.holder THEN p ELSE s.prio[t]
    BY <1>0, <1>4, <1>5, <2>1
  <2>4. s.prio[t] \in Nat /\ s.prio[q.holder] \in Nat /\ s.prio[me] \in Nat
    BY <1>0, <1>4, <2>1, Zenon
  <2> QED BY <1>6, <1>7, <1>8, <2>2, <2>3, <2>4
<1>9. \A t \in Tasks \ {q.holder} : s'.prio[t] = uxBasePriority[t]
  BY <1>0, <1>5 DEF MutexOK
<1> QED BY <1>1, <1>7, <1>8, <1>9 DEF MutexOK, Leads

(* The mutex taken or given.                                               *)
LEMMA TransferMutex ==
  ASSUME Typed, Base, Holding, IsMutex, MutexOK, Transfer, Typed' PROVE MutexOK'
<1> DEFINE op == call[me].op
<1>0. /\ s \in Schedulers /\ s' \in Schedulers /\ me \in Tasks /\ me' \in Tasks
      /\ s.prio \in [Tasks -> Priorities] /\ Priorities \subseteq Nat
      /\ s.waiting \in [EventLists -> Seq(Tasks)] /\ call \in [Tasks -> Records]
      /\ {"send", "receive"} = EventLists /\ me # NoTask
  BY MeTyped, PriorityRange, QueueAssumption, Zenon DEF Typed, EventLists, Schedulers, me
<1>1. /\ call[me].at = "top" /\ op \in EventLists /\ s.suspended = 0
      /\ Possible(op) /\ call' = [call EXCEPT ![me] = NoCall]
      /\ q'.holder = IF op = "receive" THEN me ELSE NoTask
  BY TransferFacts
<1>2. PICK z : Transferred(z)
  BY TransferFacts
<1>3. /\ z \in Schedulers /\ Sound(z, call) /\ Handed(z, Other(op), s') /\ Other(op) \in EventLists
      /\ Passed(z, Other(op), s')
  BY <1>2, <1>0 DEF Transferred, Other
<1>4. CASE op = "receive"
  <2>1. z = s /\ q.holder = NoTask /\ q'.holder = me
    BY <1>1, <1>2, <1>4 DEF Transferred, Possible, Holding, Typed, Queues
  <2>2. Leads(s, me)
    <3>1. CASE s.waiting["receive"] # <<>>
      BY <1>1, <2>1, <3>1 DEF MutexOK, At
    <3>2. CASE s.waiting["receive"] = <<>>
      <4>1. s.waiting["receive"] \in Seq(Tasks)
        BY <1>0
      <4>2. ToSet(s.waiting["receive"]) = {}
        BY <3>2, <4>1, InToSet, Zenon
      <4> QED BY <4>2 DEF Leads
    <3> QED BY <3>1, <3>2
  <2>3. s'.prio = s.prio
    BY <2>1, <1>3 DEF Passed
  <2>4. s'.waiting["receive"] = s.waiting["receive"]
    BY <1>0, <1>3, <1>4, <2>1 DEF Passed, Other
  <2>5. \A t \in Tasks \ {me} : s'.prio[t] = uxBasePriority[t]
    <3>1. \A t \in Tasks : t # NoTask
      BY QueueAssumption
    <3> QED BY <2>1, <2>3, <3>1 DEF MutexOK
  <2> QED BY <1>0, <2>1, <2>2, <2>3, <2>4, <2>5 DEF MutexOK, Leads
<1>5. CASE op = "send"
  <2> DEFINE l == "receive"
             list == s.waiting["receive"]
  <2>1. /\ q.holder = me /\ me \in Ready(s) /\ Reprioritised(s, me, uxBasePriority[me], z)
        /\ q'.holder = NoTask /\ Other(op) = l
    BY <1>1, <1>2, <1>5 DEF Transferred, Other
  <2>2. z.prio = [s.prio EXCEPT ![me] = uxBasePriority[me]] /\ s'.prio = z.prio
        /\ z.waiting = s.waiting /\ z.suspended = 0 /\ z.current = me
    BY <1>1, <1>3, <2>1 DEF Reprioritised, Passed, me
  <2>3. \A t \in Tasks : s'.prio[t] = uxBasePriority[t]
    BY <1>0, <2>1, <2>2 DEF MutexOK
  <2>4. list \in Seq(Tasks)
    BY <1>0
  <2>5. CASE list = <<>>
    <3>1. s'.waiting["receive"] = <<>>
      BY <1>3, <2>1, <2>2, <2>5 DEF Passed
    <3> QED BY <2>1, <2>3, <3>1 DEF MutexOK
  <2>6. CASE list # <<>>
    <3> DEFINE w == Head(list)
    <3>1. /\ w \in Tasks /\ w \in ToSet(list) /\ Tail(list) \in Seq(Tasks)
          /\ ToSet(Tail(list)) \subseteq ToSet(list)
      BY <2>4, <2>6, TailFacts
    <3>2. s'.waiting["receive"] = Tail(list)
      BY <1>0, <1>3, <2>1, <2>2, <2>6 DEF Passed
    <3>3. ASSUME NEW t \in ToSet(Tail(list)) PROVE t \in Tasks /\ s'.prio[t] <= s'.prio[w]
      <4>1. Rising(list, z.event)
        BY <1>0, <1>3, <2>2 DEF Sound, Orderly, Apart
      <4>2. z.event[w] <= z.event[t]
        BY <2>4, <2>6, <3>3, <4>1, TailFacts
      <4>3. t \in Tasks
        BY <2>4, <3>1, <3>3, InToSet
      <4>4. /\ z.event[w] = configMAX_PRIORITIES - z.prio[w]
            /\ z.event[t] = configMAX_PRIORITIES - z.prio[t]
        BY <1>3, <3>1, <4>3 DEF Sound, Orderly, Lists, EventOK
      <4>5. z.prio[w] \in Nat /\ z.prio[t] \in Nat
        BY <1>0, <1>3, <3>1, <4>3, Zenon DEF Schedulers
      <4>6. z.prio[t] <= z.prio[w]
        BY <4>2, <4>4, <4>5 DEF configMAX_PRIORITIES
      <4> QED BY <2>2, <4>3, <4>6
    <3>4. Leads(s', w)
      BY <3>2, <3>3 DEF Leads
    <3>5. PICK r \in Schedulers : /\ Removed(z, l, r)
                                  /\ \/ HeadOutranks(z, l) /\ Switched(r, s')
                                     \/ ~HeadOutranks(z, l) /\ s' = r
      BY <1>3, <2>1, <2>2, <2>6 DEF Handed
    <3>6. w \in Ready(r) /\ r.prio = z.prio /\ r.current = me /\ r.suspended = 0
      BY <2>2, <3>5 DEF Removed, SameState
    <3>7. w \in Ready(s')
      BY <3>5, <3>6 DEF Switched, SameLists
    <3>8. call'[w].op = "receive" /\ call'[w].at \in {"top", "yield"}
      <4>1. call[w].op = "receive" /\ Parked(call[w])
        BY <1>0, <3>1 DEF Base, Sound, Orderly, Queued
      <4>2. w # me
        BY <1>5, <4>1
      <4>3. call[w].at \notin Suspending
        BY <1>1, <3>1 DEF Base, Sound, Suspension
      <4> QED BY <1>0, <1>1, <3>1, <4>1, <4>2, <4>3 DEF Parked, Suspending, Leaving
    <3>9. Claims(s', call', w)
      BY <3>7, <3>8 DEF Claims
    <3>10. s'.prio[w] <= s'.prio[me']
      <4>1. CASE Switched(r, s')
        BY <3>6, <3>7, <4>1, SwitchedTopmost DEF Topmost, me
      <4>2. CASE ~HeadOutranks(z, l) /\ s' = r
        <5>1. ~(z.prio[w] >= z.prio[me]) /\ me' = me
          BY <2>2, <3>6, <4>2 DEF HeadOutranks, me
        <5>2. z.prio[w] \in Nat /\ z.prio[me] \in Nat
          BY <1>0, <1>3, <3>1, Zenon DEF Schedulers
        <5> QED BY <2>2, <5>1, <5>2
      <4> QED BY <3>5, <4>1, <4>2
    <3>11. Leads(s', me')
      <4>1. s'.prio \in [Tasks -> Priorities]
        BY <1>0 DEF Schedulers
      <4>2. ASSUME NEW t \in ToSet(s'.waiting["receive"]) PROVE s'.prio[t] <= s'.prio[me']
        <5>1. t \in Tasks /\ s'.prio[t] <= s'.prio[w]
          BY <3>2, <3>3, <4>2
        <5>2. s'.prio[t] \in Nat /\ s'.prio[w] \in Nat /\ s'.prio[me'] \in Nat
          BY <1>0, <3>1, <4>1, <5>1, Zenon
        <5> QED BY <3>10, <5>1, <5>2
      <4> QED BY <4>2 DEF Leads
    <3> QED BY <2>1, <2>3, <3>1, <3>4, <3>9, <3>11 DEF MutexOK
  <2> QED BY <2>5, <2>6
<1> QED BY <1>0, <1>1, <1>4, <1>5

(* What xTaskResumeAll does to the lists and to the calls.                 *)
Resumes ==
  /\ s'.prio = s.prio /\ Ready(s) \cup ToSet(s.pending) \subseteq Ready(s')
  /\ \A l \in EventLists :
       ToSet(s'.waiting[l]) = ToSet(s.waiting[l]) \ (Ready(s') \ (Ready(s) \cup ToSet(s.pending)))
  /\ Topmost(s') \/ me' = me
  /\ \A t \in Tasks \ {me} : /\ call'[t].at = call[t].at /\ call'[t].op = call[t].op
                             /\ call'[t].after = call[t].after
  /\ call[me].after = "out" => call'[me] = NoCall
  /\ call[me].op \in EventLists /\ call[me].after # "out" =>
       call'[me].op = call[me].op /\ call'[me].at \in {"top", "yield"}
  /\ call'[me].op \in EventLists => call[me].op = call'[me].op /\ call[me].after # "out"

(* What xTaskResumeAll does to the priorities, the ready and the waiting *)
(* tasks, and the calls.                                                 *)
LEMMA ResumesFacts ==
  ASSUME Typed, Base, xTaskResumeAll PROVE Resumes
<1>0. me \in Tasks /\ call \in [Tasks -> Records] /\ call[me] \in Records /\ s \in Schedulers
  BY MeTyped DEF Typed
<1>1. call[me].at = "resume" /\ s.suspended = 1
  BY ResumeFacts
<1>2. PICK z, w : Resumption(z, w)
  BY ResumeFacts
<1>3. Resuming(z) /\ Elapsed(z, s.missedTicks, w) /\ w \in Schedulers
  BY <1>2 DEF Resumption
<1>4. PICK v \in Schedulers :
           /\ SamePlaces(w, v) /\ v.current = me /\ v.waiting = w.waiting /\ v.suspended = 0
           /\ ResumeYields => Switched(v, s')
           /\ ~ResumeYields => s' = v
  BY <1>2 DEF Resumption
<1>5. s'.prio = w.prio /\ Ready(s') = Ready(w) /\ s'.waiting = w.waiting /\ (Topmost(s') \/ me' = me)
  <2>1. CASE ResumeYields
    BY <1>4, <2>1, SamePlacesFacts, SwitchedTopmost DEF Switched, SameLists, SamePlaces
  <2>2. CASE ~ResumeYields
    BY <1>4, <2>2, SamePlacesFacts DEF SamePlaces, me
  <2> QED BY <2>1, <2>2
<1>6. PICK again : again = (w.tick < s.tick) /\ again \in BOOLEAN
  <2>1. w.tick \in 0..portMAX_DELAY /\ s.tick \in 0..portMAX_DELAY
    BY <1>0, <1>3 DEF Schedulers
  <2>2. (w.tick < s.tick) \in BOOLEAN
    BY <2>1
  <2> QED BY <2>2, Zenon
<1>7. PICK calls : calls = Wrap(call, again)
  OBVIOUS
<1>8. calls \in [Tasks -> Records] /\ Alike(call, calls)
  BY <1>0, <1>6, <1>7, WrapFacts, Zenon
<1>9. PICK y, c : y = ResumeYields /\ c = Resumed(calls[me], y)
  OBVIOUS
<1>10. call' = [calls EXCEPT ![me] = c] /\ y \in BOOLEAN
  BY <1>0, <1>2, <1>6, <1>7, <1>8, <1>9 DEF Resumption, ResumeYields
<1>11. calls[me] \in Records /\ CallOK(calls[me]) /\ calls[me].at = "resume"
  BY <1>0, <1>1, <1>8 DEF Base, Sound, Orderly, Calls, Alike, CallOK
<1>12. /\ c.at \in {"out", "top", "yield"}
       /\ c.at = "out" => c = NoCall /\ (calls[me].after = "out" \/ calls[me].op = "delay")
       /\ c.at # "out" => c.op = calls[me].op /\ calls[me].after # "out"
  <2>1. GoesOn(calls[me], y, c)
    BY <1>9, <1>10, <1>11, ResumedFacts
  <2> QED BY <2>1 DEF GoesOn
<1>13. call'[me] = c /\ \A t \in Tasks \ {me} : call'[t] = calls[t]
  BY <1>0, <1>8, <1>10
<1>14. calls[me].op = call[me].op /\ calls[me].after = call[me].after
  BY <1>0, <1>8 DEF Alike
<1>15. \A t \in Tasks \ {me} : /\ call'[t].at = call[t].at /\ call'[t].op = call[t].op
                               /\ call'[t].after = call[t].after
  BY <1>8, <1>13 DEF Alike
<1>16. call[me].after = "out" => call'[me] = NoCall
  BY <1>12, <1>13, <1>14
<1>17. call[me].op \in EventLists /\ call[me].after # "out" =>
         call'[me].op = call[me].op /\ call'[me].at \in {"top", "yield"}
  BY <1>12, <1>13, <1>14 DEF EventLists
<1>18. call'[me].op \in EventLists => call[me].op = call'[me].op /\ call[me].after # "out"
  BY <1>12, <1>13, <1>14 DEF EventLists, NoCall
<1>19. s'.prio = s.prio /\ Ready(s) \cup ToSet(s.pending) \subseteq Ready(s')
  BY <1>3, <1>5 DEF Resuming, Elapsed, SameState
<1>20. \A l \in EventLists :
         ToSet(s'.waiting[l]) = ToSet(s.waiting[l]) \ (Ready(s') \ (Ready(s) \cup ToSet(s.pending)))
  BY <1>3, <1>5 DEF Resuming, Elapsed
<1> QED BY <1>5, <1>15, <1>16, <1>17, <1>18, <1>19, <1>20 DEF Resumes

(* xTaskResumeAll keeps Mutex. *)
LEMMA ResumeMutex ==
  ASSUME Typed, Base, MutexOK, xTaskResumeAll, Typed' PROVE MutexOK'
<1>1. Resumes /\ call[me].at = "resume" /\ s.suspended = 1 /\ q' = q
  BY ResumesFacts, ResumeFacts
<1>2. \A t \in Tasks : Claims(s, call, t) => Claims(s', call', t)
  BY <1>1 DEF Resumes, Claims
<1>3. ToSet(s'.waiting["receive"]) \subseteq ToSet(s.waiting["receive"])
  BY <1>1 DEF Resumes, EventLists
<1> QED BY <1>1, <1>2, <1>3, MutexKept DEF Resumes, Typed

(* portYIELD keeps Mutex. *)
LEMMA YieldMutex ==
  ASSUME Typed, Base, MutexOK, portYIELD, Typed' PROVE MutexOK'
<1>0. me \in Tasks /\ call \in [Tasks -> Records] /\ call[me] \in Records
  BY MeTyped
<1>1. s' \in Schedulers /\ s.suspended = 0 /\ Switched(s, s') /\ q' = q
  BY YieldFacts DEF portYIELD
<1>2. PICK c \in Records : /\ call' = [call EXCEPT ![me] = c]
                           /\ \/ call[me].op = "delay" /\ c = NoCall
                              \/ call[me].op # "delay" /\ c = [call[me] EXCEPT !.at = "top"]
  BY YieldFacts
<1>3. call'[me] = c /\ \A u \in Tasks \ {me} : call'[u] = call[u]
  BY <1>0, <1>2
<1>4. call[me].op = "receive" => c.op = "receive" /\ c.at = "top"
  BY <1>0, <1>2 DEF Records
<1>5. s'.prio = s.prio /\ s'.waiting = s.waiting /\ Ready(s') = Ready(s) /\ Topmost(s')
  BY <1>1, SwitchedTopmost DEF Switched, SameLists
<1>6. \A t \in Tasks : Claims(s, call, t) => Claims(s', call', t)
  BY <1>3, <1>4, <1>5 DEF Claims
<1> QED BY <1>1, <1>5, <1>6, MutexKept

(* The tick interrupt keeps Mutex: it only takes tasks out of the event *)
(* lists.                                                               *)
LEMMA TickMutex ==
  ASSUME Typed, Base, MutexOK, vTickISR, Typed' PROVE MutexOK'
<1>1. PICK z : z = vTaskIncrementTick(s)
  OBVIOUS
<1>2. /\ z \in Schedulers /\ Sound(z, call) /\ z.suspended = s.suspended
      /\ z.current = s.current
      /\ s.suspended = 1 => SamePlaces(s, z) /\ z.waiting = s.waiting
      /\ s.suspended = 0 => Elapsed(s, 1, z)
  BY <1>1, TickSound
<1>3. Switched(z, s') /\ s' \in Schedulers
  <2>1. s' = vTaskSwitchContext(z)
    BY <1>1 DEF vTickISR
  <2> QED BY <1>2, <2>1, SwitchSound
<1>4. Alike(call, call') /\ q' = q
  BY TickCalls DEF vTickISR
<1>5. s.suspended \in {0, 1} /\ "receive" \in EventLists
  BY MeTyped DEF EventLists
<1>6. /\ s'.prio = s.prio /\ Ready(s) \subseteq Ready(s')
      /\ ToSet(s'.waiting["receive"]) \subseteq ToSet(s.waiting["receive"])
      /\ s.suspended = 1 => me' = me
      /\ s.suspended = 0 => Topmost(s')
  <2>1. CASE s.suspended = 1
    BY <1>2, <1>3, <2>1, SamePlacesFacts DEF Switched, SameLists, SamePlaces, me
  <2>2. CASE s.suspended = 0
    BY <1>2, <1>3, <1>5, <2>2, SwitchedTopmost DEF Switched, SameLists, Elapsed, SameState
  <2> QED BY <1>5, <2>1, <2>2
<1>7. \A t \in Tasks : Claims(s, call, t) => Claims(s', call', t)
  BY <1>4, <1>6 DEF Claims, Alike
<1> QED BY <1>3, <1>4, <1>5, <1>6, <1>7, MutexKept

(* Every step keeps Mutex. *)
LEMMA NextMutex == Inv /\ Mutex /\ [Next]_vars => Mutex'
<1> SUFFICES ASSUME Inv, Mutex, [Next]_vars, IsMutex PROVE MutexOK'
  BY DEF Mutex
<1>0. Typed /\ Base /\ Holding /\ MutexOK /\ Typed'
  BY NextInv DEF Inv, Mutex
<1>1. me \in Tasks /\ call \in [Tasks -> Records] /\ s \in Schedulers /\ call[me] \in Records
  BY <1>0, MeTyped DEF Typed
<1>2. ASSUME NEW op \in EventLists, NEW n \in BlockTimes, Begin(op, n) PROVE MutexOK'
  BY <1>0, <1>2, OneCallMutex, Zenon DEF Begin, At
<1>3. ASSUME NEW n \in Delays, BeginDelay(n) PROVE MutexOK'
  <2>1. At("out") /\ q' = q /\ (s' = s \/ s' = [s EXCEPT !.suspended = 1])
        /\ \E c : call' = [call EXCEPT ![me] = c]
    BY <1>3, Zenon DEF BeginDelay
  <2>2. s' = s \/ Suspended(s, s')
    BY <1>1, <2>1, SuspendFacts
  <2> QED BY <1>0, <2>1, <2>2, OneCallMutex, Zenon DEF At
<1>4. CASE vTaskDelay
  <2>1. At("delay") /\ q' = q /\ call[me].wait \in 0..portMAX_DELAY /\ s' = Delay(s, call[me].wait)
        /\ \E c : call' = [call EXCEPT ![me] = c]
    BY <1>1, <1>4, Zenon DEF vTaskDelay, Records
  <2>2. Delayed(s, call[me].wait, s')
    BY <1>1, <2>1, DelayFacts
  <2> QED BY <1>0, <2>1, <2>2, OneCallMutex, Zenon DEF At
<1>5. CASE Transfer
  BY <1>0, <1>5, TransferMutex
<1>6. CASE Fail \/ vTaskSetTimeOutState
  <2>1. /\ At("top") /\ ~Possible(call[me].op) /\ q' = q /\ s' = s
        /\ \E c : call' = [call EXCEPT ![me] = c]
    BY <1>6 DEF Fail, Return, vTaskSetTimeOutState
  <2>2. q.holder # NoTask
    <3>1. call[me].op \in EventLists
      BY <1>0, <1>1, <2>1 DEF Base, Sound, Orderly, Calls, CallOK, At
    <3>2. CASE call[me].op = "send"
      BY <1>0, <1>1, <3>2, QueueAssumption DEF Holding
    <3>3. CASE call[me].op = "receive"
      BY <1>0, <2>1, <3>3 DEF Possible, Typed, Queues, Holding
    <3> QED BY <3>1, <3>2, <3>3 DEF EventLists
  <2> QED BY <1>0, <2>1, <2>2, OneCallMutex, Zenon DEF At
<1>7. CASE vTaskSuspendAll
  <2>1. At("suspend") /\ q' = q /\ s' = [s EXCEPT !.suspended = 1] /\ \E c : call' = [call EXCEPT ![me] = c]
    BY <1>7, Zenon DEF vTaskSuspendAll, Goto
  <2>2. Suspended(s, s')
    BY <1>1, <2>1, SuspendFacts
  <2> QED BY <1>0, <2>1, <2>2, OneCallMutex, Zenon DEF At
<1>8. CASE prvLockQueue
  <2>1. At("lock") /\ q'.holder = q.holder /\ s' = s /\ \E c : call' = [call EXCEPT ![me] = c]
    BY <1>0, <1>8, Zenon DEF prvLockQueue, Goto, Typed, Queues
  <2> QED BY <1>0, <2>1, OneCallMutex, Zenon DEF At
<1>9. CASE xTaskCheckForTimeOut
  <2>1. At("check") /\ q' = q /\ s' = s /\ \E c : call' = [call EXCEPT ![me] = c]
    BY <1>0, <1>9, CheckFacts DEF Checked, xTaskCheckForTimeOut
  <2> QED BY <1>0, <2>1, OneCallMutex, Zenon DEF At
<1>10. CASE Retest
  <2>1. At("test") /\ q' = q /\ s' = s /\ \E c : call' = [call EXCEPT ![me] = c]
    BY <1>10 DEF Retest, Goto
  <2> QED BY <1>0, <2>1, OneCallMutex, Zenon DEF At
<1>11. CASE Place
  BY <1>0, <1>11, PlaceMutex
<1>12. CASE UnlockTx
  <2>1. At("unlockTx") /\ q.txLock \in Nat /\ s' = WakeCounted("receive", q.txLock)
    BY <1>0, <1>12, QueueAssumption DEF UnlockTx, Typed, Queues, Base, Locks, TxHeld, At
  <2>3. q'.holder = q.holder /\ \E c : call' = [call EXCEPT ![me] = c]
    BY <1>0, <1>12, Zenon DEF UnlockTx, Goto, Typed, Queues
  <2>2. \E k \in Nat : WokenFirst("receive", k, s') /\ k <= Len(s.waiting["receive"])
    BY <1>1, <2>1, WakeCountedFacts DEF EventLists
  <2> QED BY <1>0, <2>1, <2>2, <2>3, OneCallMutex, Zenon DEF EventLists, At
<1>13. CASE UnlockRx
  <2>1. At("unlockRx") /\ q.rxLock \in Nat /\ s' = WakeCounted("send", q.rxLock)
    BY <1>0, <1>13, QueueAssumption DEF UnlockRx, Typed, Queues, Base, Locks, RxHeld, At
  <2>3. q'.holder = q.holder /\ \E c : call' = [call EXCEPT ![me] = c]
    BY <1>0, <1>13, Zenon DEF UnlockRx, Goto, Typed, Queues
  <2>2. \E k \in Nat : WokenFirst("send", k, s') /\ k <= Len(s.waiting["send"])
    BY <1>1, <2>1, WakeCountedFacts DEF EventLists
  <2> QED BY <1>0, <2>1, <2>2, <2>3, OneCallMutex, Zenon DEF EventLists, At
<1>14. CASE xTaskResumeAll
  BY <1>0, <1>14, ResumeMutex
<1>15. CASE portYIELD
  BY <1>0, <1>15, YieldMutex
<1>16. CASE vTickISR
  BY <1>0, <1>16, TickMutex
<1>17. ASSUME NEW op \in EventLists, DeviceISR(op) PROVE MutexOK'
  BY <1>17 DEF DeviceISR
<1>18. CASE UNCHANGED vars
  BY <1>0, <1>18 DEF vars, MutexOK, Leads, Claims, At, me
<1> QED BY <1>2, <1>3, <1>4, <1>5, <1>6, <1>7, <1>8, <1>9, <1>10, <1>11, <1>12, <1>13,
           <1>14, <1>15, <1>16, <1>17, <1>18
        DEF Next, xQueueGenericSendFromISR, xQueueReceiveFromISR, EventLists

(* No task that waits for the mutex outranks its holder (NoInversion):  *)
(* the priority is inherited before the task sleeps, and kept until the *)
(* mutex is given back.                                                 *)
THEOREM NobodyOutranksTheHolder == Spec => []NoInversion
<1>1. Init => Mutex
  <2> SUFFICES ASSUME Init PROVE MutexOK
    BY DEF Mutex
  <2>1. s.prio = uxBasePriority /\ s.waiting = [l \in EventLists |-> <<>>] /\ q.holder = NoTask
    BY StartedFacts DEF Init
  <2>2. "receive" \in EventLists
    BY DEF EventLists
  <2> QED BY <2>1, <2>2 DEF MutexOK
<1>2. Inv /\ Mutex => NoInversion
  <2> SUFFICES ASSUME Inv, MutexOK, IsMutex PROVE NoInversion
    BY DEF NoInversion, Mutex
  <2>1. Typed /\ Base
    BY DEF Inv
  <2>2. ASSUME NEW l \in EventLists, NEW i \in DOMAIN s.waiting[l], NEW j \in DOMAIN s.waiting[l], i < j
        PROVE  s.prio[s.waiting[l][i]] >= s.prio[s.waiting[l][j]]
    <3>1. s.waiting[l] \in Seq(Tasks) /\ s.prio \in [Tasks -> Priorities] /\ Priorities \subseteq Nat
      BY <2>1, PriorityRange DEF Typed, Schedulers
    <3>2. s.waiting[l][i] \in Tasks /\ s.waiting[l][j] \in Tasks
      BY <2>2, <3>1
    <3>3. s.event[s.waiting[l][i]] <= s.event[s.waiting[l][j]]
      BY <2>1, <2>2 DEF Base, Sound, Orderly, Apart, Rising
    <3>4. /\ s.event[s.waiting[l][i]] = configMAX_PRIORITIES - s.prio[s.waiting[l][i]]
          /\ s.event[s.waiting[l][j]] = configMAX_PRIORITIES - s.prio[s.waiting[l][j]]
      BY <2>1, <3>2 DEF Base, Sound, Orderly, Lists, EventOK
    <3>5. s.prio[s.waiting[l][i]] \in Nat /\ s.prio[s.waiting[l][j]] \in Nat
      BY <3>1, <3>2, Zenon
    <3> QED BY <3>3, <3>4, <3>5 DEF configMAX_PRIORITIES
  <2>3. ASSUME q.holder # NoTask, NEW t \in ToSet(s.waiting["receive"])
        PROVE  s.prio[q.holder] >= s.prio[t]
    <3>1. s.waiting["receive"] \in Seq(Tasks) /\ s.prio \in [Tasks -> Priorities] /\ Priorities \subseteq Nat
          /\ q.holder \in Tasks
      BY <2>1, <2>3, PriorityRange DEF Typed, Schedulers, Queues, EventLists
    <3>2. t \in Tasks
      BY <2>3, <3>1, InToSet
    <3>3. s.prio[t] <= s.prio[q.holder]
      BY <2>3 DEF MutexOK, Leads
    <3>4. s.prio[t] \in Nat /\ s.prio[q.holder] \in Nat
      BY <3>1, <3>2, Zenon
    <3> QED BY <3>3, <3>4
  <2>4. \A t \in Tasks \ {q.holder} : s.prio[t] = uxBasePriority[t]
    BY DEF MutexOK
  <2> QED BY <2>2, <2>3, <2>4 DEF NoInversion
<1> QED BY <1>1, <1>2, NextMutex, Invariance, PTL DEF Spec

-----------------------------------------------------------------------------
(* No wake-up is lost.                                                    *)

(* Items for receivers, room for senders; what handlers moved while the    *)
(* queue was locked.                                                       *)
Wanted(op) == IF op = "receive" THEN q.messages ELSE QueueLength - q.messages
Tally(op) == IF op = "receive" THEN q.txLock ELSE q.rxLock
Credit(op) == IF Tally(op) = -1 THEN 0 ELSE Tally(op)

(* While tasks wait for it, whatever is wanted has been given to a task    *)
(* that is to look, or is counted for when the queue is unlocked; and all  *)
(* of it has come since the running task looked when that one is to wait.  *)
Wake(op) ==
  /\ s.waiting[op] # <<>> => Wanted(op) <= Cardinality(Woken(op)) + Credit(op)
  /\ At("place") /\ call[me].op = op => Wanted(op) <= Credit(op)

Wakes == \A op \in EventLists : Wake(op)

(* A list without repetition has as many items as its set has elements. *)
LEMMA CountFacts ==
  ASSUME NEW S, NEW list \in Seq(S), IsInjective(list)
  PROVE  IsFiniteSet(ToSet(list)) /\ Cardinality(ToSet(list)) = Len(list)
<1>1. Len(list) \in Nat /\ list \in [1..Len(list) -> S] /\ DOMAIN list = 1..Len(list)
  OBVIOUS
<1>2. ToSet(list) = {list[i] : i \in 1..Len(list)}
  BY <1>1 DEF ToSet
<1>3. list \in Bijection(1..Len(list), ToSet(list))
  BY <1>1, <1>2 DEF Bijection, Injection, Surjection, IsInjective
<1>4. ExistsBijection(1..Len(list), ToSet(list))
  BY <1>3 DEF ExistsBijection
<1> QED BY <1>1, <1>4, FS_CountingElements, FS_NatBijection

WokenTypes(o) ==
  /\ Woken(o) \subseteq Tasks /\ IsFiniteSet(Woken(o)) /\ Cardinality(Woken(o)) \in Nat
  /\ Wanted(o) \in Nat /\ Credit(o) \in Nat
  /\ ~Possible(o) => Wanted(o) = 0

(* The types of what is counted; nothing is wanted of a queue that is *)
(* full, or empty.                                                    *)
LEMMA WokenTyped == Typed => \A o \in EventLists : WokenTypes(o)
<1> SUFFICES ASSUME Typed, NEW o \in EventLists PROVE WokenTypes(o)
  OBVIOUS
<1>1. Woken(o) \subseteq Tasks
  BY DEF Woken
<1>2. IsFiniteSet(Woken(o)) /\ Cardinality(Woken(o)) \in Nat
  BY <1>1, TasksAssumption, FS_Subset, FS_CardinalityType
<1>3. q.messages \in 0..QueueLength /\ q.txLock \in -1..MaxLock /\ q.rxLock \in -1..MaxLock
  BY DEF Typed, Queues
<1>4. QueueLength \in Nat /\ MaxLock \in Nat
  BY QueueAssumption
<1>5. Wanted(o) \in Nat
  BY <1>3, <1>4 DEF Wanted
<1>6. Tally(o) \in -1..MaxLock
  BY <1>3 DEF Tally
<1>7. Credit(o) \in Nat
  BY <1>4, <1>6 DEF Credit
<1>8. ~Possible(o) => Wanted(o) = 0
  BY <1>3, <1>4 DEF Possible, Wanted, EventLists
<1> QED BY <1>1, <1>2, <1>5, <1>7, <1>8 DEF WokenTypes

(* The same of the next state. *)
LEMMA WokenTypedNext == (Typed => \A o \in EventLists : WokenTypes(o))'
BY WokenTyped, PTL

(* The tasks of D have been woken, for as much as there is more of. *)
Gained(o, D) ==
  /\ D \subseteq Tasks /\ D \cap Woken(o) = {} /\ Woken(o) \cup D \subseteq Woken(o)'
  /\ Wanted(o)' + Credit(o) <= Wanted(o) + Cardinality(D) + Credit(o)'

(* A step that wakes a task for each item there is more of keeps Wake. *)
LEMMA WakeGained ==
  ASSUME Typed, Typed', NEW o \in EventLists, Wake(o),
         s'.waiting[o] # <<>> => s.waiting[o] # <<>> /\ \E D : Gained(o, D),
         (At("place") /\ call[me].op = o)' =>
           /\ At("place") /\ call[me].op = o
           /\ Wanted(o)' + Credit(o) <= Wanted(o) + Credit(o)'
  PROVE  Wake(o)'
<1>1. /\ Wanted(o) \in Nat /\ Credit(o) \in Nat /\ Cardinality(Woken(o)) \in Nat
      /\ Wanted(o)' \in Nat /\ Credit(o)' \in Nat /\ Cardinality(Woken(o))' \in Nat
      /\ IsFiniteSet(Woken(o)) /\ IsFiniteSet(Woken(o)')
  BY WokenTyped, WokenTypedNext DEF WokenTypes
<1>2. ASSUME s'.waiting[o] # <<>>
      PROVE  Wanted(o)' <= Cardinality(Woken(o))' + Credit(o)'
  <2>1. PICK D : Gained(o, D)
    BY <1>2
  <2>2. IsFiniteSet(D) /\ Cardinality(D) \in Nat
    BY <2>1, TasksAssumption, FS_Subset, FS_CardinalityType DEF Gained
  <2>3. Cardinality(Woken(o) \cup D) = Cardinality(Woken(o)) + Cardinality(D)
    <3>1. Woken(o) \cap D = {} /\ Cardinality({}) = 0
      BY <2>1, FS_EmptySet DEF Gained
    <3>2. Cardinality(Woken(o) \cup D) =
            Cardinality(Woken(o)) + Cardinality(D) - Cardinality(Woken(o) \cap D)
      BY <1>1, <2>2, FS_Union
    <3>3. Cardinality(Woken(o) \cap D) = 0
      BY <3>1, Zenon
    <3> QED BY <1>1, <2>2, <3>2, <3>3
  <2>4. Cardinality(Woken(o) \cup D) <= Cardinality(Woken(o)')
    BY <1>1, <2>1, FS_Subset DEF Gained
  <2>5. Wanted(o) <= Cardinality(Woken(o)) + Credit(o)
    BY <1>2 DEF Wake
  <2>6. Wanted(o)' + Credit(o) <= Wanted(o) + Cardinality(D) + Credit(o)'
    BY <2>1 DEF Gained
  <2> QED BY <1>1, <2>2, <2>3, <2>4, <2>5, <2>6
<1>3. ASSUME (At("place") /\ call[me].op = o)' PROVE Wanted(o)' <= Credit(o)'
  <2>1. Wanted(o)' + Credit(o) <= Wanted(o) + Credit(o)' /\ Wanted(o) <= Credit(o)
    BY <1>3 DEF Wake
  <2> QED BY <1>1, <2>1
<1> QED BY <1>2, <1>3 DEF Wake

(* A step that leaves the queue alone keeps Wake when whoever was woken *)
(* stays so, or nothing is wanted.                                      *)
LEMMA WakeKept ==
  ASSUME Typed, Typed', NEW o \in EventLists, Wake(o),
         q'.messages = q.messages, Credit(o)' = Credit(o),
         s'.waiting[o] # <<>> => s.waiting[o] # <<>>,
         Woken(o) \subseteq Woken(o)' \/ Wanted(o) = 0,
         (At("place") /\ call[me].op = o)' => (At("place") /\ call[me].op = o) \/ Wanted(o) = 0
  PROVE  Wake(o)'
<1>1. /\ Wanted(o) \in Nat /\ Credit(o) \in Nat
      /\ Credit(o)' \in Nat /\ Cardinality(Woken(o))' \in Nat
  BY WokenTyped, WokenTypedNext DEF WokenTypes
<1>2. Wanted(o)' = Wanted(o)
  BY DEF Wanted
<1>3. CASE Wanted(o) = 0
  BY <1>1, <1>2, <1>3 DEF Wake
<1>4. CASE Wanted(o) # 0
  <2>1. {} \subseteq Tasks /\ {} \cap Woken(o) = {} /\ Woken(o) \cup {} \subseteq Woken(o)'
    BY <1>4
  <2>2. Wanted(o)' + Credit(o) <= Wanted(o) + Cardinality({}) + Credit(o)'
    BY <1>1, <1>2, FS_EmptySet
  <2>3. Gained(o, {})
    BY <2>1, <2>2 DEF Gained
  <2>4. Wanted(o)' + Credit(o) <= Wanted(o) + Credit(o)'
    BY <1>1, <1>2
  <2> QED BY <1>4, <2>3, <2>4, WakeGained
<1> QED BY <1>3, <1>4

(* Who was woken stays so, but for the running task. *)
LEMMA WokenKept ==
  ASSUME Typed, NEW o \in EventLists, s' \in Schedulers,
         \A t \in Tasks \ {me} : /\ call'[t].at = call[t].at /\ call'[t].op = call[t].op
                                 /\ call'[t].after = call[t].after,
         ToSet(s'.waiting[o]) \subseteq ToSet(s.waiting[o])
  PROVE  /\ Woken(o) \ {me} \subseteq Woken(o)'
         /\ s'.waiting[o] # <<>> => s.waiting[o] # <<>>
<1>1. s.waiting[o] \in Seq(Tasks) /\ s'.waiting[o] \in Seq(Tasks)
  BY DEF Typed, Schedulers
<1>2. s'.waiting[o] # <<>> => s.waiting[o] # <<>>
  <2>1. (s.waiting[o] = <<>> => ToSet(s.waiting[o]) = {}) /\ (ToSet(s'.waiting[o]) = {} => s'.waiting[o] = <<>>)
    BY <1>1, InToSet
  <2> QED BY <2>1
<1>3. Woken(o) \ {me} \subseteq Woken(o)'
  BY DEF Woken
<1> QED BY <1>2, <1>3

(* A task is only on its way to an event list while the scheduler is suspended. *)
LEMMA PlacePlace ==
  ASSUME NEW z \in Schedulers, NEW calls, Suspension(z, calls), z.suspended = 0
  PROVE  calls[z.current].at # "place"
<1>1. z.current \in Tasks
  BY DEF Schedulers
<1> QED BY <1>1 DEF Suspension, Suspending

(* A step of the running task that only changes its own call keeps Wake. *)
LEMMA OneCallWake ==
  ASSUME Typed, Typed', Base, NEW o \in EventLists, Wake(o),
         q'.messages = q.messages, Credit(o)' = Credit(o),
         \/ s' = s
         \/ Suspended(s, s')
         \/ Delayed(s, call[me].wait, s')
         \/ \E l \in EventLists, k \in Nat : l # o /\ WokenFirst(l, k, s') /\ k <= Len(s.waiting[l]),
         NEW c, call' = [call EXCEPT ![me] = c],
         me \notin Woken(o) \/ me \in Woken(o)' \/ Wanted(o) = 0,
         c.at = "place" /\ c.op = o => Wanted(o) = 0
  PROVE  Wake(o)'
<1>0. /\ me \in Tasks /\ call \in [Tasks -> Records] /\ s' \in Schedulers /\ s \in Schedulers
      /\ s.waiting \in [EventLists -> Seq(Tasks)]
  BY MeTyped DEF Typed
<1>1. s'.waiting[o] = s.waiting[o] /\ me' = me
  BY <1>0, Zenon DEF Suspended, Delayed, SameRest, WokenFirst, me
<1>2. call'[me] = c /\ \A t \in Tasks \ {me} : call'[t] = call[t]
  BY <1>0
<1>3. Woken(o) \subseteq Woken(o)' \/ Wanted(o) = 0
  BY <1>0, <1>1, <1>2, WokenKept
<1>4. (At("place") /\ call[me].op = o)' => Wanted(o) = 0
  BY <1>1, <1>2 DEF At
<1> QED BY <1>0, <1>1, <1>3, <1>4, WakeKept

(* Going on the event list keeps Wake: what came since the last look at *)
(* the queue is counted.                                                *)
LEMMA PlaceWake ==
  ASSUME Typed, Base, Holding, Typed', Place, NEW o \in EventLists, Wake(o)
  PROVE  Wake(o)'
<1>0. /\ me \in Tasks /\ call \in [Tasks -> Records] /\ s' \in Schedulers /\ s \in Schedulers
      /\ s.waiting \in [EventLists -> Seq(Tasks)] /\ call[me] \in Records
      /\ s.event \in [Tasks -> 0..configMAX_PRIORITIES]
  BY MeTyped, Zenon DEF Typed, Schedulers
<1>1. /\ call[me].at = "place" /\ call[me].op \in EventLists
      /\ call' = [call EXCEPT ![me].at = "unlockTx", ![me].after = "yield"]
      /\ q' = q
  BY PlaceStep
<1>2. PICK z : PlacedAfter(z)
  BY PlaceStep
<1>3. z.waiting = s.waiting /\ z \in Schedulers /\ z.current = me
  BY <1>2 DEF PlacedAfter, Reprioritised
<1>4. /\ s'.waiting = [z.waiting EXCEPT ![call[me].op] = vListInsert(@, z.event, me)]
      /\ me' = me
  BY <1>2, <1>3 DEF PlacedAfter, Placed, SameState, me
<1>5. Credit(o)' = Credit(o) /\ Wanted(o)' = Wanted(o) /\ q'.messages = q.messages
  BY <1>1 DEF Credit, Tally, Wanted
<1>6. call'[me].at = "unlockTx" /\ \A t \in Tasks \ {me} : call'[t] = call[t]
  BY <1>0, <1>1 DEF Records
<1>7. me \notin Woken(o)
  BY <1>1 DEF Woken
<1>8. ~At("place")'
  BY <1>4, <1>6 DEF At
<1>9. CASE o # call[me].op
  <2>1. s'.waiting[o] = s.waiting[o]
    BY <1>0, <1>3, <1>4, <1>9
  <2>2. Woken(o) \subseteq Woken(o)'
    BY <1>0, <1>6, <1>7, <2>1, WokenKept
  <2> QED BY <1>5, <1>8, <2>1, <2>2, WakeKept
<1>10. CASE o = call[me].op
  <2>1. Wanted(o) <= Credit(o)
    BY <1>1, <1>10 DEF Wake, At
  <2>2. Wanted(o) \in Nat /\ Credit(o) \in Nat /\ Cardinality(Woken(o))' \in Nat
    BY WokenTyped, WokenTypedNext DEF WokenTypes
  <2>3. Wanted(o)' <= Cardinality(Woken(o))' + Credit(o)'
    BY <1>5, <2>1, <2>2
  <2> QED BY <1>8, <2>3 DEF Wake
<1> QED BY <1>9, <1>10

(* xTaskResumeAll keeps Wake: tasks whose time is over leave the event *)
(* lists and will look again.                                          *)
LEMMA ResumeWake ==
  ASSUME Typed, Base, Typed', Base', xTaskResumeAll, NEW o \in EventLists, Wake(o)
  PROVE  Wake(o)'
<1>0. /\ me \in Tasks /\ s' \in Schedulers
      /\ s.waiting \in [EventLists -> Seq(Tasks)] /\ s'.waiting[o] \in Seq(Tasks)
  BY MeTyped, Zenon DEF Typed, Schedulers
<1>1. Resumes /\ call[me].at = "resume" /\ q' = q
  BY ResumesFacts, ResumeFacts
<1>2. s'.suspended = 0
  <2>1. PICK z, w : Resumption(z, w)
    BY ResumeFacts
  <2>2. PICK v \in Schedulers : v.suspended = 0 /\ (s' = v \/ Switched(v, s'))
    BY <2>1 DEF Resumption
  <2> QED BY <2>2 DEF Switched, SameLists
<1>3. ~At("place")'
  <2>1. Suspension(s', call')
    BY DEF Base, Sound
  <2> QED BY <1>0, <1>2, <2>1, PlacePlace DEF At, me
<1>4. ToSet(s'.waiting[o]) \subseteq ToSet(s.waiting[o])
  BY <1>1 DEF Resumes
<1>5. Woken(o) \ {me} \subseteq Woken(o)' /\ (s'.waiting[o] # <<>> => s.waiting[o] # <<>>)
  <2>1. \A t \in Tasks \ {me} : /\ call'[t].at = call[t].at /\ call'[t].op = call[t].op
                                /\ call'[t].after = call[t].after
    BY <1>1 DEF Resumes
  <2> QED BY <1>0, <1>4, <2>1, WokenKept
<1>6. me \in Woken(o) => me \in Woken(o)'
  <2> SUFFICES ASSUME me \in Woken(o) PROVE me \in Woken(o)'
    OBVIOUS
  <2>1. call[me].op = o /\ me \notin ToSet(s.waiting[o]) /\ call[me].after # "out"
    BY <1>1 DEF Woken
  <2>2. call'[me].op = o /\ call'[me].at \in {"top", "yield"} /\ me \notin ToSet(s'.waiting[o])
    BY <1>1, <1>4, <2>1 DEF Resumes
  <2> QED BY <1>0, <2>2 DEF Woken
<1>7. Credit(o)' = Credit(o) /\ q'.messages = q.messages
  BY <1>1 DEF Credit, Tally
<1>8. Woken(o) \subseteq Woken(o)'
  BY <1>5, <1>6
<1> HIDE DEF Woken
<1> QED BY <1>3, <1>5, <1>7, <1>8, WakeKept

(* portYIELD keeps Wake. *)
LEMMA YieldWake ==
  ASSUME Typed, Base, Typed', Base', portYIELD, NEW o \in EventLists, Wake(o)
  PROVE  Wake(o)'
<1>0. me \in Tasks /\ call \in [Tasks -> Records] /\ call[me] \in Records /\ s' \in Schedulers
  BY MeTyped DEF Typed
<1>1. s.suspended = 0 /\ Switched(s, s') /\ q' = q
  BY YieldFacts DEF portYIELD
<1>2. PICK c \in Records : /\ call' = [call EXCEPT ![me] = c]
                           /\ \/ call[me].op = "delay" /\ c = NoCall
                              \/ call[me].op # "delay" /\ c = [call[me] EXCEPT !.at = "top"]
  BY YieldFacts
<1>3. call'[me] = c /\ \A t \in Tasks \ {me} : call'[t] = call[t]
  BY <1>0, <1>2
<1>4. s'.waiting = s.waiting /\ s'.suspended = 0
  BY <1>1 DEF Switched, SameLists
<1>5. Woken(o) \ {me} \subseteq Woken(o)'
  BY <1>0, <1>3, <1>4, WokenKept
<1>6. me \in Woken(o) => me \in Woken(o)'
  <2>1. call[me].op = o => c.op = o /\ c.at = "top"
    BY <1>0, <1>2 DEF Records, EventLists
  <2> QED BY <1>0, <1>3, <1>4, <2>1 DEF Woken
<1>7. ~At("place")'
  <2>1. Suspension(s', call')
    BY DEF Base, Sound
  <2> QED BY <1>0, <1>4, <2>1, PlacePlace DEF At, me
<1>8. Credit(o)' = Credit(o) /\ q'.messages = q.messages
  BY <1>1 DEF Credit, Tally
<1> QED BY <1>4, <1>5, <1>6, <1>7, <1>8, WakeKept

(* The tick interrupt keeps Wake. *)
LEMMA TickWake ==
  ASSUME Typed, Base, Typed', Base', vTickISR, NEW o \in EventLists, Wake(o)
  PROVE  Wake(o)'
<1>0. /\ s' \in Schedulers /\ s.suspended \in {0, 1} /\ me \in Tasks
      /\ s.waiting \in [EventLists -> Seq(Tasks)]
  BY MeTyped DEF Typed
<1>1. PICK z : z = vTaskIncrementTick(s)
  OBVIOUS
<1>2. /\ z \in Schedulers /\ Sound(z, call) /\ z.suspended = s.suspended
      /\ z.current = s.current
      /\ s.suspended = 1 => z.waiting = s.waiting
      /\ s.suspended = 0 => Elapsed(s, 1, z)
  BY <1>1, TickSound
<1>3. Switched(z, s')
  <2>1. s' = vTaskSwitchContext(z)
    BY <1>1 DEF vTickISR
  <2> QED BY <1>2, <2>1, SwitchSound
<1>4. Alike(call, call') /\ q' = q
  BY TickCalls DEF vTickISR
<1>5. ToSet(s'.waiting[o]) \subseteq ToSet(s.waiting[o])
  BY <1>0, <1>2, <1>3, Zenon DEF Switched, SameLists, Elapsed
<1>6. \A t \in Tasks : /\ call'[t].at = call[t].at /\ call'[t].op = call[t].op
                       /\ call'[t].after = call[t].after
  BY <1>4 DEF Alike
<1>7. Woken(o) \subseteq Woken(o)'
  BY <1>5, <1>6 DEF Woken
<1>8. s'.waiting[o] # <<>> => s.waiting[o] # <<>>
  BY <1>0, <1>5, <1>6, WokenKept
<1>9. (At("place") /\ call[me].op = o)' => At("place") /\ call[me].op = o
  <2>1. CASE s.suspended = 1
    <3>1. me' = me
      BY <1>2, <1>3, <2>1 DEF Switched, me
    <3> QED BY <1>0, <1>6, <3>1 DEF At
  <2>2. CASE s.suspended = 0
    <3>1. Suspension(s', call') /\ s'.suspended = 0
      BY <1>2, <1>3, <2>2 DEF Base, Sound, Switched, SameLists
    <3> QED BY <1>0, <3>1, PlacePlace DEF At, me
  <2> QED BY <1>0, <2>1, <2>2
<1>10. Credit(o)' = Credit(o) /\ q'.messages = q.messages
  BY <1>4 DEF Credit, Tally
<1> QED BY <1>7, <1>8, <1>9, <1>10, WakeKept

(* prvUnlockQueue wakes as many as were counted, or all that wait. *)
LEMMA UnlockWake ==
  ASSUME Typed, Base, Typed', NEW o \in EventLists, Wake(o),
         NEW count \in Nat, s' = WakeCounted(o, count), count = Credit(o), Credit(o)' = 0,
         q'.messages = q.messages,
         NEW c \in Records, call' = [call EXCEPT ![me] = c], call[me].at \in {"unlockTx", "unlockRx"},
         c.op = call[me].op, c.after = call[me].after, c.at \in {"unlockRx", "resume"}
  PROVE  Wake(o)'
<1>0. /\ me \in Tasks /\ call \in [Tasks -> Records] /\ s \in Schedulers /\ s' \in Schedulers
      /\ s.waiting \in [EventLists -> Seq(Tasks)] /\ s.waiting[o] \in Seq(Tasks)
      /\ Len(s.waiting[o]) \in Nat
  BY MeTyped DEF Typed
<1>1. PICK k : k = IF count <= Len(s.waiting[o]) THEN count ELSE Len(s.waiting[o])
  OBVIOUS
<1>2. k \in 0..Len(s.waiting[o]) /\ WokenFirst(o, k, s')
  BY <1>0, <1>1, WakeCountedFacts
<1>3. PICK a, b : a = SubSeq(s.waiting[o], 1, k) /\ b = SubSeq(s.waiting[o], k + 1, Len(s.waiting[o]))
  BY Zenon
<1>4. s'.waiting[o] = b /\ me' = me
  BY <1>0, <1>2, <1>3 DEF WokenFirst, me
<1>5. /\ a \in Seq(Tasks) /\ b \in Seq(Tasks) /\ Len(a) = k /\ Len(b) = Len(s.waiting[o]) - k
      /\ ToSet(s.waiting[o]) = ToSet(a) \cup ToSet(b)
      /\ IsInjective(a) /\ ToSet(a) \cap ToSet(b) = {}
  <2>1. IsInjective(s.waiting[o])
    BY DEF Base, Sound, Orderly, Apart
  <2> QED BY <1>0, <1>2, <1>3, <2>1, SplitFacts, SMTT(30)
<1>6. ToSet(a) \subseteq Tasks /\ Cardinality(ToSet(a)) = k
  BY <1>5, CountFacts, InToSet
<1>7. call'[me] = c /\ \A t \in Tasks \ {me} : call'[t] = call[t]
  BY <1>0
<1>8. ToSet(a) \cap Woken(o) = {}
  BY <1>5 DEF Woken
<1>9. ASSUME NEW t \in Tasks, t \in Woken(o) \/ t \in ToSet(a) PROVE t \in Woken(o)'
  <2>1. t \notin ToSet(s'.waiting[o])
    BY <1>4, <1>5, <1>9 DEF Woken
  <2>2. call[t].op = o /\ (t \in ToSet(a) => Parked(call[t]))
    BY <1>5, <1>9 DEF Woken, Base, Sound, Orderly, Queued
  <2>3. CASE t = me
    <3>1. call[me].after # "out"
      BY <1>9, <2>2, <2>3 DEF Woken, Parked
    <3> QED BY <1>7, <2>1, <2>2, <2>3, <3>1 DEF Woken
  <2>4. CASE t # me
    <3>1. call'[t] = call[t]
      BY <1>7, <2>4
    <3>2. \/ call[t].at \in {"top", "yield"}
          \/ call[t].at \in {"unlockTx", "unlockRx", "resume"} /\ call[t].after # "out"
      BY <1>9, <2>2 DEF Woken, Parked, Leaving
    <3> QED BY <2>1, <2>2, <3>1, <3>2 DEF Woken
  <2> QED BY <2>3, <2>4
<1>10. Woken(o) \subseteq Tasks /\ Wanted(o) \in Nat /\ Credit(o) \in Nat
  BY WokenTyped DEF WokenTypes
<1>11. Woken(o) \cup ToSet(a) \subseteq Woken(o)'
  BY <1>6, <1>9, <1>10
<1>12. ~At("place")'
  BY <1>4, <1>7 DEF At
<1>13. ASSUME s'.waiting[o] # <<>> PROVE s.waiting[o] # <<>> /\ Gained(o, ToSet(a))
  <2>1. k = count
    <3>1. CASE count <= Len(s.waiting[o])
      BY <1>1, <3>1
    <3>2. CASE ~(count <= Len(s.waiting[o]))
      <4>1. k = Len(s.waiting[o])
        BY <1>1, <3>2
      <4>2. Len(b) = 0
        BY <1>0, <1>5, <4>1
      <4> QED BY <1>4, <1>5, <1>13, <4>2
    <3> QED BY <3>1, <3>2
  <2>2. s.waiting[o] # <<>>
    <3>1. ToSet(b) # {} /\ ToSet(s.waiting[o]) # {}
      <4>1. b # <<>> /\ b \in Seq(Tasks)
        BY <1>4, <1>5, <1>13
      <4>2. ToSet(b) # {}
        BY <4>1, InToSet
      <4> QED BY <1>5, <4>2
    <3> QED BY <1>0, <3>1, InToSet
  <2>3. Wanted(o)' = Wanted(o)
    BY DEF Wanted
  <2>4. Wanted(o)' + Credit(o) <= Wanted(o) + Cardinality(ToSet(a)) + Credit(o)'
    BY <1>6, <1>10, <2>1, <2>3
  <2> QED BY <1>6, <1>8, <1>11, <2>2, <2>4 DEF Gained
<1> HIDE DEF Woken
<1> QED BY <1>12, <1>13, WakeGained

(* The head of an event list is handed what has come. *)
LEMMA HandedWake ==
  ASSUME Typed, Base, Typed', NEW o \in EventLists, NEW z \in Schedulers, z.waiting = s.waiting,
         Sound(z, call), Handed(z, o, s'),
         \A t \in Tasks \ {me} : call'[t] = call[t],
         call'[me] = call[me] \/ (call[me].op # o /\ me \notin ToSet(s.waiting[o])),
         Wanted(o)' = Wanted(o) + 1, Credit(o)' = Credit(o),
         s'.waiting[o] # <<>>
  PROVE  s.waiting[o] # <<>> /\ \E D : Gained(o, D)
<1>0. /\ me \in Tasks /\ call \in [Tasks -> Records] /\ s' \in Schedulers
      /\ s.waiting \in [EventLists -> Seq(Tasks)] /\ s.waiting[o] \in Seq(Tasks)
  BY MeTyped DEF Typed
<1>1. s.waiting[o] # <<>> /\ s'.waiting[o] = Tail(s.waiting[o])
  <2>1. s'.waiting = IF s.waiting[o] = <<>> THEN s.waiting
                     ELSE [s.waiting EXCEPT ![o] = Tail(s.waiting[o])]
    <3>1. Passed(z, o, s')
      BY HandedFacts
    <3> QED BY <3>1 DEF Passed
  <2> QED BY <1>0, <2>1
<1>2. PICK h, rest : h = Head(s.waiting[o]) /\ rest = Tail(s.waiting[o])
  BY Zenon
<1>3. /\ h \in Tasks /\ ToSet(s.waiting[o]) = {h} \cup ToSet(rest) /\ h \notin ToSet(rest)
  <2>1. IsInjective(s.waiting[o])
    BY DEF Base, Sound, Orderly, Apart
  <2> QED BY <1>0, <1>1, <1>2, <2>1, TailFacts
<1>4. call[h].op = o /\ Parked(call[h])
  BY <1>3 DEF Base, Sound, Orderly, Queued
<1>5. \/ call[h].at \in {"top", "yield"}
      \/ call[h].at \in {"unlockTx", "unlockRx", "resume"} /\ call[h].after # "out"
  BY <1>4 DEF Parked, Leaving
<1>6. call'[h] = call[h]
  BY <1>3, <1>4
<1>7. h \in Woken(o)' /\ h \notin Woken(o)
  BY <1>1, <1>2, <1>3, <1>4, <1>5, <1>6 DEF Woken
<1>8. Woken(o) \subseteq Woken(o)'
  <2> SUFFICES ASSUME NEW t \in Woken(o) PROVE t \in Woken(o)'
    OBVIOUS
  <2>1. t \in Tasks /\ call[t].op = o /\ t \notin ToSet(s'.waiting[o])
    BY <1>1, <1>2, <1>3 DEF Woken
  <2>2. call'[t] = call[t]
    BY <2>1
  <2> QED BY <2>1, <2>2 DEF Woken
<1>9. Wanted(o) \in Nat /\ Credit(o) \in Nat
  BY WokenTyped DEF WokenTypes
<1>10. Wanted(o)' + Credit(o) <= Wanted(o) + Cardinality({h}) + Credit(o)'
  <2>1. Cardinality({h}) = 1
    BY FS_Singleton, Zenon
  <2> QED BY <1>9, <2>1
<1>11. Gained(o, {h})
  BY <1>3, <1>7, <1>8, <1>10 DEF Gained
<1> QED BY <1>1, <1>11

(* A successful call keeps Wake: it takes what it was woken for, and *)
(* hands on what it makes room for.                                  *)
LEMMA TransferWake ==
  ASSUME Typed, Base, Holding, Typed', Base', Transfer, NEW o \in EventLists, Wake(o)
  PROVE  Wake(o)'
<1> DEFINE op == call[me].op
<1>0. /\ me \in Tasks /\ call \in [Tasks -> Records] /\ s' \in Schedulers /\ s \in Schedulers
      /\ s.waiting \in [EventLists -> Seq(Tasks)] /\ s'.waiting \in [EventLists -> Seq(Tasks)]
  BY MeTyped, Zenon DEF Typed, Schedulers
<1>1. /\ call[me].at = "top" /\ op \in EventLists /\ s.suspended = 0
      /\ call' = [call EXCEPT ![me] = NoCall]
      /\ q'.txLock = q.txLock /\ q'.rxLock = q.rxLock
      /\ q'.messages = IF op = "send" THEN q.messages + 1 ELSE q.messages - 1
      /\ Possible(op)
  BY TransferFacts
<1>2. PICK z : Transferred(z)
  BY TransferFacts
<1>3. /\ z \in Schedulers /\ Sound(z, call) /\ Passed(z, Other(op), s') /\ Handed(z, Other(op), s')
      /\ z.waiting = s.waiting /\ z.suspended = 0 /\ s'.suspended = 0
      /\ Other(op) \in EventLists /\ Other(op) # op /\ op \in {"send", "receive"}
  <2>1. Other(op) \in EventLists /\ Other(op) # op /\ op \in {"send", "receive"}
    BY <1>1 DEF Other, EventLists
  <2> QED BY <1>1, <1>2, <2>1 DEF Transferred, Reprioritised, Passed
<1>4. call'[me] = NoCall /\ \A t \in Tasks \ {me} : call'[t] = call[t]
  BY <1>0, <1>1
<1>5. Credit(o)' = Credit(o)
  BY <1>1 DEF Credit, Tally
<1>6. ~At("place")'
  <2>1. Suspension(s', call')
    BY DEF Base, Sound
  <2> QED BY <1>0, <1>3, <2>1, PlacePlace DEF At, me
<1>7. /\ Wanted(o) \in Nat /\ Credit(o) \in Nat /\ IsFiniteSet(Woken(o)) /\ IsFiniteSet(Woken(o)')
      /\ Cardinality(Woken(o)) \in Nat /\ Cardinality(Woken(o))' \in Nat
  BY WokenTyped, WokenTypedNext DEF WokenTypes
<1>8. q.messages \in Nat /\ QueueLength \in Nat
  BY QueueAssumption DEF Typed, Queues
<1>9. CASE o = op
  <2>1. Wanted(o)' = Wanted(o) - 1
    BY <1>1, <1>3, <1>8, <1>9 DEF Wanted
  <2>2. s'.waiting[o] = s.waiting[o]
    BY <1>0, <1>3, <1>9 DEF Passed
  <2>3. Woken(o) \ {me} \subseteq Woken(o)'
    BY <1>0, <1>4, <2>2, WokenKept, Zenon
  <2>4. Cardinality(Woken(o)) - 1 <= Cardinality(Woken(o) \ {me}) /\ IsFiniteSet(Woken(o) \ {me})
    <3>1. /\ IsFiniteSet(Woken(o) \ {me})
          /\ Cardinality(Woken(o) \ {me}) =
               IF me \in Woken(o) THEN Cardinality(Woken(o)) - 1 ELSE Cardinality(Woken(o))
      BY <1>7, FS_RemoveElement
    <3> QED BY <1>7, <3>1
  <2>5. Cardinality(Woken(o) \ {me}) <= Cardinality(Woken(o)') /\ Cardinality(Woken(o) \ {me}) \in Nat
    BY <1>7, <2>3, <2>4, FS_Subset, FS_CardinalityType
  <2>6. ASSUME s'.waiting[o] # <<>> PROVE Wanted(o)' <= Cardinality(Woken(o))' + Credit(o)'
    <3>1. Wanted(o) <= Cardinality(Woken(o)) + Credit(o)
      BY <2>2, <2>6 DEF Wake
    <3> QED BY <1>5, <1>7, <2>1, <2>4, <2>5, <3>1
  <2> QED BY <1>6, <2>6 DEF Wake
<1>10. CASE o = Other(op)
  <2>1. Wanted(o)' = Wanted(o) + 1
    BY <1>1, <1>3, <1>8, <1>10 DEF Wanted, Other
  <2>2. call[me].op # o /\ me \notin ToSet(s.waiting[o])
    BY <1>1, <1>3, <1>10, MeReady DEF At
  <2>3. Handed(z, o, s')
    BY <1>3, <1>10
  <2>4. s'.waiting[o] # <<>> => s.waiting[o] # <<>> /\ \E D : Gained(o, D)
    BY <1>1, <1>3, <1>4, <1>5, <2>1, <2>2, <2>3, HandedWake
  <2> QED BY <1>6, <2>4, WakeGained
<1> QED BY <1>3, <1>9, <1>10 DEF EventLists, Other

(* A device's handler keeps Wake: it wakes the head of the list, or *)
(* counts when the queue is locked.                                 *)
LEMMA DeviceWake ==
  ASSUME Typed, Base, Typed', NEW op \in EventLists, DeviceISR(op), NEW o \in EventLists, Wake(o)
  PROVE  Wake(o)'
<1> DEFINE lock == IF op = "send" THEN q.txLock ELSE q.rxLock
<1>0. /\ me \in Tasks /\ s' \in Schedulers /\ s \in Schedulers /\ me' \in Tasks
      /\ s.waiting \in [EventLists -> Seq(Tasks)] /\ s.suspended \in {0, 1}
  BY MeTyped, Zenon DEF Typed, Schedulers, me
<1>1. Interrupted(op)
  BY DeviceFacts
<1>2. /\ q'.messages = IF op = "send" THEN q.messages + 1 ELSE q.messages - 1
      /\ q'.txLock = IF op = "send" /\ q.txLock >= 0 THEN q.txLock + 1 ELSE q.txLock
      /\ q'.rxLock = IF op = "receive" /\ q.rxLock >= 0 THEN q.rxLock + 1 ELSE q.rxLock
  BY <1>1, InterruptedQueue
<1>3. call' = call /\ ((lock = -1 /\ Handed(s, Other(op), s')) \/ (lock >= 0 /\ s' = s))
  BY <1>1 DEF Interrupted
<1>4. Other(op) \in EventLists /\ Other(op) # op /\ op \in {"send", "receive"}
  BY DEF Other, EventLists
<1>5. /\ q.messages \in Nat /\ QueueLength \in Nat /\ q.txLock \in Int /\ q.rxLock \in Int
      /\ q.txLock >= -1 /\ q.rxLock >= -1
  BY QueueAssumption DEF Typed, Queues
<1>6. /\ Wanted(o) \in Nat /\ Credit(o) \in Nat /\ IsFiniteSet(Woken(o)) /\ IsFiniteSet(Woken(o)')
      /\ Cardinality(Woken(o)) \in Nat /\ Cardinality(Woken(o))' \in Nat
      /\ Credit(o)' \in Nat
  BY WokenTyped, WokenTypedNext DEF WokenTypes
<1>7. (At("place") /\ call[me].op = o)' => At("place") /\ call[me].op = o /\ lock >= 0
  <2> SUFFICES ASSUME (At("place") /\ call[me].op = o)' PROVE At("place") /\ call[me].op = o /\ lock >= 0
    OBVIOUS
  <2>1. call[me'].at = "place" /\ call[me'].op = o
    BY <1>3 DEF At
  <2>2. me' = me
    BY <1>0, <2>1 DEF Base, Sound, Suspension, Suspending, me
  <2>3. q.txLock >= 0 /\ q.rxLock >= 0
    BY <2>1, <2>2 DEF Base, Locks, TxHeld, RxHeld
  <2> QED BY <2>1, <2>2, <2>3 DEF At
<1>8. CASE o = op
  <2>1. Wanted(o)' = Wanted(o) - 1
    BY <1>2, <1>4, <1>5, <1>8 DEF Wanted
  <2>2. s'.waiting[o] = s.waiting[o]
    <3>1. CASE s' = s
      BY <3>1
    <3>2. CASE Handed(s, Other(op), s')
      <4>1. Passed(s, Other(op), s')
        BY <1>0, <1>4, <3>2, HandedFacts, Zenon
      <4>2. o # Other(op)
        BY <1>4, <1>8
      <4> QED BY <1>0, <4>1, <4>2 DEF Passed
    <3> QED BY <1>3, <3>1, <3>2
  <2>3. Woken(o)' = Woken(o)
    BY <1>3, <2>2 DEF Woken
  <2>4. Credit(o)' = Credit(o)
    BY <1>2, <1>4, <1>8 DEF Credit, Tally
  <2>5. ASSUME s'.waiting[o] # <<>> PROVE Wanted(o)' <= Cardinality(Woken(o))' + Credit(o)'
    <3>1. Wanted(o) <= Cardinality(Woken(o)) + Credit(o)
      BY <2>2, <2>5 DEF Wake
    <3> QED BY <1>6, <2>1, <2>3, <2>4, <3>1
  <2>6. ASSUME (At("place") /\ call[me].op = o)' PROVE Wanted(o)' <= Credit(o)'
    <3>1. Wanted(o) <= Credit(o)
      BY <1>7, <2>6 DEF Wake
    <3> QED BY <1>6, <2>1, <2>4, <3>1
  <2> QED BY <2>5, <2>6 DEF Wake
<1>9. CASE o = Other(op)
  <2>1. Wanted(o)' = Wanted(o) + 1
    BY <1>2, <1>4, <1>5, <1>9 DEF Wanted, Other
  <2>2. Tally(o) = lock
    BY <1>4, <1>9 DEF Tally, Other
  <2>3. CASE lock = -1
    <3>1. Credit(o)' = Credit(o)
      BY <1>2, <1>4, <1>9, <2>3 DEF Credit, Tally, Other
    <3>3. Handed(s, o, s')
      BY <1>3, <1>9, <2>3
    <3>4. ~At("place")' \/ call'[me'].op # o
      BY <1>7, <2>3
    <3>5. s'.waiting[o] # <<>> => s.waiting[o] # <<>> /\ \E D : Gained(o, D)
      <4>1. Sound(s, call)
        BY DEF Base
      <4> QED BY <1>0, <1>3, <2>1, <3>1, <3>3, <4>1, HandedWake
    <3> QED BY <3>4, <3>5, WakeGained
  <2>4. CASE lock >= 0
    <3>1. s' = s /\ call' = call
      BY <1>3, <1>5, <2>4
    <3>2. Woken(o)' = Woken(o)
      BY <3>1 DEF Woken
    <3>3. Credit(o)' = Credit(o) + 1
      BY <1>2, <1>4, <1>5, <1>9, <2>4 DEF Credit, Tally, Other
    <3>4. ASSUME s'.waiting[o] # <<>> PROVE Wanted(o)' <= Cardinality(Woken(o))' + Credit(o)'
      <4>1. Wanted(o) <= Cardinality(Woken(o)) + Credit(o)
        BY <3>1, <3>4 DEF Wake
      <4> QED BY <1>6, <2>1, <3>2, <3>3, <4>1
    <3>5. ASSUME (At("place") /\ call[me].op = o)' PROVE Wanted(o)' <= Credit(o)'
      <4>1. Wanted(o) <= Credit(o)
        BY <1>7, <3>5 DEF Wake
      <4> QED BY <1>6, <2>1, <3>3, <4>1
    <3> QED BY <3>4, <3>5 DEF Wake
  <2> QED BY <1>3, <2>3, <2>4
<1> QED BY <1>4, <1>8, <1>9 DEF EventLists, Other

(* The other steps of a call keep Wake: who gives up waiting or goes to *)
(* suspend the scheduler found nothing wanted.                          *)
LEMMA CallWake ==
  ASSUME Typed, Base, Holding, Typed', NEW o \in EventLists, Wake(o),
         \/ \E op \in EventLists, n \in BlockTimes : Begin(op, n)
         \/ \E n \in Delays : BeginDelay(n)
         \/ vTaskDelay \/ Fail \/ vTaskSetTimeOutState \/ vTaskSuspendAll
         \/ prvLockQueue \/ xTaskCheckForTimeOut \/ Retest
  PROVE  Wake(o)'
<1>1. me \in Tasks /\ call \in [Tasks -> Records] /\ s \in Schedulers /\ call[me] \in Records
      /\ q \in Queues
  BY MeTyped DEF Typed
<1>2. Wanted(o) \in Nat /\ (~Possible(o) => Wanted(o) = 0)
  BY WokenTyped DEF WokenTypes
<1>3. ASSUME q' = q PROVE q'.messages = q.messages /\ Credit(o)' = Credit(o)
  BY <1>3 DEF Credit, Tally
<1>4. ASSUME NEW place, place \notin {"top", "yield", "unlockTx", "unlockRx", "resume"}, call[me].at = place
      PROVE  me \notin Woken(o)
  BY <1>4 DEF Woken
<1>5. ASSUME NEW op \in EventLists, NEW n \in BlockTimes, Begin(op, n) PROVE Wake(o)'
  <2>1. PICK c : c = [NoCall EXCEPT !.at = "top", !.op = op, !.wait = n, !.limit = n]
    OBVIOUS
  <2>2. call[me].at = "out" /\ q' = q /\ s' = s /\ call' = [call EXCEPT ![me] = c] /\ c.at = "top"
    BY <1>5, <2>1, Zenon DEF Begin, At, NoCall
  <2> QED BY <1>3, <1>4, <2>2, OneCallWake, Zenon
<1>6. ASSUME NEW n \in Delays, BeginDelay(n) PROVE Wake(o)'
  <2>1. PICK c : c = [NoCall EXCEPT !.op = "delay", !.wait = n,
                                    !.at = IF n > 0 THEN "delay" ELSE "yield"]
    OBVIOUS
  <2>2. call[me].at = "out" /\ q' = q /\ (s' = s \/ s' = [s EXCEPT !.suspended = 1])
        /\ call' = [call EXCEPT ![me] = c]
    BY <1>6, <2>1, Zenon DEF BeginDelay, At
  <2>3. c.op = "delay"
    BY <2>1 DEF NoCall
  <2>4. s' = s \/ Suspended(s, s')
    BY <1>1, <2>2, SuspendFacts
  <2> QED BY <1>3, <1>4, <2>2, <2>3, <2>4, OneCallWake, Zenon DEF EventLists
<1>7. CASE vTaskDelay
  <2>1. PICK c : c = [call[me] EXCEPT !.at = "resume", !.after = "yield"]
    OBVIOUS
  <2>2. /\ call[me].at = "delay" /\ q' = q /\ call[me].wait \in 0..portMAX_DELAY
        /\ s' = Delay(s, call[me].wait) /\ call' = [call EXCEPT ![me] = c] /\ c.at = "resume"
    BY <1>1, <1>7, <2>1, Zenon DEF vTaskDelay, Records, At
  <2>3. Delayed(s, call[me].wait, s')
    BY <1>1, <2>2, DelayFacts
  <2> QED BY <1>3, <1>4, <2>2, <2>3, OneCallWake, Zenon
<1>8. CASE Fail
  <2>1. ~Possible(call[me].op) /\ q' = q /\ s' = s /\ call' = [call EXCEPT ![me] = NoCall]
    BY <1>8 DEF Fail, Return
  <2>2. me \notin Woken(o) \/ Wanted(o) = 0
    BY <1>2, <2>1 DEF Woken
  <2>3. NoCall.at # "place"
    BY DEF NoCall
  <2> QED BY <1>3, <2>1, <2>2, <2>3, OneCallWake, Zenon
<1>9. CASE vTaskSetTimeOutState
  <2>1. PICK c : c = [call[me] EXCEPT !.at = "suspend", !.entrySet = 1,
                        !.entering = IF call[me].entrySet = 0 THEN s.tick ELSE @]
    OBVIOUS
  <2>2. /\ ~Possible(call[me].op) /\ q' = q /\ s' = s /\ call' = [call EXCEPT ![me] = c]
        /\ c.at = "suspend"
    BY <1>1, <1>9, <2>1, Zenon DEF vTaskSetTimeOutState, Records
  <2>3. me \notin Woken(o) \/ Wanted(o) = 0
    BY <1>2, <2>2 DEF Woken
  <2> QED BY <1>3, <2>2, <2>3, OneCallWake, Zenon
<1>10. CASE vTaskSuspendAll
  <2>1. PICK c : c = [call[me] EXCEPT !.at = "lock"]
    BY Zenon
  <2>2. /\ call[me].at = "suspend" /\ q' = q /\ s' = [s EXCEPT !.suspended = 1]
        /\ call' = [call EXCEPT ![me] = c] /\ c.at = "lock"
    BY <1>1, <1>10, <2>1 DEF vTaskSuspendAll, Goto, Records, At
  <2>3. Suspended(s, s')
    BY <1>1, <2>2, SuspendFacts
  <2> QED BY <1>3, <1>4, <2>2, <2>3, OneCallWake, Zenon
<1>11. CASE prvLockQueue
  <2>1. PICK c : c = [call[me] EXCEPT !.at = "check"]
    BY Zenon
  <2>2. /\ call[me].at = "lock" /\ s' = s /\ call' = [call EXCEPT ![me] = c] /\ c.at = "check"
        /\ q' = [q EXCEPT !.rxLock = IF @ = -1 THEN 0 ELSE @, !.txLock = IF @ = -1 THEN 0 ELSE @]
    BY <1>1, <1>11, <2>1 DEF prvLockQueue, Goto, Records, At
  <2>3. /\ q'.messages = q.messages
        /\ q'.rxLock = (IF q.rxLock = -1 THEN 0 ELSE q.rxLock)
        /\ q'.txLock = (IF q.txLock = -1 THEN 0 ELSE q.txLock)
    BY <1>1, <2>2 DEF Queues
  <2>4. Credit(o)' = Credit(o)
    BY <2>3 DEF Credit, Tally
  <2> QED BY <1>4, <2>2, <2>3, <2>4, OneCallWake, Zenon
<1>12. CASE xTaskCheckForTimeOut
  <2>1. PICK c \in Records : Checked(c)
    BY <1>12, CheckFacts
  <2>2. /\ call[me].at = "check" /\ s' = s /\ q' = q /\ call' = [call EXCEPT ![me] = c]
        /\ c.at \in {"test", "unlockTx"}
    BY <1>1, <2>1, Zenon DEF Checked, At, Records
  <2> QED BY <1>3, <1>4, <2>2, OneCallWake, Zenon
<1>13. CASE Retest
  <2>1. call[me].at = "test" /\ s' = s /\ q' = q
    BY <1>13 DEF Retest, At
  <2>2. CASE Possible(call[me].op)
    <3>1. PICK c : c = [call[me] EXCEPT !.at = "unlockTx", !.after = "top"]
      OBVIOUS
    <3>2. call' = [call EXCEPT ![me] = c] /\ c.at = "unlockTx"
      BY <1>1, <1>13, <2>2, <3>1, Zenon DEF Retest, Records
    <3> QED BY <1>3, <1>4, <2>1, <3>2, OneCallWake, Zenon
  <2>3. CASE ~Possible(call[me].op)
    <3>1. PICK c : c = [call[me] EXCEPT !.at = "place"]
      BY Zenon
    <3>2. call' = [call EXCEPT ![me] = c] /\ c.op = call[me].op
      BY <1>1, <1>13, <2>3, <3>1 DEF Retest, Goto, Records
    <3>3. c.op = o => Wanted(o) = 0
      BY <1>2, <2>3, <3>2
    <3> QED BY <1>3, <1>4, <2>1, <3>2, <3>3, OneCallWake, Zenon
  <2> QED BY <2>2, <2>3
<1> QED BY <1>5, <1>6, <1>7, <1>8, <1>9, <1>10, <1>11, <1>12, <1>13

(* Unlocking the queue keeps Wake, for either list. *)
LEMMA UnlocksWake ==
  ASSUME Typed, Base, Typed', NEW o \in EventLists, Wake(o), UnlockTx \/ UnlockRx
  PROVE  Wake(o)'
<1>1. me \in Tasks /\ call \in [Tasks -> Records] /\ s \in Schedulers /\ call[me] \in Records
      /\ q \in Queues
  BY MeTyped DEF Typed
<1>2. q.txLock \in Int /\ q.rxLock \in Int /\ q.txLock >= -1 /\ q.rxLock >= -1
  BY <1>1, QueueAssumption DEF Queues
<1>3. CASE UnlockTx
  <2>1. PICK c : c = [call[me] EXCEPT !.at = "unlockRx"]
    BY Zenon
  <2>2. /\ call[me].at = "unlockTx" /\ s' = WakeCounted("receive", q.txLock)
        /\ call' = [call EXCEPT ![me] = c] /\ q' = [q EXCEPT !.txLock = -1]
    BY <1>3, <2>1 DEF UnlockTx, Goto, At
  <2>3. c.at = "unlockRx" /\ c.op = call[me].op /\ c.after = call[me].after /\ c \in Records
    BY <1>1, <2>1 DEF Records
  <2>4. q'.messages = q.messages /\ q'.txLock = -1 /\ q'.rxLock = q.rxLock
    BY <1>1, <2>2 DEF Queues
  <2>5. q.txLock \in Nat
    BY <1>2, <2>2 DEF Base, Locks, TxHeld
  <2>6. CASE o = "receive"
    <3>1. q.txLock = Credit(o) /\ Credit(o)' = 0
      BY <2>4, <2>5, <2>6 DEF Credit, Tally
    <3> QED BY <2>2, <2>3, <2>4, <2>5, <2>6, <3>1, UnlockWake, Zenon
  <2>7. CASE o = "send"
    <3>1. Credit(o)' = Credit(o)
      BY <2>4, <2>7 DEF Credit, Tally
    <3>2. \E l \in EventLists, k \in Nat : l # o /\ WokenFirst(l, k, s') /\ k <= Len(s.waiting[l])
      <4>1. \E k \in Nat : WokenFirst("receive", k, s') /\ k <= Len(s.waiting["receive"])
        BY <1>1, <2>2, <2>5, WakeCountedFacts DEF EventLists
      <4> QED BY <2>7, <4>1 DEF EventLists
    <3>3. me \notin Woken(o) \/ me \in Woken(o)'
      <4>1. s'.waiting[o] = s.waiting[o]
        BY <1>1, <3>2 DEF WokenFirst, Schedulers
      <4>2. call'[me] = c
        BY <1>1, <2>2
      <4> QED BY <2>2, <2>3, <4>1, <4>2 DEF Woken
    <3> QED BY <2>2, <2>3, <2>4, <3>1, <3>2, <3>3, OneCallWake, Zenon
  <2> QED BY <2>6, <2>7 DEF EventLists
<1>4. CASE UnlockRx
  <2>1. PICK c : c = [call[me] EXCEPT !.at = "resume"]
    BY Zenon
  <2>2. /\ call[me].at = "unlockRx" /\ s' = WakeCounted("send", q.rxLock)
        /\ call' = [call EXCEPT ![me] = c] /\ q' = [q EXCEPT !.rxLock = -1]
    BY <1>4, <2>1 DEF UnlockRx, Goto, At
  <2>3. c.at = "resume" /\ c.op = call[me].op /\ c.after = call[me].after /\ c \in Records
    BY <1>1, <2>1 DEF Records
  <2>4. q'.messages = q.messages /\ q'.rxLock = -1 /\ q'.txLock = q.txLock
    BY <1>1, <2>2 DEF Queues
  <2>5. q.rxLock \in Nat
    BY <1>2, <2>2 DEF Base, Locks, RxHeld
  <2>6. CASE o = "send"
    <3>1. q.rxLock = Credit(o) /\ Credit(o)' = 0
      BY <2>4, <2>5, <2>6 DEF Credit, Tally
    <3> QED BY <2>2, <2>3, <2>4, <2>5, <2>6, <3>1, UnlockWake, Zenon
  <2>7. CASE o = "receive"
    <3>1. Credit(o)' = Credit(o)
      BY <2>4, <2>7 DEF Credit, Tally
    <3>2. \E l \in EventLists, k \in Nat : l # o /\ WokenFirst(l, k, s') /\ k <= Len(s.waiting[l])
      <4>1. \E k \in Nat : WokenFirst("send", k, s') /\ k <= Len(s.waiting["send"])
        BY <1>1, <2>2, <2>5, WakeCountedFacts DEF EventLists
      <4> QED BY <2>7, <4>1 DEF EventLists
    <3>3. me \notin Woken(o) \/ me \in Woken(o)'
      <4>1. s'.waiting[o] = s.waiting[o]
        BY <1>1, <3>2 DEF WokenFirst, Schedulers
      <4>2. call'[me] = c
        BY <1>1, <2>2
      <4> QED BY <2>2, <2>3, <4>1, <4>2 DEF Woken
    <3> QED BY <2>2, <2>3, <2>4, <3>1, <3>2, <3>3, OneCallWake, Zenon
  <2> QED BY <2>6, <2>7 DEF EventLists
<1> QED BY <1>3, <1>4

(* Every step keeps Wake for both lists. *)
LEMMA NextWakes == Inv /\ Wakes /\ [Next]_vars => Wakes'
<1> SUFFICES ASSUME Inv, Wakes, [Next]_vars, NEW o \in EventLists PROVE Wake(o)'
  BY DEF Wakes
<1>0. Typed /\ Base /\ Holding /\ Typed' /\ Base' /\ Wake(o)
  BY NextInv DEF Inv, Wakes
<1>1. CASE \/ \E op \in EventLists, n \in BlockTimes : Begin(op, n)
           \/ \E n \in Delays : BeginDelay(n)
           \/ vTaskDelay \/ Fail \/ vTaskSetTimeOutState \/ vTaskSuspendAll
           \/ prvLockQueue \/ xTaskCheckForTimeOut \/ Retest
  BY <1>0, <1>1, CallWake
<1>2. CASE Transfer
  BY <1>0, <1>2, TransferWake
<1>3. CASE Place
  BY <1>0, <1>3, PlaceWake
<1>4. CASE UnlockTx \/ UnlockRx
  BY <1>0, <1>4, UnlocksWake
<1>5. CASE xTaskResumeAll
  BY <1>0, <1>5, ResumeWake
<1>6. CASE portYIELD
  BY <1>0, <1>6, YieldWake
<1>7. CASE vTickISR
  BY <1>0, <1>7, TickWake
<1>8. ASSUME NEW op \in EventLists, DeviceISR(op) PROVE Wake(o)'
  BY <1>0, <1>8, DeviceWake
<1>9. CASE UNCHANGED vars
  BY <1>0, <1>9 DEF vars, Wake, Wanted, Credit, Tally, Woken, At, me
<1> QED BY <1>1, <1>2, <1>3, <1>4, <1>5, <1>6, <1>7, <1>8, <1>9
        DEF Next, xQueueGenericSendFromISR, xQueueReceiveFromISR, EventLists

(* No wake-up is lost between looking at the queue and going on the event *)
(* list, whatever handlers do in between (NoLostWakeup).                  *)
THEOREM NoWakeupLost == Spec => []NoLostWakeup
<1>1. Init => Wakes
  <2> SUFFICES ASSUME Init, NEW o \in EventLists PROVE Wake(o)
    BY DEF Wakes
  <2>1. s.waiting = [l \in EventLists |-> <<>>] /\ call = [t \in Tasks |-> NoCall] /\ me \in Tasks
    BY StartedFacts DEF Init, me, Schedulers
  <2>2. ~At("place")
    BY <2>1 DEF At, NoCall
  <2> QED BY <2>1, <2>2 DEF Wake
<1>2. Inv /\ Wakes => NoLostWakeup
  <2> SUFFICES ASSUME Inv, Wakes PROVE NoLostWakeup
    OBVIOUS
  <2>1. Wake("receive") /\ Wake("send")
    BY DEF Wakes, EventLists
  <2>2. Cardinality(Woken("receive")) \in Nat /\ Cardinality(Woken("send")) \in Nat
    BY WokenTyped DEF WokenTypes, EventLists, Inv
  <2> QED BY <2>1, <2>2 DEF Wake, Wanted, Credit, Tally, NoLostWakeup
<1> QED BY <1>1, <1>2, NextWakes, Invariance, PTL DEF Spec

-----------------------------------------------------------------------------
(* Nobody gives up early, and nobody sleeps on when the time is over.      *)

(* Ticks since xTimeOnEntering, of a call that is not stalled. *)
Since(z, c) == z.tick - c.entering + (IF c.wrapped = 1 THEN TickModulus ELSE 0)

(* The ticks of a call so far: those that were taken off xTicksToWait,     *)
(* those since, and those the scheduler missed.                            *)
Spent(z, c) == c.limit - c.wait + Since(z, c) + z.missedTicks

(* A call that still means to wait has waited for what it has spent, up to *)
(* its limit; its task, when asleep, has the rest left to sleep; and a     *)
(* call only gives up when all is spent.                                   *)
TimeOK(z, c, t) ==
  c.op \in EventLists =>
    /\ c.wait <= c.limit
    /\ c.entrySet = 0 => /\ c.at = "top" /\ c.waited = 0 /\ c.wrapped = 0 /\ c.stalled = 0
                         /\ c.wait = c.limit
    /\ c.limit < portMAX_DELAY /\ c.stalled = 0 =>
         /\ c.entrySet = 1 =>
              /\ Since(z, c) >= 0
              /\ c.waited = IF Spent(z, c) <= c.limit THEN Spent(z, c) ELSE c.limit
              /\ c.at \in {"test", "place"} => c.entering = z.tick /\ c.wrapped = 0
         /\ t \in Asleep(z) => c.entrySet = 1 /\ Left(z, t) = c.wait - Since(z, c)
         /\ c.at \in Leaving /\ c.after = "out" => c.waited >= c.limit

Times == \A t \in Tasks : TimeOK(s, call[t], t)

(* No time has passed, and nobody but the tasks of T fell asleep. *)
Still(z, r, T) ==
  /\ r.tick = z.tick /\ r.missedTicks = z.missedTicks
  /\ \A t \in Asleep(r) \ T : t \in Asleep(z) /\ Left(r, t) = Left(z, t)

(* What the scheduler's operators do to sleeping tasks, no tick being *)
(* involved.                                                          *)
LEMMA StillFacts ==
  ASSUME NEW z \in Schedulers, NEW r \in Schedulers
  PROVE  /\ Still(z, z, {})
         /\ SamePlaces(z, r) /\ r.missedTicks = z.missedTicks => Still(z, r, {})
         /\ SameLists(z, r) => Still(z, r, {})
         /\ \A ticks : Delayed(z, ticks, r) => Still(z, r, {z.current})
         /\ \A l, ticks : Placed(z, l, ticks, r) => Still(z, r, {z.current})
         /\ \A h, p : Tidy(z) /\ Reprioritised(z, h, p, r) => Still(z, r, {})
         /\ \A l : Removed(z, l, r) => Still(z, r, {})
<1>0. /\ z.wake \in [Tasks -> 0..portMAX_DELAY] /\ z.delayed \in Seq(Tasks) /\ z.overflow \in Seq(Tasks)
      /\ r.delayed \in Seq(Tasks) /\ r.overflow \in Seq(Tasks) /\ r.wake \in [Tasks -> 0..portMAX_DELAY]
      /\ z.suspended \in {0, 1} /\ z.current \in Tasks
  BY Zenon DEF Schedulers
<1>01. \A t : (t \in Asleep(r) => t \in Tasks) /\ (t \in Asleep(z) => t \in Tasks)
  BY <1>0, InToSet DEF Asleep
<1>1. Still(z, z, {})
  BY DEF Still
<1>2. SamePlaces(z, r) /\ r.missedTicks = z.missedTicks => Still(z, r, {})
  BY SamePlacesFacts DEF SamePlaces, Still
<1>3. SameLists(z, r) => Still(z, r, {})
  BY DEF SameLists, Still, Asleep, Left
<1>4. ASSUME NEW ticks, Delayed(z, ticks, r) PROVE Still(z, r, {z.current})
  <2>1. /\ r.tick = z.tick /\ r.missedTicks = z.missedTicks
        /\ \A t \in Tasks \ {z.current} : /\ r.wake[t] = z.wake[t]
                                          /\ (t \in ToSet(r.delayed) <=> t \in ToSet(z.delayed))
                                          /\ (t \in ToSet(r.overflow) <=> t \in ToSet(z.overflow))
    BY <1>0, <1>4 DEF Delayed, SameRest
  <2> QED BY <1>01, <2>1 DEF Still, Asleep, Left
<1>5. ASSUME NEW l, NEW ticks, Placed(z, l, ticks, r) PROVE Still(z, r, {z.current})
  <2>1. /\ r.tick = z.tick /\ r.missedTicks = z.missedTicks
        /\ \A t \in Tasks \ {z.current} : /\ r.wake[t] = z.wake[t]
                                          /\ (t \in ToSet(r.delayed) <=> t \in ToSet(z.delayed))
                                          /\ (t \in ToSet(r.overflow) <=> t \in ToSet(z.overflow))
    <3>1. CASE ticks = portMAX_DELAY
      BY <1>0, <1>5, <3>1 DEF Placed, SameState
    <3>2. CASE ticks # portMAX_DELAY
      BY <1>0, <1>5, <3>2 DEF Placed, SameState
    <3> QED BY <3>1, <3>2
  <2> QED BY <1>01, <2>1 DEF Still, Asleep, Left
<1>6. ASSUME NEW h, NEW p, Tidy(z), Reprioritised(z, h, p, r) PROVE Still(z, r, {})
  <2>1. Ready(z) \cap Asleep(z) = {}
    BY <1>6 DEF Tidy, Asleep
  <2>2. \A t \in Asleep(z) : r.wake[t] = z.wake[t]
    BY <1>01, <1>6, <2>1 DEF Reprioritised
  <2>3. Asleep(r) = Asleep(z) /\ ToSet(r.delayed) = ToSet(z.delayed)
        /\ r.tick = z.tick /\ r.missedTicks = z.missedTicks
    BY <1>6 DEF Reprioritised, Asleep
  <2> QED BY <2>2, <2>3 DEF Still, Left
<1>7. ASSUME NEW l, Removed(z, l, r) PROVE Still(z, r, {})
  <2>1. r.tick = z.tick /\ r.missedTicks = z.missedTicks
    BY <1>7 DEF Removed, SameState
  <2>2. CASE z.suspended = 0
    <3>1. PICK h : h = Head(z.waiting[l])
      OBVIOUS
    <3>2. /\ ToSet(r.delayed) = ToSet(z.delayed) \ {h} /\ ToSet(r.overflow) = ToSet(z.overflow) \ {h}
          /\ r.wake = [z.wake EXCEPT ![h] = 0]
      BY <1>7, <2>2, <3>1 DEF Removed
    <3> QED BY <1>0, <1>01, <2>1, <3>2 DEF Still, Asleep, Left
  <2>3. CASE z.suspended = 1
    BY <1>7, <2>1, <2>3 DEF Removed, Still, Asleep, Left
  <2> QED BY <1>0, <2>2, <2>3
<1> QED BY <1>1, <1>2, <1>3, <1>4, <1>5, <1>6, <1>7

(* Two such steps in a row. *)
LEMMA StillTrans ==
  ASSUME NEW z, NEW r, NEW u, NEW T, Still(z, r, T), Still(r, u, T)
  PROVE  Still(z, u, T)
BY DEF Still

(* Handing over to the head of an event list is one of them. *)
LEMMA HandedStill ==
  ASSUME NEW z \in Schedulers, NEW l, NEW w \in Schedulers, Handed(z, l, w)
  PROVE  Still(z, w, {})
<1>1. CASE w = z
  BY <1>1, StillFacts, Zenon
<1>2. CASE w # z
  <2>1. PICK r \in Schedulers : Removed(z, l, r) /\ (Switched(r, w) \/ w = r)
    BY <1>2 DEF Handed
  <2>2. Still(z, r, {})
    BY <2>1, StillFacts, Zenon
  <2>3. Still(r, w, {})
    BY <2>1, StillFacts, Zenon DEF Switched
  <2> QED BY <2>2, <2>3, StillTrans
<1> QED BY <1>1, <1>2

(* TimeOK survives a step that does not touch the call's clock. *)
LEMMA TimeKept ==
  ASSUME NEW z, NEW r, NEW T, Still(z, r, T), NEW t, NEW c, NEW d, TimeOK(z, c, t), 
         t \notin T \/ t \notin Asleep(r),
         /\ d.op = c.op /\ d.wait = c.wait /\ d.limit = c.limit /\ d.entrySet = c.entrySet
         /\ d.entering = c.entering /\ d.wrapped = c.wrapped /\ d.waited = c.waited
         /\ d.stalled = c.stalled,
         \/ d.at = c.at /\ d.after = c.after
         \/ /\ d.entrySet = 1 \/ d.at = "top"
            /\ d.at \in {"test", "place"} => c.at \in {"test", "place"}
            /\ d.at \in Leaving /\ d.after = "out" => c.at \in Leaving /\ c.after = "out"
  PROVE  TimeOK(r, d, t)
<1>1. r.tick = z.tick /\ r.missedTicks = z.missedTicks
      /\ (t \in Asleep(r) => t \in Asleep(z) /\ Left(r, t) = Left(z, t))
  BY DEF Still
<1>2. Since(r, d) = Since(z, c) /\ Spent(r, d) = Spent(z, c)
  BY <1>1 DEF Since, Spent
<1>3. SUFFICES ASSUME d.op \in EventLists PROVE TimeOK(r, d, t)
  BY DEF TimeOK
<1>4. d.entrySet = 0 => d.at = "top"
  BY <1>3 DEF TimeOK
<1> QED BY <1>1, <1>2, <1>3, <1>4 DEF TimeOK

(* It is enough to look at the running task when only that one may fall *)
(* asleep.                                                              *)
LEMMA TimesKept ==
  ASSUME Typed, Times, NEW T, Still(s, s', T), T \subseteq {me},
         \A t \in Tasks \ {me} : call'[t] = call[t],
         TimeOK(s', call'[me], me)
  PROVE  Times'
<1>1. ASSUME NEW t \in Tasks PROVE TimeOK(s', call'[t], t)
  <2>1. CASE t = me
    BY <2>1
  <2>2. CASE t # me
    <3>1. TimeOK(s, call[t], t) /\ t \notin T /\ call'[t] = call[t]
      BY <2>2 DEF Times
    <3> QED BY <3>1, TimeKept
  <2> QED BY <2>1, <2>2
<1> QED BY <1>1 DEF Times

(* Counting back and around. *)
LEMMA DifferenceFacts ==
  ASSUME NEW a \in 0..portMAX_DELAY, NEW b \in 0..portMAX_DELAY
  PROVE  /\ (a - b) % TickModulus = IF a >= b THEN a - b ELSE a - b + TickModulus
         /\ (a - b) % TickModulus \in 0..portMAX_DELAY
BY DelayRange

(* The types of what TimeOK computes with. *)
LEMMA RecordFacts ==
  ASSUME NEW c \in Records
  PROVE  /\ c.wait \in 0..portMAX_DELAY /\ c.limit \in 0..portMAX_DELAY
         /\ c.waited \in 0..portMAX_DELAY /\ c.entering \in 0..portMAX_DELAY
         /\ c.wrapped \in {0, 1} /\ c.stalled \in {0, 1} /\ c.entrySet \in {0, 1}
         /\ portMAX_DELAY \in Nat /\ TickModulus \in Nat /\ TickModulus = portMAX_DELAY + 1
         /\ TickModulus > 2
         /\ \A z \in Schedulers : Since(z, c) \in Int /\ Spent(z, c) \in Int
                                  /\ z.tick \in 0..portMAX_DELAY /\ z.missedTicks \in Nat
<1>1. /\ c.wait \in 0..portMAX_DELAY /\ c.limit \in 0..portMAX_DELAY
      /\ c.waited \in 0..portMAX_DELAY /\ c.entering \in 0..portMAX_DELAY
      /\ c.wrapped \in {0, 1} /\ c.stalled \in {0, 1} /\ c.entrySet \in {0, 1}
  BY DEF Records
<1>2. /\ portMAX_DELAY \in Nat /\ TickModulus \in Nat /\ TickModulus = portMAX_DELAY + 1
      /\ TickModulus > 2
  BY TicksAssumption DEF portMAX_DELAY
<1>3. ASSUME NEW z \in Schedulers
      PROVE  Since(z, c) \in Int /\ Spent(z, c) \in Int /\ z.tick \in 0..portMAX_DELAY
             /\ z.missedTicks \in Nat
  <2>1. z.tick \in 0..portMAX_DELAY /\ z.missedTicks \in Nat
    BY DEF Schedulers
  <2>2. Since(z, c) \in Int
    BY <1>1, <1>2, <2>1 DEF Since
  <2> QED BY <1>1, <2>1, <2>2 DEF Spent
<1> QED BY <1>1, <1>2, <1>3

(* A running task that is in no list of waiters is not asleep. *)
LEMMA MeAwake ==
  ASSUME Typed, Base, ~Parked(call[me]) \/ At("top")
  PROVE  me \notin Asleep(s)
<1>1. me \in Ready(s)
  BY MeReady
<1> QED BY <1>1 DEF Base, Sound, Orderly, Lists, Tidy, Asleep

(* The first look at the clock keeps Times. *)
LEMMA SetTimeOutTimes ==
  ASSUME Typed, Base, Times, vTaskSetTimeOutState PROVE Times'
<1>0. /\ me \in Tasks /\ call \in [Tasks -> Records] /\ s \in Schedulers /\ call[me] \in Records
  BY MeTyped DEF Typed
<1>1. PICK c : c = call[me]
  OBVIOUS
<1>2. PICK d : d = [c EXCEPT !.at = "suspend", !.entrySet = 1,
                      !.entering = IF c.entrySet = 0 THEN s.tick ELSE @]
  OBVIOUS
<1>3. /\ c.at = "top" /\ s' = s /\ call' = [call EXCEPT ![me] = d]
  BY <1>0, <1>1, <1>2, Zenon DEF vTaskSetTimeOutState, At
<1>4. /\ d.at = "suspend" /\ d.entrySet = 1 /\ d.op = c.op /\ d.wait = c.wait /\ d.limit = c.limit
      /\ d.wrapped = c.wrapped /\ d.waited = c.waited /\ d.stalled = c.stalled
      /\ d.entering = IF c.entrySet = 0 THEN s.tick ELSE c.entering
  BY <1>0, <1>1, <1>2 DEF Records
<1>5. s.missedTicks = 0
  <2>1. s.suspended = 0
    BY <1>0, <1>1, <1>3, Zenon DEF Base, Sound, Suspension, Suspending, Schedulers, me
  <2> QED BY <2>1 DEF Base, Sound, Suspension
<1>6. me \notin Asleep(s) /\ TimeOK(s, c, me)
  BY <1>0, <1>1, <1>3, MeAwake DEF At, Times
<1>7. TimeOK(s, d, me)
  <2> SUFFICES ASSUME d.op \in EventLists PROVE TimeOK(s, d, me)
    BY DEF TimeOK
  <2>1. CASE c.entrySet = 0
    <3>1. Since(s, d) = 0 /\ Spent(s, d) = 0 /\ c.wait = c.limit /\ c.waited = 0 /\ c.wrapped = 0
      <4>1. c.wait = c.limit /\ c.waited = 0 /\ c.wrapped = 0
        BY <1>4, <1>6, <2>1 DEF TimeOK
      <4>2. Since(s, d) = 0
        BY <1>0, <1>4, <2>1, <4>1 DEF Since, Schedulers
      <4> QED BY <1>0, <1>1, <1>4, <1>5, <4>1, <4>2, RecordFacts DEF Spent
    <3>2. c.limit >= 0
      BY <1>0, <1>1, RecordFacts
    <3> QED BY <1>4, <1>6, <3>1, <3>2 DEF TimeOK, Leaving
  <2>2. CASE c.entrySet # 0
    <3>1. Since(s, d) = Since(s, c) /\ Spent(s, d) = Spent(s, c) /\ c.entrySet = 1
      BY <1>0, <1>1, <1>4, <2>2, RecordFacts DEF Since, Spent
    <3> QED BY <1>4, <1>6, <3>1 DEF TimeOK, Leaving
  <2> QED BY <2>1, <2>2
<1>8. Still(s, s', {}) /\ call'[me] = d /\ \A t \in Tasks \ {me} : call'[t] = call[t]
  BY <1>0, <1>3, StillFacts, Zenon
<1> QED BY <1>3, <1>7, <1>8, TimesKept

(* xTaskCheckForTimeOut keeps Times: the call goes on with the rest of *)
(* its block time, or gives up when that is over.                      *)
LEMMA CheckTimes ==
  ASSUME Typed, Base, Times, xTaskCheckForTimeOut PROVE Times'
<1>0. /\ me \in Tasks /\ call \in [Tasks -> Records] /\ s \in Schedulers /\ call[me] \in Records
  BY MeTyped DEF Typed
<1>1. PICK c \in Records : c = call[me]
  BY <1>0
<1>2. PICK d \in Records : Checked(d)
  BY CheckFacts
<1>3. PICK e : e = (s.tick - c.entering) % TickModulus
  OBVIOUS
<1> DEFINE x == (c.wrapped = 1 /\ s.tick >= c.entering) \/ e >= c.wait
<1>5. /\ c.at = "check" /\ s' = s /\ call' = [call EXCEPT ![me] = d]
      /\ \/ c.wait = portMAX_DELAY /\ d = [c EXCEPT !.at = "test"]
         \/ /\ c.wait < portMAX_DELAY /\ ~x
            /\ d = [c EXCEPT !.at = "test", !.wait = c.wait - e, !.entering = s.tick, !.wrapped = 0]
         \/ /\ c.wait < portMAX_DELAY /\ x
            /\ d = [c EXCEPT !.at = "unlockTx", !.after = "out"]
  BY <1>1, <1>2, <1>3 DEF Checked, At
<1>6. me \notin Asleep(s) /\ TimeOK(s, c, me)
  BY <1>0, <1>1, <1>5, MeAwake DEF Times, Parked, Leaving
<1>7. /\ c.wait \in 0..portMAX_DELAY /\ c.limit \in 0..portMAX_DELAY
      /\ c.waited \in 0..portMAX_DELAY /\ c.entering \in 0..portMAX_DELAY
      /\ c.wrapped \in {0, 1} /\ c.entrySet \in {0, 1}
      /\ portMAX_DELAY \in Nat /\ TickModulus \in Nat /\ TickModulus = portMAX_DELAY + 1
      /\ Since(s, c) \in Int /\ Spent(s, c) \in Int /\ s.tick \in 0..portMAX_DELAY
      /\ s.missedTicks \in Nat
  BY <1>0, RecordFacts
<1>8. e \in 0..portMAX_DELAY /\ e = IF s.tick >= c.entering THEN s.tick - c.entering
                                    ELSE s.tick - c.entering + TickModulus
  BY <1>3, <1>7, DifferenceFacts
<1>9. TimeOK(s, d, me)
  <2> SUFFICES ASSUME d.op \in EventLists PROVE TimeOK(s, d, me)
    BY DEF TimeOK
  <2>1. c.op \in EventLists
    BY <1>5, ZenonT(60) DEF Records
  <2>2. c.entrySet = 1 /\ c.wait <= c.limit
    BY <1>5, <1>6, <1>7, <2>1 DEF TimeOK
  <2>3. CASE c.wait = portMAX_DELAY
    <3>1. d.limit = c.limit /\ d.wait = c.wait /\ d.entrySet = c.entrySet
      BY <1>5, <1>7, <2>3 DEF Records
    <3>2. ~(d.limit < portMAX_DELAY)
      BY <1>7, <2>2, <2>3, <3>1
    <3> QED BY <2>2, <3>1, <3>2 DEF TimeOK
  <2>4. CASE c.wait < portMAX_DELAY /\ ~x
    <3>1. d = [c EXCEPT !.at = "test", !.wait = c.wait - e, !.entering = s.tick, !.wrapped = 0]
      BY <1>5, <1>7, <2>4
    <3>2. /\ d.at = "test" /\ d.wait = c.wait - e /\ d.entering = s.tick /\ d.wrapped = 0
          /\ d.limit = c.limit /\ d.waited = c.waited /\ d.stalled = c.stalled /\ d.entrySet = 1
      BY <2>2, <3>1 DEF Records
    <3>3. d.wait <= d.limit
      BY <1>7, <1>8, <2>2, <3>2
    <3>4. ASSUME d.limit < portMAX_DELAY, d.stalled = 0
          PROVE  /\ Since(s, d) >= 0
                 /\ d.waited = IF Spent(s, d) <= d.limit THEN Spent(s, d) ELSE d.limit
      <4>1. Since(s, c) >= 0 /\ c.waited = IF Spent(s, c) <= c.limit THEN Spent(s, c) ELSE c.limit
        BY <1>6, <2>1, <2>2, <3>2, <3>4 DEF TimeOK
      <4>2. Since(s, c) = e
        BY <1>7, <1>8, <2>4, <4>1 DEF Since
      <4>3. Since(s, d) = 0
        BY <1>7, <3>2 DEF Since
      <4>4. Spent(s, d) = Spent(s, c)
        BY <1>7, <1>8, <3>2, <4>2, <4>3 DEF Spent
      <4> QED BY <3>2, <4>1, <4>3, <4>4
    <3> QED BY <1>6, <3>2, <3>3, <3>4 DEF TimeOK, Leaving
  <2>5. CASE c.wait < portMAX_DELAY /\ x
    <3>1. d = [c EXCEPT !.at = "unlockTx", !.after = "out"]
      BY <1>5, <1>7, <2>5
    <3>2. /\ d.at = "unlockTx" /\ d.after = "out" /\ d.wait = c.wait /\ d.entering = c.entering
          /\ d.wrapped = c.wrapped /\ d.limit = c.limit /\ d.waited = c.waited
          /\ d.stalled = c.stalled /\ d.entrySet = 1
      BY <2>2, <3>1 DEF Records
    <3>3. Since(s, d) = Since(s, c) /\ Spent(s, d) = Spent(s, c)
      BY <3>2 DEF Since, Spent
    <3>4. ASSUME d.limit < portMAX_DELAY, d.stalled = 0
          PROVE  /\ Since(s, d) >= 0 /\ d.waited >= d.limit
                 /\ d.waited = IF Spent(s, d) <= d.limit THEN Spent(s, d) ELSE d.limit
      <4>1. Since(s, c) >= 0 /\ c.waited = IF Spent(s, c) <= c.limit THEN Spent(s, c) ELSE c.limit
        BY <1>6, <2>1, <2>2, <3>2, <3>4 DEF TimeOK
      <4>2. Since(s, c) >= c.wait
        BY <1>7, <1>8, <2>5, <4>1 DEF Since
      <4>3. Spent(s, c) >= c.limit
        BY <1>7, <4>2 DEF Spent
      <4> QED BY <1>7, <3>2, <3>3, <4>1, <4>3
    <3> QED BY <1>6, <2>2, <3>2, <3>4 DEF TimeOK
  <2> QED BY <1>5, <2>3, <2>4, <2>5
<1>10. Still(s, s', {}) /\ call'[me] = d /\ \A t \in Tasks \ {me} : call'[t] = call[t]
  BY <1>0, <1>5, StillFacts, Zenon
<1> QED BY <1>5, <1>9, <1>10, TimesKept

(* A task goes to sleep for the rest of its block time. *)
LEMMA PlaceTimes ==
  ASSUME Typed, Base, Holding, Times, Place PROVE Times'
<1>0. /\ me \in Tasks /\ call \in [Tasks -> Records] /\ s \in Schedulers /\ call[me] \in Records
  BY MeTyped DEF Typed
<1>1. PICK c \in Records : c = call[me]
  BY <1>0
<1>2. PICK d : d = [c EXCEPT !.at = "unlockTx", !.after = "yield"]
  OBVIOUS
<1>3. /\ c.at = "place" /\ c.op \in EventLists /\ c.wait \in 1..portMAX_DELAY
      /\ call' = [call EXCEPT ![me] = d]
  <2>1. call' = [call EXCEPT ![me].at = "unlockTx", ![me].after = "yield"]
    BY PlaceStep
  <2>2. call' = [call EXCEPT ![me] = d]
    BY <1>0, <1>1, <1>2, <2>1, Zenon
  <2> QED BY <1>1, <2>2, PlaceStep
<1>4. PICK z : PlacedAfter(z)
  BY PlaceStep
<1>5. z \in Schedulers /\ s' \in Schedulers /\ z.current = me /\ Placed(z, c.op, c.wait, s')
      /\ Tidy(z)
  BY <1>1, <1>4 DEF PlacedAfter, Sound, Orderly, Lists
<1>6. Still(s, z, {})
  <2>1. CASE IsMutex
    <3>1. \E h, p : Reprioritised(s, h, p, z)
      BY <1>4, <2>1 DEF PlacedAfter
    <3> QED BY <1>0, <1>5, <3>1, StillFacts, Zenon DEF Base, Sound, Orderly, Lists
  <2>2. CASE ~IsMutex
    BY <1>0, <1>4, <2>2, StillFacts, Zenon DEF PlacedAfter
  <2> QED BY <2>1, <2>2
<1>7. Still(s, s', {me})
  <2>1. Still(z, s', {me})
    BY <1>5, StillFacts, Zenon
  <2>2. Still(s, z, {me})
    BY <1>6 DEF Still
  <2> QED BY <2>1, <2>2, StillTrans
<1>8. /\ d.at = "unlockTx" /\ d.after = "yield" /\ d.op = c.op /\ d.wait = c.wait /\ d.limit = c.limit
      /\ d.wrapped = c.wrapped /\ d.waited = c.waited /\ d.stalled = c.stalled
      /\ d.entering = c.entering /\ d.entrySet = c.entrySet
  BY <1>2 DEF Records
<1>9. s'.tick = s.tick /\ s'.missedTicks = s.missedTicks /\ z.tick = s.tick
  BY <1>6, <1>7 DEF Still
<1>10. Since(s', d) = Since(s, c) /\ Spent(s', d) = Spent(s, c)
  BY <1>8, <1>9 DEF Since, Spent
<1>11. TimeOK(s, c, me)
  BY <1>0, <1>1 DEF Times
<1>12. /\ c.wait \in 0..portMAX_DELAY /\ c.limit \in 0..portMAX_DELAY /\ s.tick \in 0..portMAX_DELAY
       /\ portMAX_DELAY \in Nat /\ TickModulus \in Nat /\ TickModulus = portMAX_DELAY + 1
       /\ c.entrySet \in {0, 1}
  BY <1>0, RecordFacts
<1>13. c.entrySet = 1 /\ c.wait <= c.limit
  BY <1>3, <1>11, <1>12 DEF TimeOK
<1>14. ASSUME d.limit < portMAX_DELAY, d.stalled = 0, me \in Asleep(s')
       PROVE  Left(s', me) = d.wait - Since(s', d)
  <2>1. c.entering = s.tick /\ c.wrapped = 0
    BY <1>3, <1>8, <1>11, <1>13, <1>14 DEF TimeOK
  <2>2. Since(s', d) = 0
    BY <1>10, <1>12, <2>1 DEF Since
  <2>3. c.wait # portMAX_DELAY
    BY <1>8, <1>12, <1>13, <1>14
  <2>4. PICK wake : wake = (s.tick + c.wait) % TickModulus
    OBVIOUS
  <2>5. wake = Later(s.tick, c.wait)
    BY <1>12, <2>4, ModFacts, Zenon
  <2>6. wake = IF s.tick + c.wait < TickModulus THEN s.tick + c.wait ELSE s.tick + c.wait - TickModulus
    BY <2>5 DEF Later
  <2>7. /\ ToSet(s'.delayed) = (ToSet(z.delayed) \ {me}) \cup (IF wake < s.tick THEN {} ELSE {me})
        /\ s'.wake = [z.wake EXCEPT ![me] = wake]
    BY <1>5, <1>9, <2>3, <2>4 DEF Placed
  <2>8. s'.wake[me] = wake
    BY <1>0, <1>5, <2>7 DEF Schedulers
  <2>9. Left(s', me) = c.wait
    <3>1. CASE wake < s.tick
      <4>1. me \notin ToSet(s'.delayed)
        BY <2>7, <3>1
      <4>2. wake + TickModulus - s.tick = c.wait
        BY <1>12, <2>6, <3>1
      <4> QED BY <1>9, <2>8, <4>1, <4>2 DEF Left
    <3>2. CASE ~(wake < s.tick)
      <4>1. me \in ToSet(s'.delayed)
        BY <2>7, <3>2
      <4>2. wake - s.tick = c.wait
        BY <1>12, <1>3, <2>6, <3>2
      <4> QED BY <1>9, <2>8, <4>1, <4>2 DEF Left
    <3> QED BY <3>1, <3>2
  <2> QED BY <1>8, <1>12, <2>2, <2>9
<1>15. TimeOK(s', d, me)
  BY <1>3, <1>8, <1>9, <1>10, <1>11, <1>13, <1>14 DEF TimeOK
<1>16. call'[me] = d /\ \A t \in Tasks \ {me} : call'[t] = call[t]
  BY <1>0, <1>3
<1> QED BY <1>7, <1>15, <1>16, TimesKept

(* The other steps of a call that leave its clock alone. *)
LEMMA OneCallTimes ==
  ASSUME Typed, Base, Times, s' \in Schedulers,
         \/ s' = s
         \/ Suspended(s, s')
         \/ \E l \in EventLists, k \in Nat : WokenFirst(l, k, s'),
         NEW d, call' = [call EXCEPT ![me] = d],
         /\ d.op = call[me].op /\ d.wait = call[me].wait /\ d.limit = call[me].limit
         /\ d.entrySet = call[me].entrySet /\ d.entering = call[me].entering
         /\ d.wrapped = call[me].wrapped /\ d.waited = call[me].waited /\ d.stalled = call[me].stalled,
         call[me].at # "top" \/ d.at = "top",
         d.at \in {"test", "place"} => call[me].at \in {"test", "place"},
         d.at \in Leaving /\ d.after = "out" => call[me].at \in Leaving /\ call[me].after = "out"
  PROVE  Times'
<1>0. /\ me \in Tasks /\ call \in [Tasks -> Records] /\ s \in Schedulers /\ call[me] \in Records
  BY MeTyped DEF Typed
<1>1. Still(s, s', {})
  BY <1>0, StillFacts, Zenon DEF Suspended, WokenFirst
<1>2. TimeOK(s, call[me], me)
  BY <1>0 DEF Times
<1>3. TimeOK(s', d, me)
  <2>1. CASE d.op \notin EventLists
    BY <2>1 DEF TimeOK
  <2>2. CASE d.op \in EventLists
    <3>1. d.entrySet = 1 \/ d.at = "top"
      BY <1>0, <1>2, <2>2 DEF TimeOK, Records
    <3> QED BY <1>1, <1>2, <3>1, TimeKept
  <2> QED BY <2>1, <2>2
<1>4. call'[me] = d /\ \A t \in Tasks \ {me} : call'[t] = call[t]
  BY <1>0
<1> QED BY <1>1, <1>3, <1>4, TimesKept

(* Steps after which the running task is in no call that has waited. *)
LEMMA FreshTimes ==
  ASSUME Typed, Base, Times, NEW T, Still(s, s', T), T \subseteq {me},
         NEW d, call' = [call EXCEPT ![me] = d],
         \/ d.op \notin EventLists
         \/ /\ me \notin Asleep(s) /\ T = {} /\ d.at = "top" /\ d.wait = d.limit
            /\ d.limit \in 0..portMAX_DELAY
            /\ d.entrySet = 0 /\ d.waited = 0 /\ d.wrapped = 0 /\ d.stalled = 0
  PROVE  Times'
<1>0. /\ me \in Tasks /\ call \in [Tasks -> Records] /\ portMAX_DELAY \in Nat
  BY MeTyped, DelayRange
<1>1. TimeOK(s', d, me)
  <2>1. CASE d.op \notin EventLists
    BY <2>1 DEF TimeOK
  <2>2. CASE d.op \in EventLists
    <3>1. me \notin Asleep(s')
      BY <2>2 DEF Still
    <3>2. d.wait <= d.limit
      BY <1>0, <2>2
    <3> QED BY <2>2, <3>1, <3>2 DEF TimeOK, Leaving
  <2> QED BY <2>1, <2>2
<1>2. call'[me] = d /\ \A t \in Tasks \ {me} : call'[t] = call[t]
  BY <1>0
<1> QED BY <1>1, <1>2, TimesKept

(* Steps after which the running task is in no call of the queue. *)
LEMMA NoCallTimes ==
  ASSUME Typed, Base, Times, Still(s, s', {}), NEW d, call' = [call EXCEPT ![me] = d],
         d.op \notin EventLists
  PROVE  Times'
<1>1. {} \subseteq {me} /\ me \in Tasks /\ call \in [Tasks -> Records]
  BY MeTyped
<1>2. TimeOK(s', d, me)
  BY DEF TimeOK
<1>3. call'[me] = d /\ \A t \in Tasks \ {me} : call'[t] = call[t]
  BY <1>1
<1> QED BY <1>1, <1>2, <1>3, TimesKept

(* The steps of a call that leave its clock alone keep Times. *)
LEMMA CallTimes ==
  ASSUME Typed, Base, Holding, Times, s' \in Schedulers,
         \/ \E op \in EventLists, n \in BlockTimes : Begin(op, n)
         \/ \E n \in Delays : BeginDelay(n)
         \/ vTaskDelay \/ Transfer \/ Fail \/ vTaskSuspendAll
         \/ prvLockQueue \/ Retest \/ UnlockTx \/ UnlockRx \/ portYIELD
  PROVE  Times'
<1>0. /\ me \in Tasks /\ call \in [Tasks -> Records] /\ s \in Schedulers /\ call[me] \in Records
      /\ Still(s, s, {}) /\ NoCall.op \notin EventLists
  BY MeTyped, StillFacts, Zenon DEF Typed, NoCall, EventLists
<1>1. ASSUME NEW op \in EventLists, NEW n \in BlockTimes, Begin(op, n) PROVE Times'
  <2>1. PICK d : d = [NoCall EXCEPT !.at = "top", !.op = op, !.wait = n, !.limit = n]
    OBVIOUS
  <2>2. call[me].at = "out" /\ s' = s /\ call' = [call EXCEPT ![me] = d]
    BY <1>1, <2>1, Zenon DEF Begin, At
  <2>3. /\ d.at = "top" /\ d.wait = n /\ d.limit = n /\ d.entrySet = 0 /\ d.waited = 0
        /\ d.wrapped = 0 /\ d.stalled = 0
    BY <2>1 DEF NoCall
  <2>4. n \in 0..portMAX_DELAY
    BY QueueAssumption
  <2>5. me \notin Asleep(s)
    BY <2>2, MeAwake DEF Parked, Leaving
  <2> QED BY <1>0, <2>2, <2>3, <2>4, <2>5, FreshTimes, Zenon
<1>2. ASSUME NEW n \in Delays, BeginDelay(n) PROVE Times'
  <2>1. PICK d : d = [NoCall EXCEPT !.op = "delay", !.wait = n,
                                    !.at = IF n > 0 THEN "delay" ELSE "yield"]
    OBVIOUS
  <2>2. (s' = s \/ s' = [s EXCEPT !.suspended = 1]) /\ call' = [call EXCEPT ![me] = d]
    BY <1>2, <2>1, Zenon DEF BeginDelay
  <2>3. d.op \notin EventLists
    BY <2>1 DEF NoCall, EventLists
  <2>4. s' = s \/ Suspended(s, s')
    BY <1>0, <2>2, SuspendFacts
  <2>5. Still(s, s', {})
    BY <1>0, <2>4, StillFacts, Zenon DEF Suspended
  <2> QED BY <2>2, <2>3, <2>5, NoCallTimes, Zenon
<1>3. CASE vTaskDelay
  <2>1. PICK d : d = [call[me] EXCEPT !.at = "resume", !.after = "yield"]
    OBVIOUS
  <2>2. /\ call[me].at = "delay" /\ call[me].wait \in 0..portMAX_DELAY
        /\ s' = Delay(s, call[me].wait) /\ call' = [call EXCEPT ![me] = d]
    BY <1>0, <1>3, <2>1, Zenon DEF vTaskDelay, Records, At
  <2>3. Delayed(s, call[me].wait, s')
    BY <1>0, <2>2, DelayFacts
  <2>4. Still(s, s', {me})
    BY <1>0, <2>3, StillFacts, Zenon DEF me
  <2>5. d.op \notin EventLists
    BY <1>0, <2>1, <2>2 DEF Base, Sound, Orderly, Calls, CallOK, Records, EventLists
  <2> QED BY <2>2, <2>4, <2>5, FreshTimes, Zenon
<1>4. CASE Transfer
  <2>1. call' = [call EXCEPT ![me] = NoCall]
    BY <1>4, TransferFacts
  <2>2. PICK z : Transferred(z)
    BY <1>4, TransferFacts
  <2>3. z \in Schedulers /\ Handed(z, Other(call[me].op), s')
    BY <2>2 DEF Transferred
  <2>4. Still(s, z, {})
    BY <1>0, <2>2, <2>3, StillFacts, Zenon DEF Transferred, Base, Sound, Orderly, Lists
  <2>5. Still(z, s', {})
    BY <2>3, HandedStill
  <2>6. Still(s, s', {})
    BY <2>4, <2>5, StillTrans
  <2> QED BY <1>0, <2>1, <2>6, NoCallTimes, Zenon
<1>5. CASE Fail
  BY <1>0, <1>5, NoCallTimes, Zenon DEF Fail, Return
<1>6. CASE vTaskSuspendAll
  <2>1. PICK d : d = [call[me] EXCEPT !.at = "lock"]
    BY Zenon
  <2>2. /\ call[me].at = "suspend" /\ s' = [s EXCEPT !.suspended = 1]
        /\ call' = [call EXCEPT ![me] = d]
    BY <1>0, <1>6, <2>1 DEF vTaskSuspendAll, Goto, At
  <2>3. Suspended(s, s')
    BY <1>0, <2>2, SuspendFacts
  <2>4. /\ d.op = call[me].op /\ d.wait = call[me].wait /\ d.limit = call[me].limit
        /\ d.entrySet = call[me].entrySet /\ d.entering = call[me].entering
        /\ d.wrapped = call[me].wrapped /\ d.waited = call[me].waited
        /\ d.stalled = call[me].stalled /\ d.at = "lock"
    BY <1>0, <2>1 DEF Records
  <2> QED BY <2>2, <2>3, <2>4, OneCallTimes, Zenon DEF Leaving
<1>7. CASE prvLockQueue
  <2>1. PICK d : d = [call[me] EXCEPT !.at = "check"]
    BY Zenon
  <2>2. call[me].at = "lock" /\ s' = s /\ call' = [call EXCEPT ![me] = d]
    BY <1>0, <1>7, <2>1 DEF prvLockQueue, Goto, At
  <2>3. /\ d.op = call[me].op /\ d.wait = call[me].wait /\ d.limit = call[me].limit
        /\ d.entrySet = call[me].entrySet /\ d.entering = call[me].entering
        /\ d.wrapped = call[me].wrapped /\ d.waited = call[me].waited
        /\ d.stalled = call[me].stalled /\ d.at = "check"
    BY <1>0, <2>1 DEF Records
  <2> QED BY <2>2, <2>3, OneCallTimes, Zenon DEF Leaving
<1>8. CASE Retest
  <2>1. PICK d : /\ call' = [call EXCEPT ![me] = d]
                 /\ \/ d = [call[me] EXCEPT !.at = "unlockTx", !.after = "top"]
                    \/ d = [call[me] EXCEPT !.at = "place"]
    BY <1>0, <1>8, Zenon DEF Retest, Goto
  <2>2. call[me].at = "test" /\ s' = s
    BY <1>8 DEF Retest, At
  <2>3. /\ d.op = call[me].op /\ d.wait = call[me].wait /\ d.limit = call[me].limit
        /\ d.entrySet = call[me].entrySet /\ d.entering = call[me].entering
        /\ d.wrapped = call[me].wrapped /\ d.waited = call[me].waited
        /\ d.stalled = call[me].stalled /\ (d.at = "place" \/ (d.at = "unlockTx" /\ d.after = "top"))
    <3>1. CASE d = [call[me] EXCEPT !.at = "unlockTx", !.after = "top"]
      BY <1>0, <3>1 DEF Records
    <3>2. CASE d = [call[me] EXCEPT !.at = "place"]
      BY <1>0, <3>2 DEF Records
    <3> QED BY <2>1, <3>1, <3>2
  <2> QED BY <2>1, <2>2, <2>3, OneCallTimes, Zenon DEF Leaving
<1>9. CASE UnlockTx
  <2>1. PICK d : d = [call[me] EXCEPT !.at = "unlockRx"]
    BY Zenon
  <2>2. /\ call[me].at = "unlockTx" /\ q.txLock \in Nat /\ s' = WakeCounted("receive", q.txLock)
        /\ call' = [call EXCEPT ![me] = d]
    BY <1>9, <2>1, QueueAssumption DEF UnlockTx, Goto, At, Typed, Queues, Base, Locks, TxHeld
  <2>3. \E k \in Nat : WokenFirst("receive", k, s')
    BY <1>0, <2>2, WakeCountedFacts, SMTT(30) DEF EventLists
  <2>4. /\ d.op = call[me].op /\ d.wait = call[me].wait /\ d.limit = call[me].limit
        /\ d.entrySet = call[me].entrySet /\ d.entering = call[me].entering
        /\ d.wrapped = call[me].wrapped /\ d.waited = call[me].waited
        /\ d.stalled = call[me].stalled /\ d.at = "unlockRx" /\ d.after = call[me].after
    BY <1>0, <2>1 DEF Records
  <2> QED BY <2>2, <2>3, <2>4, OneCallTimes, Zenon DEF Leaving, EventLists
<1>10. CASE UnlockRx
  <2>1. PICK d : d = [call[me] EXCEPT !.at = "resume"]
    BY Zenon
  <2>2. /\ call[me].at = "unlockRx" /\ q.rxLock \in Nat /\ s' = WakeCounted("send", q.rxLock)
        /\ call' = [call EXCEPT ![me] = d]
    BY <1>10, <2>1, QueueAssumption DEF UnlockRx, Goto, At, Typed, Queues, Base, Locks, RxHeld
  <2>3. \E k \in Nat : WokenFirst("send", k, s')
    BY <1>0, <2>2, WakeCountedFacts DEF EventLists
  <2>4. /\ d.op = call[me].op /\ d.wait = call[me].wait /\ d.limit = call[me].limit
        /\ d.entrySet = call[me].entrySet /\ d.entering = call[me].entering
        /\ d.wrapped = call[me].wrapped /\ d.waited = call[me].waited
        /\ d.stalled = call[me].stalled /\ d.at = "resume" /\ d.after = call[me].after
    BY <1>0, <2>1 DEF Records
  <2> QED BY <2>2, <2>3, <2>4, OneCallTimes, Zenon DEF Leaving, EventLists
<1>11. CASE portYIELD
  <2>1. Switched(s, s')
    BY <1>11, YieldFacts
  <2>2. PICK d : /\ call' = [call EXCEPT ![me] = d]
                 /\ \/ d = NoCall
                    \/ d = [call[me] EXCEPT !.at = "top"]
    BY <1>11, YieldFacts
  <2>3. Still(s, s', {})
    BY <1>0, <2>1, StillFacts, Zenon DEF Switched
  <2>4. CASE d = NoCall
    BY <1>0, <2>2, <2>3, <2>4, NoCallTimes, Zenon
  <2>5. CASE d = [call[me] EXCEPT !.at = "top"]
    <3>1. /\ d.op = call[me].op /\ d.wait = call[me].wait /\ d.limit = call[me].limit
          /\ d.entrySet = call[me].entrySet /\ d.entering = call[me].entering
          /\ d.wrapped = call[me].wrapped /\ d.waited = call[me].waited
          /\ d.stalled = call[me].stalled /\ d.at = "top"
      BY <1>0, <2>5 DEF Records
    <3>2. TimeOK(s, call[me], me)
      BY <1>0 DEF Times
    <3>3. TimeOK(s', d, me)
      BY <2>3, <3>1, <3>2, TimeKept DEF Leaving
    <3>4. call'[me] = d /\ \A t \in Tasks \ {me} : call'[t] = call[t]
      BY <1>0, <2>2
    <3> QED BY <2>3, <3>3, <3>4, TimesKept
  <2> QED BY <2>2, <2>4, <2>5
<1> QED BY <1>1, <1>2, <1>3, <1>4, <1>5, <1>6, <1>7, <1>8, <1>9, <1>10, <1>11

(* A device's handler keeps Times. *)
LEMMA DeviceTimes ==
  ASSUME Typed, Base, Times, s' \in Schedulers, NEW op \in EventLists, DeviceISR(op)
  PROVE  Times'
<1>0. /\ me \in Tasks /\ call \in [Tasks -> Records] /\ s \in Schedulers
  BY MeTyped, SMTT(30) DEF Typed
<1>1. call' = call /\ (s' = s \/ Handed(s, Other(op), s'))
  BY DeviceFacts, Zenon DEF Interrupted
<1>2. Still(s, s', {})
  BY <1>0, <1>1, StillFacts, HandedStill, Zenon
<1>3. TimeOK(s', call'[me], me)
  <2>1. TimeOK(s, call[me], me) /\ call'[me] = call[me]
    BY <1>0, <1>1 DEF Times
  <2> QED BY <1>2, <2>1, TimeKept
<1> QED BY <1>1, <1>2, <1>3, TimesKept

(* n ticks pass: xNumOfOverflows moves on when the tick count comes round. *)
LEMMA SincePassed ==
  ASSUME NEW z \in Schedulers, NEW r \in Schedulers, NEW n \in 0..portMAX_DELAY,
         r.tick = Later(z.tick, n), NEW c \in Records, NEW again, again = (r.tick < z.tick),
         NEW d \in Records, d.entering = c.entering,
         d.wrapped = IF again THEN 1 ELSE c.wrapped,
         ~(again /\ c.wrapped = 1)
  PROVE  Since(r, d) = Since(z, c) + n
<1>1. /\ c.entering \in 0..portMAX_DELAY /\ c.wrapped \in {0, 1}
      /\ z.tick \in 0..portMAX_DELAY /\ r.tick \in 0..portMAX_DELAY
      /\ portMAX_DELAY \in Nat /\ TickModulus \in Nat /\ TickModulus = portMAX_DELAY + 1
  BY RecordFacts
<1>2. r.tick = IF z.tick + n < TickModulus THEN z.tick + n ELSE z.tick + n - TickModulus
  BY DEF Later
<1>3. CASE z.tick + n < TickModulus
  <2>1. r.tick = z.tick + n /\ ~(r.tick < z.tick)
    BY <1>1, <1>2, <1>3
  <2>2. d.wrapped = c.wrapped
    BY <2>1, Zenon
  <2> QED BY <1>1, <2>1, <2>2 DEF Since
<1>4. CASE ~(z.tick + n < TickModulus)
  <2>1. r.tick = z.tick + n - TickModulus /\ r.tick < z.tick
    BY <1>1, <1>2, <1>4
  <2>2. d.wrapped = 1 /\ c.wrapped = 0
    BY <1>1, <2>1, Zenon
  <2> QED BY <1>1, <2>1, <2>2 DEF Since
<1> QED BY <1>3, <1>4

(* What that does to a call. *)
Aged(c, d, again) ==
  /\ d.op = c.op /\ d.wait = c.wait /\ d.limit = c.limit /\ d.entrySet = c.entrySet
  /\ d.entering = c.entering
  /\ again /\ c.entrySet = 1 /\ c.wait < portMAX_DELAY =>
       d.wrapped = 1 /\ d.stalled = IF c.wrapped = 1 THEN 1 ELSE c.stalled
  /\ ~(again /\ c.entrySet = 1 /\ c.wait < portMAX_DELAY) =>
       d.wrapped = c.wrapped /\ d.stalled = c.stalled

(* Over n ticks, m of which were missed ones, the call c became d. *)
OverTicks(z, r, n, m, t, c, d, again) ==
  /\ z \in Schedulers /\ r \in Schedulers /\ n \in 0..portMAX_DELAY /\ m \in {0, n}
  /\ r.tick = Later(z.tick, n) /\ r.missedTicks = z.missedTicks - m
  /\ t \in Asleep(r) => t \in Asleep(z) /\ Left(r, t) = Left(z, t) - n
  /\ c \in Records /\ d \in Records /\ again = (r.tick < z.tick) /\ Aged(c, d, again)
  /\ TimeOK(z, c, t)
  /\ m = n => d.waited = c.waited
  /\ m # n => n = 1 /\ d.waited = IF c.entrySet = 1 /\ c.waited < c.limit /\ c.limit < portMAX_DELAY
                                  THEN c.waited + 1 ELSE c.waited
  /\ d.at \notin {"test", "place"} \cup Leaving /\ (c.entrySet = 0 => d.at = "top")

(* n ticks for one call: either those that the scheduler had missed, which *)
(* were counted for the call when they came, or a new one, counted now.    *)
LEMMA AgedTimes ==
  ASSUME NEW z, NEW r, NEW n, NEW m, NEW t, NEW c, NEW d, NEW again,
         OverTicks(z, r, n, m, t, c, d, again)
  PROVE  TimeOK(r, d, t)
<1> SUFFICES ASSUME z \in Schedulers, r \in Schedulers, n \in 0..portMAX_DELAY, m \in {0, n},
                    r.tick = Later(z.tick, n), r.missedTicks = z.missedTicks - m,
                    t \in Asleep(r) => t \in Asleep(z) /\ Left(r, t) = Left(z, t) - n,
                    c \in Records, d \in Records, again = (r.tick < z.tick), Aged(c, d, again),
                    TimeOK(z, c, t),
                    m = n => d.waited = c.waited,
                    m # n => n = 1 /\ d.waited = IF c.entrySet = 1 /\ c.waited < c.limit
                                                    /\ c.limit < portMAX_DELAY
                                                 THEN c.waited + 1 ELSE c.waited,
                    d.at \notin {"test", "place"} \cup Leaving, c.entrySet = 0 => d.at = "top"
             PROVE  TimeOK(r, d, t)
  BY DEF OverTicks
<1> SUFFICES ASSUME d.op \in EventLists PROVE TimeOK(r, d, t)
  BY DEF TimeOK
<1>1. /\ c.wait \in 0..portMAX_DELAY /\ c.limit \in 0..portMAX_DELAY
      /\ c.waited \in 0..portMAX_DELAY /\ c.entering \in 0..portMAX_DELAY
      /\ c.wrapped \in {0, 1} /\ c.stalled \in {0, 1} /\ c.entrySet \in {0, 1}
      /\ portMAX_DELAY \in Nat /\ TickModulus \in Nat /\ TickModulus = portMAX_DELAY + 1
      /\ z.missedTicks \in Nat /\ r.missedTicks \in Nat
      /\ Since(z, c) \in Int /\ Spent(z, c) \in Int /\ Since(r, d) \in Int /\ Spent(r, d) \in Int
  BY RecordFacts
<1>2. /\ d.op = c.op /\ d.wait = c.wait /\ d.limit = c.limit /\ d.entrySet = c.entrySet
      /\ d.entering = c.entering /\ c.op \in EventLists /\ c.wait <= c.limit
  BY DEF Aged, TimeOK
<1>3. CASE c.entrySet = 0
  <2>1. /\ c.waited = 0 /\ c.wrapped = 0 /\ c.stalled = 0 /\ c.wait = c.limit
        /\ ~(t \in Asleep(z) /\ c.limit < portMAX_DELAY)
    BY <1>2, <1>3 DEF TimeOK
  <2>2. d.wrapped = 0 /\ d.stalled = 0
    BY <1>3, <2>1 DEF Aged
  <2>3. d.waited = 0
    BY <1>3, <2>1
  <2> QED BY <1>2, <1>3, <2>1, <2>2, <2>3 DEF TimeOK, Leaving
<1>4. CASE c.entrySet = 1
  <2> SUFFICES ASSUME d.limit < portMAX_DELAY, d.stalled = 0
               PROVE  /\ Since(r, d) >= 0
                      /\ d.waited = IF Spent(r, d) <= d.limit THEN Spent(r, d) ELSE d.limit
                      /\ t \in Asleep(r) => Left(r, t) = d.wait - Since(r, d)
    BY <1>1, <1>2, <1>4 DEF TimeOK, Leaving
  <2>1. c.wait < portMAX_DELAY
    BY <1>1, <1>2
  <2>2. /\ c.stalled = 0 /\ ~(again /\ c.wrapped = 1)
        /\ d.wrapped = IF again THEN 1 ELSE c.wrapped
    <3>1. CASE again
      BY <1>1, <1>4, <2>1, <3>1 DEF Aged
    <3>2. CASE ~again
      BY <1>1, <1>4, <2>1, <3>2 DEF Aged
    <3> QED BY <3>1, <3>2
  <2>3. Since(r, d) = Since(z, c) + n
    BY <1>2, <2>2, SincePassed
  <2>4. /\ Since(z, c) >= 0
        /\ c.waited = IF Spent(z, c) <= c.limit THEN Spent(z, c) ELSE c.limit
        /\ t \in Asleep(z) => Left(z, t) = c.wait - Since(z, c)
    BY <1>2, <1>4, <2>2 DEF TimeOK
  <2>5. Spent(r, d) = Spent(z, c) + n - m
    BY <1>1, <1>2, <2>3 DEF Spent
  <2>6. d.waited = IF Spent(r, d) <= d.limit THEN Spent(r, d) ELSE d.limit
    <3>1. CASE m = n
      BY <1>1, <1>2, <2>4, <2>5, <3>1
    <3>2. CASE m # n
      <4>1. n = 1 /\ m = 0
        BY <3>2
      <4>2. Spent(r, d) = Spent(z, c) + 1
        BY <1>1, <2>5, <4>1
      <4>3. d.waited = IF c.waited < c.limit THEN c.waited + 1 ELSE c.waited
        BY <1>2, <1>4, <3>2
      <4>4. CASE Spent(z, c) < c.limit
        <5>1. c.waited = Spent(z, c) /\ c.waited < c.limit
          BY <1>1, <2>4, <4>4
        <5>2. d.waited = Spent(z, c) + 1 /\ Spent(z, c) + 1 <= c.limit
          BY <1>1, <4>3, <4>4, <5>1
        <5> QED BY <1>2, <4>2, <5>2
      <4>5. CASE ~(Spent(z, c) < c.limit)
        <5>1. c.waited = c.limit /\ ~(c.waited < c.limit)
          BY <1>1, <2>4, <4>5
        <5>2. d.waited = c.limit /\ ~(Spent(z, c) + 1 <= c.limit)
          BY <1>1, <4>3, <4>5, <5>1
        <5> QED BY <1>2, <4>2, <5>2
      <4> QED BY <4>4, <4>5
    <3> QED BY <3>1, <3>2
  <2>7. t \in Asleep(r) => Left(r, t) = d.wait - Since(r, d)
    BY <1>1, <1>2, <2>3, <2>4
  <2> QED BY <1>1, <2>3, <2>4, <2>6, <2>7
<1> QED BY <1>1, <1>3, <1>4

(* xNumOfOverflows moves on for one call. *)
LEMMA WrapAged ==
  ASSUME NEW calls \in [Tasks -> Records], NEW again \in BOOLEAN, NEW t \in Tasks,
         NEW d, d = Wrap(calls, again)[t]
  PROVE  /\ Aged(calls[t], d, again) /\ d.waited = calls[t].waited
         /\ d.at = calls[t].at /\ d.after = calls[t].after
<1>1. calls[t] \in Records
  OBVIOUS
<1>2. d = IF again /\ calls[t].entrySet = 1 /\ calls[t].wait < portMAX_DELAY
          THEN [calls[t] EXCEPT !.wrapped = 1, !.stalled = IF calls[t].wrapped = 1 THEN 1 ELSE @]
          ELSE calls[t]
  BY DEF Wrap
<1>3. CASE again /\ calls[t].entrySet = 1 /\ calls[t].wait < portMAX_DELAY
  <2>1. d = [calls[t] EXCEPT !.wrapped = 1, !.stalled = IF calls[t].wrapped = 1 THEN 1 ELSE @]
    BY <1>2, <1>3
  <2> QED BY <1>1, <1>3, <2>1, Zenon DEF Aged, Records
<1>4. CASE ~(again /\ calls[t].entrySet = 1 /\ calls[t].wait < portMAX_DELAY)
  <2>1. d = calls[t]
    BY <1>2, <1>4
  <2> QED BY <1>1, <1>4, <2>1 DEF Aged
<1> QED BY <1>3, <1>4

(* Tasks that sleep on have so much less to sleep. *)
LEMMA ResumedSleep ==
  ASSUME Typed, Base, xTaskResumeAll
  PROVE  /\ s.missedTicks \in 0..portMAX_DELAY /\ s'.missedTicks = 0 /\ s' \in Schedulers
         /\ s'.tick = Later(s.tick, s.missedTicks)
         /\ \A t \in Asleep(s') : t \in Asleep(s) /\ Left(s', t) = Left(s, t) - s.missedTicks
         /\ \E y \in BOOLEAN :
              call' = [Wrap(call, s'.tick < s.tick) EXCEPT ![me] = Resumed(@, y)]
<1>0. s \in Schedulers /\ s.missedTicks \in 0..portMAX_DELAY /\ s.pending \in Seq(Tasks)
      /\ s.wake \in [Tasks -> 0..portMAX_DELAY] /\ s.delayed \in Seq(Tasks) /\ s.overflow \in Seq(Tasks)
  BY QueueAssumption, DelayRange, SMTT(30) DEF Typed, Schedulers
<1>2. PICK z, w : Resumption(z, w)
  BY ResumeFacts
<1>3. Resuming(z) /\ Elapsed(z, s.missedTicks, w) /\ w \in Schedulers /\ s' \in Schedulers
  BY <1>2 DEF Resumption
<1>4. PICK v \in Schedulers :
           /\ SamePlaces(w, v) /\ v.missedTicks = 0
           /\ ResumeYields => Switched(v, s')
           /\ ~ResumeYields => s' = v
  BY <1>2 DEF Resumption
<1>5. s'.tick = w.tick /\ s'.missedTicks = 0 /\ Asleep(s') = Asleep(w) /\ \A t : Left(s', t) = Left(w, t)
  <2>1. v.tick = w.tick /\ Asleep(v) = Asleep(w) /\ \A t : Left(v, t) = Left(w, t)
    BY <1>4, SamePlacesFacts DEF SamePlaces
  <2>2. CASE ResumeYields
    <3>1. SameLists(v, s')
      BY <1>4, <2>2 DEF Switched
    <3> QED BY <1>4, <2>1, <3>1 DEF SameLists, Asleep, Left
  <2>3. CASE ~ResumeYields
    BY <1>4, <2>1, <2>3
  <2> QED BY <2>2, <2>3
<1>6. s'.tick = Later(s.tick, s.missedTicks)
  BY <1>3, <1>5 DEF Resuming, Elapsed
<1>7. ASSUME NEW t \in Asleep(s') PROVE t \in Asleep(s) /\ Left(s', t) = Left(s, t) - s.missedTicks
  <2>1. t \in Asleep(z) /\ Left(w, t) = Left(z, t) - s.missedTicks
    BY <1>3, <1>5, <1>7 DEF Elapsed
  <2>2. t \in Asleep(s) /\ t \notin ToSet(s.pending)
    BY <1>3, <2>1 DEF Resuming, Asleep
  <2>3. t \in Tasks
    BY <1>0, <2>2, InToSet DEF Asleep
  <2>4. Left(z, t) = Left(s, t)
    BY <1>3, <2>2, <2>3 DEF Resuming, Left
  <2> QED BY <1>5, <2>1, <2>2, <2>4
<1>8. \E y \in BOOLEAN : call' = [Wrap(call, s'.tick < s.tick) EXCEPT ![me] = Resumed(@, y)]
  <2>1. call' = [Wrap(call, s'.tick < s.tick) EXCEPT ![me] = Resumed(@, ResumeYields)]
    BY <1>2, <1>5 DEF Resumption
  <2>2. ResumeYields \in BOOLEAN
    BY DEF ResumeYields
  <2> QED BY <2>1, <2>2
<1> QED BY <1>0, <1>3, <1>5, <1>6, <1>7, <1>8, Zenon

(* xTaskResumeAll keeps Times. *)
LEMMA ResumeTimes ==
  ASSUME Typed, Base, Times, xTaskResumeAll, Typed' PROVE Times'
<1>0. /\ me \in Tasks /\ call \in [Tasks -> Records] /\ s \in Schedulers /\ call[me] \in Records
      /\ call' \in [Tasks -> Records]
  BY MeTyped DEF Typed
<1>1. PICK n : n = s.missedTicks
  OBVIOUS
<1>2. /\ n \in 0..portMAX_DELAY /\ n \in {0, n} /\ s'.missedTicks = s.missedTicks - n /\ s' \in Schedulers
      /\ s'.tick = Later(s.tick, n)
      /\ \A t \in Asleep(s') : t \in Asleep(s) /\ Left(s', t) = Left(s, t) - n
  BY <1>1, ResumedSleep
<1>3. PICK y \in BOOLEAN : call' = [Wrap(call, s'.tick < s.tick) EXCEPT ![me] = Resumed(@, y)]
  BY ResumedSleep
<1>4. PICK again : again = (s'.tick < s.tick)
  OBVIOUS
<1>5. again \in BOOLEAN
  <2>1. s.tick \in Int /\ s'.tick \in Int
    BY <1>0, <1>2 DEF Schedulers
  <2> QED BY <1>4, <2>1
<1>6. PICK calls : calls = Wrap(call, again)
  OBVIOUS
<1>7. calls \in [Tasks -> Records] /\ call' = [calls EXCEPT ![me] = Resumed(calls[me], y)]
  BY <1>0, <1>3, <1>4, <1>5, <1>6, WrapFacts, Zenon
<1>8. call[me].at = "resume" /\ s.suspended = 1
  BY ResumeFacts
<1>9. ASSUME NEW t \in Tasks PROVE TimeOK(s', call'[t], t)
  <2>1. /\ Aged(call[t], calls[t], again) /\ calls[t].waited = call[t].waited
        /\ calls[t].at = call[t].at /\ calls[t].after = call[t].after
    BY <1>0, <1>5, <1>6, WrapAged
  <2>2. TimeOK(s, call[t], t) /\ call[t] \in Records /\ calls[t] \in Records /\ call'[t] \in Records
    BY <1>0, <1>7 DEF Times
  <2>3. CASE call'[t].op \notin EventLists
    BY <2>3 DEF TimeOK
  <2>4. CASE call'[t].op \in EventLists
    <3>1. /\ Aged(call[t], call'[t], again) /\ call'[t].waited = call[t].waited
          /\ call'[t].at \notin {"test", "place"} \cup Leaving
          /\ t # me => call'[t].at = call[t].at
          /\ t = me => call[t].at = "resume"
      <4>1. CASE t # me
        <5>1. call'[t] = calls[t]
          BY <1>0, <1>7, <4>1
        <5>2. call[t].at \notin Suspending
          BY <1>8, <4>1 DEF Base, Sound, Suspension, me
        <5> QED BY <2>1, <4>1, <5>1, <5>2 DEF Suspending, Leaving
      <4>2. CASE t = me
        <5>1. PICK d : d = Resumed(calls[me], y)
          OBVIOUS
        <5>2. call'[t] = d
          BY <1>0, <1>7, <4>2, <5>1
        <5>3. CallOK(calls[me])
          <6>1. Alike(call, calls) /\ CallOK(call[me])
            BY <1>0, <1>5, <1>6, WrapFacts DEF Base, Sound, Orderly, Calls
          <6> QED BY <1>0, <1>8, <6>1 DEF Alike, CallOK
        <5>4. /\ d.at \in {"out", "top", "yield"} /\ (d.at = "out" => d = NoCall)
              /\ d.at # "out" => d = [calls[me] EXCEPT !.at = d.at, !.after = "out"]
          <6>1. calls[me] \in Records /\ calls[me].at = "resume"
            BY <1>0, <1>7, <1>8, <2>1, <4>2
          <6>2. GoesOn(calls[me], y, d)
            BY <5>1, <5>3, <6>1, ResumedFacts
          <6> QED BY <6>2 DEF GoesOn
        <5>5. d = [calls[me] EXCEPT !.at = d.at, !.after = "out"]
          BY <2>4, <5>2, <5>4 DEF NoCall, EventLists
        <5>6. /\ d.op = calls[me].op /\ d.wait = calls[me].wait /\ d.limit = calls[me].limit
              /\ d.entrySet = calls[me].entrySet /\ d.entering = calls[me].entering
              /\ d.wrapped = calls[me].wrapped /\ d.waited = calls[me].waited
              /\ d.stalled = calls[me].stalled
          <6>1. PICK a : a = d.at
            OBVIOUS
          <6>2. d = [calls[me] EXCEPT !.at = a, !.after = "out"] /\ calls[me] \in Records
            BY <1>0, <1>7, <5>5, <6>1
          <6> QED BY <6>2 DEF Records
        <5> QED BY <1>8, <2>1, <4>2, <5>2, <5>4, <5>6 DEF Aged, Leaving
      <4> QED BY <4>1, <4>2
    <3>2. call[t].op \in EventLists
      BY <2>4, <3>1 DEF Aged
    <3>3. call[t].entrySet = 0 => call'[t].at = "top"
      BY <2>2, <3>1, <3>2 DEF TimeOK
    <3>4. PICK c, d \in Records : c = call[t] /\ d = call'[t] /\ c \in Records
      BY <2>2
    <3>5. /\ Aged(c, d, again) /\ TimeOK(s, c, t) /\ d.waited = c.waited
          /\ d.at \notin {"test", "place"} \cup Leaving /\ (c.entrySet = 0 => d.at = "top")
          /\ (t \in Asleep(s') => t \in Asleep(s) /\ Left(s', t) = Left(s, t) - n)
      BY <1>2, <2>2, <3>1, <3>3, <3>4
    <3>6. TimeOK(s', d, t)
      <4>1. OverTicks(s, s', n, n, t, c, d, again)
        BY <1>0, <1>2, <1>4, <3>4, <3>5 DEF OverTicks
      <4> QED BY <4>1, AgedTimes
    <3> QED BY <3>4, <3>6
  <2> QED BY <2>3, <2>4
<1> QED BY <1>9 DEF Times

(* The tick interrupt keeps Times. *)
LEMMA TickTimes ==
  ASSUME Typed, Base, Times, vTickISR, Typed' PROVE Times'
<1>0. /\ me \in Tasks /\ call \in [Tasks -> Records] /\ s \in Schedulers /\ s' \in Schedulers
      /\ call' \in [Tasks -> Records] /\ s.suspended \in {0, 1}
  BY MeTyped DEF Typed
<1>1. PICK z : z = vTaskIncrementTick(s)
  OBVIOUS
<1>2. /\ z \in Schedulers /\ Sound(z, call)
      /\ s.suspended = 1 => SamePlaces(s, z) /\ z.missedTicks = s.missedTicks + 1
      /\ s.suspended = 0 => Elapsed(s, 1, z)
  BY <1>1, TickSound
<1>3. SameLists(z, s')
  <2>1. s' = vTaskSwitchContext(z)
    BY <1>1 DEF vTickISR
  <2> QED BY <1>2, <2>1, SwitchSound DEF Switched
<1>4. s'.tick = z.tick /\ s'.missedTicks = z.missedTicks /\ Asleep(s') = Asleep(z)
      /\ \A t : Left(s', t) = Left(z, t)
  BY <1>3 DEF SameLists, Asleep, Left
<1>5. call' = IF s.suspended = 1 THEN Counting ELSE Wrap(Counting, z.tick = 0)
  BY <1>1, TickCalls
<1>6. Counting \in [Tasks -> Records]
  BY <1>0, CountingFacts
<1>7. ASSUME NEW t \in Tasks
      PROVE  LET c == call[t]
                 d == Counting[t]
             IN  /\ d.op = c.op /\ d.wait = c.wait /\ d.limit = c.limit /\ d.entrySet = c.entrySet
                 /\ d.entering = c.entering /\ d.wrapped = c.wrapped /\ d.stalled = c.stalled
                 /\ d.at = c.at /\ d.after = c.after
                 /\ d.waited = IF c.entrySet = 1 /\ c.waited < c.limit /\ c.limit < portMAX_DELAY
                               THEN c.waited + 1 ELSE c.waited
  <2>1. call[t] \in Records
    BY <1>0
  <2>2. Counting[t] = [call[t] EXCEPT !.waited =
           IF call[t].entrySet = 1 /\ call[t].waited < call[t].limit /\ call[t].limit < portMAX_DELAY
           THEN call[t].waited + 1 ELSE call[t].waited]
    BY DEF Counting
  <2> QED BY <2>1, <2>2 DEF Records
<1>8. CASE s.suspended = 1
  <2>1. s'.tick = s.tick /\ s'.missedTicks = s.missedTicks + 1
        /\ Asleep(s') = Asleep(s) /\ \A t : Left(s', t) = Left(s, t)
    BY <1>2, <1>4, <1>8, SamePlacesFacts DEF SamePlaces
  <2>2. ASSUME NEW t \in Tasks PROVE TimeOK(s', call'[t], t)
    <3>1. PICK c, d \in Records : c = call[t] /\ d = call'[t] /\ c \in Records
      BY <1>0
    <3>2. /\ d.op = c.op /\ d.wait = c.wait /\ d.limit = c.limit /\ d.entrySet = c.entrySet
          /\ d.entering = c.entering /\ d.wrapped = c.wrapped /\ d.stalled = c.stalled
          /\ d.at = c.at /\ d.after = c.after
          /\ d.waited = IF c.entrySet = 1 /\ c.waited < c.limit /\ c.limit < portMAX_DELAY
                        THEN c.waited + 1 ELSE c.waited
      BY <1>5, <1>7, <1>8, <3>1
    <3>3. TimeOK(s, c, t)
      BY <3>1 DEF Times
    <3>4. /\ c.wait \in Int /\ c.limit \in Int /\ c.waited \in Int
          /\ Since(s, c) \in Int /\ Spent(s, c) \in Int /\ s.missedTicks \in Int
      BY <1>0, <3>1, RecordFacts
    <3>5. Since(s', d) = Since(s, c)
      BY <2>1, <3>2 DEF Since
    <3>6. Spent(s', d) = Spent(s, c) + 1
      BY <2>1, <3>2, <3>4, <3>5 DEF Spent
    <3> SUFFICES ASSUME d.op \in EventLists PROVE TimeOK(s', d, t)
      BY <3>1 DEF TimeOK
    <3>7. CASE c.entrySet = 0
      BY <2>1, <3>2, <3>3, <3>5, <3>7 DEF TimeOK, Leaving
    <3>8. CASE c.entrySet # 0
      <4> SUFFICES ASSUME d.limit < portMAX_DELAY, d.stalled = 0
                   PROVE  /\ d.entrySet = 1 =>
                               d.waited = IF Spent(s', d) <= d.limit THEN Spent(s', d) ELSE d.limit
                          /\ d.at \in Leaving /\ d.after = "out" => d.waited >= d.limit
        BY <2>1, <3>2, <3>3, <3>5, <3>8 DEF TimeOK
      <4>1. c.entrySet = 1
        BY <3>1, <3>8, RecordFacts
      <4>2. c.waited = IF Spent(s, c) <= c.limit THEN Spent(s, c) ELSE c.limit
        BY <3>2, <3>3, <4>1 DEF TimeOK
      <4>3. d.waited = IF c.waited < c.limit THEN c.waited + 1 ELSE c.waited
        BY <3>2, <4>1
      <4>4. CASE Spent(s, c) < c.limit
        <5>1. c.waited = Spent(s, c) /\ c.waited < c.limit
          BY <3>4, <4>2, <4>4
        <5>2. d.waited = Spent(s, c) + 1 /\ Spent(s, c) + 1 <= c.limit
          BY <3>4, <4>3, <4>4, <5>1
        <5>3. ~(d.at \in Leaving /\ d.after = "out")
          BY <3>2, <3>3, <3>4, <5>1 DEF TimeOK
        <5> QED BY <3>2, <3>6, <5>2, <5>3
      <4>5. CASE ~(Spent(s, c) < c.limit)
        <5>1. c.waited = c.limit /\ ~(c.waited < c.limit)
          BY <3>4, <4>2, <4>5
        <5>2. d.waited = c.limit /\ ~(Spent(s, c) + 1 <= c.limit)
          BY <3>4, <4>3, <4>5, <5>1
        <5>3. d.waited >= d.limit
          BY <3>2, <3>4, <5>2
        <5> QED BY <3>2, <3>6, <5>2, <5>3
      <4> QED BY <4>4, <4>5
    <3> QED BY <3>7, <3>8
  <2> QED BY <2>2 DEF Times
<1>9. CASE s.suspended = 0
  <2>1. /\ s'.tick = Later(s.tick, 1) /\ s'.missedTicks = s.missedTicks - 0
        /\ \A t \in Asleep(s') : t \in Asleep(s) /\ Left(s', t) = Left(s, t) - 1
        /\ z.tick = Later(s.tick, 1)
    <3>1. s.missedTicks \in Int
      BY <1>0 DEF Schedulers
    <3> QED BY <1>2, <1>4, <1>9, <3>1 DEF Elapsed, SameState
  <2>2. PICK again : again = (s'.tick < s.tick)
    OBVIOUS
  <2>3. again \in BOOLEAN /\ again = (z.tick = 0) /\ 1 \in 0..portMAX_DELAY
    <3>1. s.tick \in 0..portMAX_DELAY /\ portMAX_DELAY \in Nat /\ TickModulus = portMAX_DELAY + 1
          /\ TickModulus > 2
      BY <1>0, TicksAssumption DEF Schedulers, portMAX_DELAY
    <3>2. z.tick = IF s.tick + 1 < TickModulus THEN s.tick + 1 ELSE s.tick + 1 - TickModulus
      BY <2>1 DEF Later
    <3>3. (s'.tick < s.tick) <=> (z.tick = 0)
      BY <1>4, <3>1, <3>2
    <3>4. 1 \in 0..portMAX_DELAY
      BY <3>1
    <3>5. (s'.tick < s.tick) \in BOOLEAN
      BY <1>4, <3>1, <3>2
    <3> QED BY <2>2, <3>3, <3>4, <3>5
  <2>4. call' = Wrap(Counting, again)
    BY <1>5, <1>9, <2>3
  <2>5. ASSUME NEW t \in Tasks PROVE TimeOK(s', call'[t], t)
    <3>1. PICK c, d \in Records : c = call[t] /\ d = call'[t] /\ c \in Records
      BY <1>0
    <3>2. /\ Aged(Counting[t], d, again) /\ d.waited = Counting[t].waited
          /\ d.at = Counting[t].at /\ d.after = Counting[t].after
      <4>1. PICK k : k = Counting
        OBVIOUS
      <4>2. k \in [Tasks -> Records] /\ d = Wrap(k, again)[t]
        BY <1>6, <2>4, <3>1, <4>1
      <4>3. /\ Aged(k[t], d, again) /\ d.waited = k[t].waited
            /\ d.at = k[t].at /\ d.after = k[t].after
        <5>1. again \in BOOLEAN /\ t \in Tasks
          BY <2>3
        <5>2. PICK e : e = Wrap(k, again)[t]
          OBVIOUS
        <5>3. Aged(k[t], e, again) /\ e.waited = k[t].waited /\ e.at = k[t].at /\ e.after = k[t].after
          BY <4>2, <5>1, <5>2, WrapAged
        <5> QED BY <4>2, <5>2, <5>3
      <4> QED BY <4>1, <4>3
    <3>3. /\ Aged(c, d, again) /\ d.at = c.at
          /\ d.waited = IF c.entrySet = 1 /\ c.waited < c.limit /\ c.limit < portMAX_DELAY
                        THEN c.waited + 1 ELSE c.waited
      BY <1>7, <3>1, <3>2 DEF Aged
    <3>4. TimeOK(s, c, t)
      BY <3>1 DEF Times
    <3>5. d.at \notin {"test", "place"} \cup Leaving
      BY <1>9, <3>1, <3>3 DEF Base, Sound, Suspension, Suspending, Leaving
    <3>6. CASE d.op \notin EventLists
      BY <3>1, <3>6 DEF TimeOK
    <3>7. CASE d.op \in EventLists
      <4>1. c.entrySet = 0 => d.at = "top"
        BY <3>3, <3>4, <3>7 DEF Aged, TimeOK
      <4>2. 0 \in {0, 1} /\ 0 # 1 /\ 1 = 1
        OBVIOUS
      <4>3. PICK one, none : one = 1 /\ none = 0
        OBVIOUS
      <4>4. OverTicks(s, s', one, none, t, c, d, again)
        BY <1>0, <2>1, <2>2, <2>3, <3>1, <3>3, <3>4, <3>5, <4>1, <4>2, <4>3 DEF OverTicks
      <4>5. TimeOK(s', d, t)
        BY <4>4, AgedTimes
      <4> QED BY <3>1, <4>5
    <3> QED BY <3>6, <3>7
  <2> QED BY <2>5 DEF Times
<1> QED BY <1>0, <1>8, <1>9

(* Every step keeps Times. *)
LEMMA NextTimes == Inv /\ Times /\ [Next]_vars => Times'
<1> SUFFICES ASSUME Inv, Times, [Next]_vars PROVE Times'
  OBVIOUS
<1>0. Typed /\ Base /\ Holding /\ Typed' /\ s' \in Schedulers
  BY NextInv DEF Inv, Typed
<1>1. CASE \/ \E op \in EventLists, n \in BlockTimes : Begin(op, n)
           \/ \E n \in Delays : BeginDelay(n)
           \/ vTaskDelay \/ Transfer \/ Fail \/ vTaskSuspendAll
           \/ prvLockQueue \/ Retest \/ UnlockTx \/ UnlockRx \/ portYIELD
  BY <1>0, <1>1, CallTimes
<1>2. CASE vTaskSetTimeOutState
  BY <1>0, <1>2, SetTimeOutTimes
<1>3. CASE xTaskCheckForTimeOut
  BY <1>0, <1>3, CheckTimes
<1>4. CASE Place
  BY <1>0, <1>4, PlaceTimes
<1>5. CASE xTaskResumeAll
  BY <1>0, <1>5, ResumeTimes
<1>6. CASE vTickISR
  BY <1>0, <1>6, TickTimes
<1>7. ASSUME NEW op \in EventLists, DeviceISR(op) PROVE Times'
  BY <1>0, <1>7, DeviceTimes
<1>8. CASE UNCHANGED vars
  <2>1. s' = s /\ call' = call
    BY <1>8 DEF vars
  <2> QED BY <2>1 DEF Times, TimeOK, Since, Spent, Asleep, Left
<1> QED BY <1>1, <1>2, <1>3, <1>4, <1>5, <1>6, <1>7, <1>8
        DEF Next, xQueueGenericSendFromISR, xQueueReceiveFromISR, EventLists

(* A call only gives up when its block time is over, however often it was *)
(* woken in vain and although the tick count comes round, and its task    *)
(* does not sleep on when it is (BlockTimesKept).                         *)
THEOREM NobodyGivesUpEarly == Spec => []BlockTimesKept
<1>1. Init => Times
  <2> SUFFICES ASSUME Init, NEW t \in Tasks PROVE TimeOK(s, call[t], t)
    BY DEF Times
  <2>1. call[t].op \notin EventLists
    BY DEF Init, NoCall, EventLists
  <2> QED BY <2>1 DEF TimeOK
<1>2. Inv /\ Times => BlockTimesKept
  <2> SUFFICES ASSUME Inv, Times, NEW t \in Tasks, Timed(t)
               PROVE  /\ GivingUp(t) => call[t].waited >= call[t].limit
                      /\ s.suspended = 0 /\ t \in ToSet(s.delayed) \cup ToSet(s.overflow)
                           => call[t].waited < call[t].limit
    BY DEF BlockTimesKept
  <2>1. TimeOK(s, call[t], t) /\ call[t] \in Records /\ s \in Schedulers
        /\ call[t].op \in EventLists /\ call[t].limit < portMAX_DELAY /\ call[t].stalled = 0
    BY DEF Times, Timed, Inv, Typed
  <2>2. GivingUp(t) => call[t].waited >= call[t].limit
    BY <2>1 DEF TimeOK, GivingUp, Leaving
  <2>3. ASSUME s.suspended = 0, t \in Asleep(s) PROVE call[t].waited < call[t].limit
    <3>1. /\ Left(s, t) = call[t].wait - Since(s, call[t])
          /\ call[t].waited = IF Spent(s, call[t]) <= call[t].limit THEN Spent(s, call[t])
                              ELSE call[t].limit
      BY <2>1, <2>3 DEF TimeOK
    <3>2. Left(s, t) \in 1..portMAX_DELAY /\ s.missedTicks = 0
      BY <2>1, <2>3, LeftFacts DEF Inv, Base, Sound, Orderly, Lists, Suspension
    <3>3. /\ call[t].wait \in Int /\ call[t].limit \in Int /\ Since(s, call[t]) \in Int
      BY <2>1, RecordFacts
    <3>4. Spent(s, call[t]) < call[t].limit
      BY <3>1, <3>2, <3>3 DEF Spent
    <3>5. Spent(s, call[t]) <= call[t].limit
      BY <2>1, <3>3, <3>4, RecordFacts
    <3> QED BY <3>1, <3>4, <3>5
  <2> QED BY <2>2, <2>3 DEF Asleep
<1> QED BY <1>1, <1>2, NextTimes, Invariance, PTL DEF Spec
=============================================================================
