-------------------------- MODULE MazeGator_proofs --------------------------
(***************************************************************************)
(* The record of a left-hand run is the route of the maze, for every tree  *)
(* maze of every grid and every length of the array.                       *)
(*                                                                         *)
(* Each corridor of a tree leads from one of its ends to that end's parent *)
(* on the way to the finish.  The points a left-hand run has not turned    *)
(* its back on form a path on which no way that comes before the one taken *)
(* leads to a parent; such a path that ends at the finish is the route     *)
(* (PathIsRoute).  The turns of the array, folded with the else-ifs of     *)
(* shortestPath as they come in, are the turns of that path, with one      *)
(* U-turn at the end while the robot is on its way back (At); the cutting  *)
(* in place does that folding from the left (Cut, ReducedFacts).  Both     *)
(* meet in Exploring and FileOK, parts of the invariant.                   *)
(***************************************************************************)
EXTENDS MazeGator, SequenceTheorems, FiniteSetTheorems, WellFoundedInduction, TLAPS

-----------------------------------------------------------------------------
(* Headings, points and mazes. *)

(* Every nonempty set of natural numbers has a least element. *)
LEMMA LeastElement ==
  ASSUME NEW T \in SUBSET Nat, T # {}
  PROVE  \E x \in T : \A y \in T : x <= y
<1>1. IsWellFoundedOn(OpToRel(<, Nat), Nat)
  BY NatLessThanWellFounded
<1>2. PICK x \in T : \A y \in T : ~(<<y, x>> \in OpToRel(<, Nat))
  BY <1>1, WFMin
<1>3. \A y \in T : ~(y < x)
  BY <1>2 DEF OpToRel
<1> QED BY <1>3

(* Induction up to n, for a set in place of a predicate. *)
LEMMA UpTo ==
  ASSUME NEW n \in Nat, NEW S, 0 \in S, \A i \in 1..n : i - 1 \in S => i \in S
  PROVE  0..n \subseteq S
<1> SUFFICES ASSUME ~(0..n \subseteq S) PROVE FALSE
  OBVIOUS
<1> DEFINE T == (0..n) \ S
<1>1. PICK x \in T : \A y \in T : x <= y
  <2>1. T \in SUBSET Nat /\ T # {}
    OBVIOUS
  <2> HIDE DEF T
  <2> QED BY <2>1, LeastElement
<1>2. x \in 1..n /\ x - 1 \in 0..n /\ x - 1 \notin T
  BY <1>1
<1> QED BY <1>1, <1>2

(* The four headings around one of them. *)
LEMMA HeadingFacts ==
  ASSUME NEW d \in Headings
  PROVE  /\ {LeftOf(d), RightOf(d), BackOf(d)} \subseteq Headings
         /\ Headings = {d, LeftOf(d), RightOf(d), BackOf(d)}
         /\ BackOf(BackOf(d)) = d
         /\ d # LeftOf(d) /\ d # RightOf(d) /\ d # BackOf(d)
         /\ LeftOf(d) # RightOf(d) /\ LeftOf(d) # BackOf(d) /\ RightOf(d) # BackOf(d)
  BY DEF Headings, LeftOf, RightOf, BackOf

(* Steps to the four sides lead to four points, and back. *)
LEMMA AheadFacts ==
  ASSUME NEW n \in Int \X Int, NEW d \in Headings
  PROVE  /\ Ahead(n, d) \in Int \X Int /\ Ahead(n, d) # n
         /\ Ahead(Ahead(n, d), BackOf(d)) = n
         /\ \A e \in Headings : Ahead(n, e) = Ahead(n, d) => e = d
<1>1. n = <<n[1], n[2]>> /\ n[1] \in Int /\ n[2] \in Int
  OBVIOUS
<1>2. /\ Ahead(n, 0) = <<n[1], n[2] + 1>> /\ Ahead(n, 1) = <<n[1] + 1, n[2]>>
      /\ Ahead(n, 2) = <<n[1], n[2] - 1>> /\ Ahead(n, 3) = <<n[1] - 1, n[2]>>
  BY <1>1 DEF Ahead
<1>3. d \in {0, 1, 2, 3} /\ Headings = {0, 1, 2, 3}
  BY DEF Headings
<1>4. Ahead(n, d) \in Int \X Int
  BY <1>1, <1>2, <1>3
<1>5. Ahead(n, d) # n
  BY <1>1, <1>2, <1>3
<1>6. \A e \in Headings : Ahead(n, e) = Ahead(n, d) => e = d
  BY <1>1, <1>2, <1>3
<1>7. Ahead(Ahead(n, d), BackOf(d)) = n
  <2> DEFINE k == Ahead(n, d)
  <2>1. k = <<k[1], k[2]>> /\ k[1] \in Int /\ k[2] \in Int
    BY <1>4
  <2>2. /\ Ahead(k, 0) = <<k[1], k[2] + 1>> /\ Ahead(k, 1) = <<k[1] + 1, k[2]>>
        /\ Ahead(k, 2) = <<k[1], k[2] - 1>> /\ Ahead(k, 3) = <<k[1] - 1, k[2]>>
    BY <2>1 DEF Ahead
  <2>3. BackOf(0) = 2 /\ BackOf(1) = 3 /\ BackOf(2) = 0 /\ BackOf(3) = 1
    BY DEF BackOf
  <2>4. CASE d = 0
    <3>1. k = <<n[1], n[2] + 1>> /\ BackOf(d) = 2
      BY <1>2, <2>3, <2>4
    <3>2. Ahead(k, 2) = <<n[1], (n[2] + 1) - 1>>
      BY <3>1, <2>2
    <3> QED BY <3>1, <3>2, <1>1
  <2>5. CASE d = 1
    <3>1. k = <<n[1] + 1, n[2]>> /\ BackOf(d) = 3
      BY <1>2, <2>3, <2>5
    <3>2. Ahead(k, 3) = <<(n[1] + 1) - 1, n[2]>>
      BY <3>1, <2>2
    <3> QED BY <3>1, <3>2, <1>1
  <2>6. CASE d = 2
    <3>1. k = <<n[1], n[2] - 1>> /\ BackOf(d) = 0
      BY <1>2, <2>3, <2>6
    <3>2. Ahead(k, 0) = <<n[1], (n[2] - 1) + 1>>
      BY <3>1, <2>2
    <3> QED BY <3>1, <3>2, <1>1
  <2>7. CASE d = 3
    <3>1. k = <<n[1] - 1, n[2]>> /\ BackOf(d) = 1
      BY <1>2, <2>3, <2>7
    <3>2. Ahead(k, 1) = <<(n[1] - 1) + 1, n[2]>>
      BY <3>1, <2>2
    <3> QED BY <3>1, <3>2, <1>1
  <2> QED BY <1>3, <2>4, <2>5, <2>6, <2>7
<1> QED BY <1>4, <1>5, <1>6, <1>7

(* What a maze is, as far as the proofs need it. *)
MazeOK(m) ==
  /\ Points(m) = Grid /\ IsFiniteSet(Grid) /\ Grid \subseteq Int \X Int
  /\ m.start \in Grid /\ m.finish \in Grid /\ m.start # m.finish /\ m.facing \in Headings
  /\ \A d \in Headings : Open(m, m.start, d) <=> d = m.facing
  /\ \A x \in m.corridors : \E n \in Grid, d \in Headings : Ahead(n, d) \in Grid /\ x = {n, Ahead(n, d)}
  /\ IsFiniteSet(m.corridors) /\ Cardinality(Grid) = Cardinality(m.corridors) + 1
  /\ Grid = Within(m)[Cardinality(Grid)]

(* What the proofs need holds of every maze. *)
LEMMA MazeFacts ==
  ASSUME NEW m \in Mazes
  PROVE  MazeOK(m)
<1>1. /\ m.corridors \in Spanning /\ m.start = <<0, 0>> /\ m.facing \in Headings
      /\ m.finish \in Grid /\ m.finish # <<0, 0>> /\ IsTreeMaze(m)
  BY DEF Mazes
<1>2. m.corridors \subseteq GridCorridors /\ UNION m.corridors = Grid
  BY <1>1 DEF Spanning
<1>3. Points(m) = Grid
  BY <1>2 DEF Points
<1>4. Width \in Nat \ {0} /\ Height \in Nat \ {0}
  BY GridAssumption
<1>5. IsFiniteSet(Grid)
  <2>1. IsFiniteSet(0..(Width - 1)) /\ IsFiniteSet(0..(Height - 1))
    BY <1>4, FS_Interval
  <2> QED BY <2>1, FS_Product DEF Grid
<1>6. Grid \subseteq Int \X Int /\ <<0, 0>> \in Grid
  BY <1>4 DEF Grid
<1>7. \A x \in m.corridors : \E n \in Grid, d \in Headings : Ahead(n, d) \in Grid /\ x = {n, Ahead(n, d)}
  <2> SUFFICES ASSUME NEW x \in m.corridors
               PROVE  \E n \in Grid, d \in Headings : Ahead(n, d) \in Grid /\ x = {n, Ahead(n, d)}
    OBVIOUS
  <2>1. x \in {{n, Ahead(n, d)} : n \in Grid, d \in {0, 1}} /\ x \subseteq Grid
    BY <1>2 DEF GridCorridors
  <2>2. PICK n \in Grid, d \in {0, 1} : x = {n, Ahead(n, d)}
    BY <2>1
  <2> QED BY <2>1, <2>2 DEF Headings
<1>8. IsFiniteSet(m.corridors)
  <2>1. IsFiniteSet(SUBSET Grid)
    BY <1>5, FS_SUBSET
  <2>2. m.corridors \subseteq SUBSET Grid
    BY <1>2 DEF GridCorridors
  <2> QED BY <2>1, <2>2, FS_Subset
<1>9. /\ Cardinality(Grid) = Cardinality(m.corridors) + 1
      /\ Grid = Within(m)[Cardinality(Grid)]
      /\ {d \in Headings : Open(m, m.start, d)} = {m.facing}
  BY <1>1, <1>3 DEF IsTreeMaze
<1>10. \A d \in Headings : Open(m, m.start, d) <=> d = m.facing
  BY <1>9
<1> QED BY <1>1, <1>3, <1>5, <1>6, <1>7, <1>8, <1>9, <1>10 DEF MazeOK

(* Corridors are two-way, and where there is one, both ends are points. *)
LEMMA OpenFacts ==
  ASSUME NEW m, MazeOK(m), NEW n \in Grid, NEW d \in Headings, Open(m, n, d)
  PROVE  /\ Ahead(n, d) \in Grid /\ Ahead(n, d) # n
         /\ Open(m, Ahead(n, d), BackOf(d)) /\ Ahead(Ahead(n, d), BackOf(d)) = n
         /\ Ahead(n, d) \in Neighbours(m, n) /\ n \in Neighbours(m, Ahead(n, d))
<1>1. n \in Int \X Int /\ BackOf(d) \in Headings
  BY HeadingFacts DEF MazeOK
<1>2. Ahead(n, d) # n /\ Ahead(Ahead(n, d), BackOf(d)) = n
  BY <1>1, AheadFacts
<1>3. {n, Ahead(n, d)} \in m.corridors
  BY DEF Open
<1>4. Ahead(n, d) \in Grid
  <2>1. PICK k \in Grid, e \in Headings : Ahead(k, e) \in Grid /\ {n, Ahead(n, d)} = {k, Ahead(k, e)}
    BY <1>3 DEF MazeOK
  <2> QED BY <2>1
<1>5. Open(m, Ahead(n, d), BackOf(d))
  <2>1. {Ahead(n, d), n} = {n, Ahead(n, d)}
    OBVIOUS
  <2> QED BY <1>2, <1>3, <2>1 DEF Open
<1>6. Ahead(n, d) \in Neighbours(m, n)
  BY DEF Neighbours
<1>7. n \in Neighbours(m, Ahead(n, d))
  BY <1>1, <1>2, <1>5 DEF Neighbours
<1> QED BY <1>2, <1>4, <1>5, <1>6, <1>7

-----------------------------------------------------------------------------
(* Distances: a tree is walked towards its root. *)

(* What the k-th set of Within is, from the one before. *)
Reached(f, m, k) ==
  IF k = 0 THEN {m.finish} ELSE f[k - 1] \cup UNION {Neighbours(m, p) : p \in f[k - 1]}

(* The recursive function of Within exists, up to every number. *)
LEMMA ReachedExists ==
  ASSUME NEW m, NEW n \in Nat
  PROVE  \E f : f = [k \in 0..n |-> Reached(f, m, k)]
<1> DEFINE Q(i) == \E f : f = [k \in 0..i |-> Reached(f, m, k)]
           I == {i \in 0..n : Q(i)}
<1>1. 0 \in I
  <2> DEFINE g == [k \in 0..0 |-> {m.finish}]
  <2>1. g = [k \in 0..0 |-> Reached(g, m, k)]
    BY DEF Reached
  <2>2. Q(0)
    <3> HIDE DEF g
    <3> QED BY <2>1
  <2> QED BY <2>2
<1>2. ASSUME NEW i \in 1..n, i - 1 \in I PROVE i \in I
  <2>1. PICK f : f = [k \in 0..(i - 1) |-> Reached(f, m, k)]
    BY <1>2
  <2> DEFINE g == [k \in 0..i |-> IF k = i THEN Reached(f, m, i) ELSE f[k]]
  <2>2. ASSUME NEW k \in 0..i PROVE g[k] = Reached(g, m, k)
    <3>1. k # 0 => k - 1 \in 0..(i - 1) /\ g[k - 1] = f[k - 1]
      OBVIOUS
    <3>2. k # i => f[k] = Reached(f, m, k)
      <4>1. k # i => k \in 0..(i - 1)
        OBVIOUS
      <4> QED BY <4>1, <2>1
    <3>3. Reached(f, m, k) = Reached(g, m, k)
      BY <3>1 DEF Reached
    <3>4. g[k] = Reached(f, m, k)
      BY <3>2
    <3> QED BY <3>3, <3>4
  <2>3. g = [k \in 0..i |-> Reached(g, m, k)]
    BY <2>2
  <2>4. Q(i)
    <3> HIDE DEF g
    <3> QED BY <2>3
  <2> QED BY <2>4
<1>3. 0..n \subseteq I
  <2> HIDE DEF I
  <2> QED BY <1>1, <1>2, UpTo
<1> QED BY <1>3

(* Within is what its recursion says. *)
LEMMA WithinFacts ==
  ASSUME NEW m, Cardinality(Points(m)) \in Nat
  PROVE  /\ DOMAIN Within(m) = 0..Cardinality(Points(m))
         /\ \A k \in 0..Cardinality(Points(m)) : Within(m)[k] = Reached(Within(m), m, k)
<1> DEFINE N == Cardinality(Points(m))
           reach == CHOOSE f : f = [k \in 0..N |-> Reached(f, m, k)]
<1>1. reach = [k \in 0..N |-> Reached(reach, m, k)]
  BY ReachedExists
<1>2. Within(m) = [k \in DOMAIN reach |-> reach[k]]
  BY DEF Within, Reached
<1> HIDE DEF N, reach
<1>3. DOMAIN reach = 0..N
  BY <1>1
<1>4. Within(m) = reach
  BY <1>1, <1>2, <1>3
<1> QED BY <1>1, <1>3, <1>4 DEF N

(* The neighbours of a point are where a corridor leads. *)
LEMMA NeighbourFacts ==
  ASSUME NEW m, MazeOK(m), NEW p \in Grid, NEW q
  PROVE  q \in Neighbours(m, p) <=>
           q \in Grid /\ \E d \in Headings : Open(m, p, d) /\ q = Ahead(p, d)
  BY OpenFacts DEF Neighbours

(* Two points are neighbours of each other. *)
LEMMA Mutual ==
  ASSUME NEW m, MazeOK(m), NEW p \in Grid, NEW q \in Neighbours(m, p)
  PROVE  q \in Grid /\ p \in Neighbours(m, q)
  BY OpenFacts, NeighbourFacts

(* Distances, as the breadth-first search finds them. *)
DistanceOK(m) ==
  /\ Distance(m) \in [Grid -> Nat]
  /\ Distance(m)[m.finish] = 0
  /\ \A p \in Grid \ {m.finish} :
       /\ Distance(m)[p] > 0
       /\ \E q \in Neighbours(m, p) : q \in Grid /\ Distance(m)[q] = Distance(m)[p] - 1

(* Distance counts the corridors to the finish. *)
LEMMA DistanceFacts ==
  ASSUME NEW m, MazeOK(m)
  PROVE  DistanceOK(m)
<1> DEFINE N == Cardinality(Grid)
           W == Within(m)
           D == Distance(m)
<1>1. Points(m) = Grid /\ N \in Nat /\ W[N] = Grid /\ m.finish \in Grid
  BY FS_CardinalityType DEF MazeOK
<1>2. DOMAIN W = 0..N /\ \A k \in 0..N : W[k] = Reached(W, m, k)
  BY <1>1, WithinFacts
<1> HIDE DEF N, W
<1>3. W[0] = {m.finish}
  BY <1>1, <1>2 DEF Reached
<1>4. \A k \in 1..N : W[k] = W[k - 1] \cup UNION {Neighbours(m, p) : p \in W[k - 1]}
  BY <1>1, <1>2 DEF Reached
<1>5. ASSUME NEW i \in 0..N, NEW j \in 0..N, i <= j PROVE W[i] \subseteq W[j]
  <2> DEFINE S == {k \in 0..(N - i) : W[i] \subseteq W[i + k]}
  <2>1. 0 \in S /\ N - i \in Nat
    BY <1>1
  <2>2. \A k \in 1..(N - i) : k - 1 \in S => k \in S
    <3> SUFFICES ASSUME NEW k \in 1..(N - i), k - 1 \in S PROVE k \in S
      OBVIOUS
    <3>1. i + k \in 1..N /\ (i + k) - 1 = i + (k - 1)
      BY <1>1
    <3>2. W[i + (k - 1)] \subseteq W[i + k]
      BY <1>4, <3>1
    <3> QED BY <3>2
  <2>3. 0..(N - i) \subseteq S
    <3> HIDE DEF S
    <3> QED BY <2>1, <2>2, UpTo
  <2>4. j - i \in 0..(N - i) /\ i + (j - i) = j
    BY <1>1, <1>5
  <2>5. j - i \in S
    BY <2>3, <2>4
  <2> QED BY <2>4, <2>5
<1>6. \A k \in 0..N : W[k] \subseteq Grid
  BY <1>1, <1>5
<1>7. \A p \in Grid : \E k \in 0..N : p \in W[k] /\ (k > 0 => p \notin W[k - 1])
  <2> SUFFICES ASSUME NEW p \in Grid
               PROVE  \E k \in 0..N : p \in W[k] /\ (k > 0 => p \notin W[k - 1])
    OBVIOUS
  <2> DEFINE T == {k \in 0..N : p \in W[k]}
  <2>1. T \in SUBSET Nat /\ T # {}
    BY <1>1
  <2>2. PICK k \in T : \A y \in T : k <= y
    <3> HIDE DEF T
    <3> QED BY <2>1, LeastElement
  <2>3. k > 0 => k - 1 \in 0..N
    BY <2>2, <1>1
  <2>4. k > 0 => k - 1 \notin T
    BY <2>2, <1>1
  <2> QED BY <2>2, <2>3, <2>4
<1>8. D = [p \in Grid |-> CHOOSE k \in 0..N : p \in W[k] /\ (k > 0 => p \notin W[k - 1])]
  BY <1>1, <1>2 DEF Distance, W
<1> HIDE DEF D
<1>9. \A p \in Grid : D[p] \in 0..N /\ p \in W[D[p]] /\ (D[p] > 0 => p \notin W[D[p] - 1])
  BY <1>7, <1>8
<1>10. D \in [Grid -> Nat]
  BY <1>8, <1>9, <1>1
<1>11. ASSUME NEW p \in Grid, NEW k \in 0..N, p \in W[k] PROVE D[p] <= k
  <2> SUFFICES ASSUME D[p] > k PROVE FALSE
    BY <1>9, <1>1
  <2>1. D[p] > 0 /\ D[p] - 1 \in 0..N /\ k <= D[p] - 1
    BY <1>9, <1>1
  <2>2. W[k] \subseteq W[D[p] - 1]
    BY <1>5, <2>1
  <2> QED BY <1>9, <2>1, <2>2, <1>11
<1>12. D[m.finish] = 0
  BY <1>1, <1>3, <1>11, <1>9
<1>13. ASSUME NEW p \in Grid \ {m.finish}
       PROVE  /\ D[p] > 0
              /\ \E q \in Neighbours(m, p) : q \in Grid /\ D[q] = D[p] - 1
  <2>1. D[p] > 0 /\ D[p] \in 1..N
    BY <1>9, <1>3, <1>1
  <2>2. PICK q \in W[D[p] - 1] : p \in Neighbours(m, q)
    BY <2>1, <1>4, <1>9
  <2>3. q \in Grid /\ D[p] - 1 \in 0..N
    BY <2>1, <1>6, <1>1
  <2>4. q \in Neighbours(m, p)
    BY <2>2, <2>3, Mutual
  <2>5. D[q] <= D[p] - 1
    BY <2>2, <2>3, <1>11
  <2>6. D[q] \in 0..N /\ D[q] + 1 \in 1..N /\ (D[q] + 1) - 1 = D[q]
    BY <2>3, <2>5, <1>9, <1>1, <2>1
  <2>7. p \in W[D[q] + 1]
    BY <2>2, <2>3, <2>6, <1>4, <1>9
  <2>8. D[p] <= D[q] + 1
    BY <2>6, <2>7, <1>11, <1>1
  <2> QED BY <2>1, <2>3, <2>4, <2>5, <2>6, <2>8
<1> QED BY <1>10, <1>12, <1>13 DEF DistanceOK, D

(* The point after p on the way to the finish. *)
Parent(m, p) == Nearer(m, Distance(m), p)

(* In a tree, one end of each corridor is the parent of the other. *)
TreeOK(m) ==
  /\ \A p \in Grid \ {m.finish} :
       /\ Parent(m, p) \in Grid /\ Parent(m, p) \in Neighbours(m, p)
       /\ Distance(m)[Parent(m, p)] = Distance(m)[p] - 1
  /\ \A p \in Grid : \A q \in Neighbours(m, p) :
       \/ p # m.finish /\ q = Parent(m, p)
       \/ q # m.finish /\ p = Parent(m, q)

(* The corridors are one per point but the finish, so each is the way *)
(* from one of its ends to that one's parent.                         *)
LEMMA TreeFacts ==
  ASSUME NEW m, MazeOK(m)
  PROVE  TreeOK(m)
<1> DEFINE D == Distance(m)
           par(p) == Parent(m, p)
           V == Grid \ {m.finish}
           e == [p \in V |-> {p, par(p)}]
<1>1. DistanceOK(m)
  BY DistanceFacts
<1>2. D \in [Grid -> Nat]
  BY <1>1 DEF DistanceOK
<1>3. ASSUME NEW p \in V
      PROVE  par(p) \in Grid /\ par(p) \in Neighbours(m, p) /\ D[par(p)] < D[p]
  <2>1. PICK q \in Neighbours(m, p) : q \in Grid /\ D[q] = D[p] - 1
    BY <1>1 DEF DistanceOK
  <2>2. D[q] < D[p]
    BY <1>2, <2>1
  <2>3. par(p) \in Neighbours(m, p) /\ D[par(p)] < D[p]
    BY <2>1, <2>2 DEF Parent, Nearer
  <2> QED BY <2>3, Mutual
<1>4. ASSUME NEW p \in Grid, NEW q \in Neighbours(m, p) PROVE {p, q} \in m.corridors
  BY DEF Neighbours, Open
<1> HIDE DEF D, par
<1>5. e \in [V -> m.corridors]
  BY <1>3, <1>4
<1>6. ASSUME NEW p \in V, NEW q \in V, e[p] = e[q] PROVE p = q
  <2> SUFFICES ASSUME p # q PROVE FALSE
    OBVIOUS
  <2>1. {p, par(p)} = {q, par(q)}
    BY <1>6
  <2>2. p = par(q) /\ q = par(p)
    BY <2>1
  <2>3. D[p] < D[q] /\ D[q] < D[p] /\ D[p] \in Nat /\ D[q] \in Nat
    BY <2>2, <1>3, <1>2
  <2> QED BY <2>3
<1>7. IsFiniteSet(V) /\ Cardinality(V) = Cardinality(m.corridors)
  <2>1. IsFiniteSet(Grid) /\ m.finish \in Grid /\ Cardinality(Grid) = Cardinality(m.corridors) + 1
        /\ IsFiniteSet(m.corridors)
    BY DEF MazeOK
  <2>2. IsFiniteSet(V) /\ Cardinality(V) = Cardinality(Grid) - 1
    BY <2>1, FS_RemoveElement
  <2>3. Cardinality(m.corridors) \in Nat
    BY <2>1, FS_CardinalityType
  <2> QED BY <2>1, <2>2, <2>3
<1>8. {e[p] : p \in V} = m.corridors
  <2> DEFINE R == {e[p] : p \in V}
  <2>1. e \in Bijection(V, R)
    BY <1>5, <1>6 DEF Bijection, Injection, Surjection, IsInjective
  <2>2. IsFiniteSet(R) /\ Cardinality(R) = Cardinality(V)
    <3>1. ExistsBijection(V, R)
      BY <2>1 DEF ExistsBijection
    <3> QED BY <3>1, <1>7, FS_Bijection
  <2>3. R \subseteq m.corridors /\ IsFiniteSet(m.corridors)
    <3>1. R \subseteq m.corridors
      <4> HIDE DEF e, V
      <4> QED BY <1>5
    <3> QED BY <3>1 DEF MazeOK
  <2> QED BY <2>2, <2>3, <1>7, FS_Subset
<1>9. ASSUME NEW p \in Grid, NEW q \in Neighbours(m, p)
      PROVE  (p \in V /\ q = par(p)) \/ (q \in V /\ p = par(q))
  <2>1. {p, q} \in {e[r] : r \in V}
    BY <1>4, <1>8, <1>9
  <2>2. PICK r \in V : {p, q} = e[r]
    <3> HIDE DEF e, V
    <3> QED BY <2>1
  <2>3. {p, q} = {r, par(r)}
    BY <2>2
  <2> QED BY <2>3
<1>10. ASSUME NEW p \in V PROVE D[par(p)] = D[p] - 1
  <2>1. PICK q \in Neighbours(m, p) : q \in Grid /\ D[q] = D[p] - 1
    BY <1>1 DEF DistanceOK, D
  <2>2. D[q] < D[p]
    BY <2>1, <1>2
  <2>3. ~(q \in V /\ p = par(q))
    BY <1>2, <1>3, <2>1, <2>2
  <2> QED BY <1>9, <2>1, <2>3
<1> QED BY <1>3, <1>9, <1>10 DEF TreeOK, D, par

-----------------------------------------------------------------------------
(* The route and its turns. *)

(* What the i-th walk of Route is, from the one before. *)
Walked(f, m, i) ==
  IF i = 0 THEN <<m.start>> ELSE Append(f[i - 1], Nearer(m, Distance(m), f[i - 1][i]))

(* The recursive function of Route exists, up to every length. *)
LEMMA WalkedExists ==
  ASSUME NEW m, NEW n \in Nat
  PROVE  \E f : f = [i \in 0..n |-> Walked(f, m, i)]
<1> DEFINE Q(i) == \E f : f = [k \in 0..i |-> Walked(f, m, k)]
           I == {i \in 0..n : Q(i)}
<1>1. 0 \in I
  <2> DEFINE g == [k \in 0..0 |-> <<m.start>>]
  <2>1. g = [k \in 0..0 |-> Walked(g, m, k)]
    BY DEF Walked
  <2>2. Q(0)
    <3> HIDE DEF g
    <3> QED BY <2>1
  <2> QED BY <2>2
<1>2. ASSUME NEW i \in 1..n, i - 1 \in I PROVE i \in I
  <2>1. PICK f : f = [k \in 0..(i - 1) |-> Walked(f, m, k)]
    BY <1>2
  <2> DEFINE g == [k \in 0..i |-> IF k = i THEN Walked(f, m, i) ELSE f[k]]
  <2>2. ASSUME NEW k \in 0..i PROVE g[k] = Walked(g, m, k)
    <3>1. k # 0 => k - 1 \in 0..(i - 1) /\ g[k - 1] = f[k - 1]
      OBVIOUS
    <3>2. k # i => f[k] = Walked(f, m, k)
      <4>1. k # i => k \in 0..(i - 1)
        OBVIOUS
      <4> QED BY <4>1, <2>1
    <3>3. Walked(f, m, k) = Walked(g, m, k)
      BY <3>1 DEF Walked
    <3>4. g[k] = Walked(f, m, k)
      BY <3>2
    <3> QED BY <3>3, <3>4
  <2>3. g = [k \in 0..i |-> Walked(g, m, k)]
    BY <2>2
  <2>4. Q(i)
    <3> HIDE DEF g
    <3> QED BY <2>3
  <2> QED BY <2>4
<1>3. 0..n \subseteq I
  <2> HIDE DEF I
  <2> QED BY <1>1, <1>2, UpTo
<1> QED BY <1>3

(* A sequence of points each of which is the parent of the one before. *)
Ascent(m, w, n) ==
  /\ w \in Seq(Grid) /\ Len(w) = n + 1 /\ w[1] = m.start
  /\ \A j \in 1..n : w[j] # m.finish /\ w[j + 1] = Parent(m, w[j])
  /\ \A j \in 1..(n + 1) : Distance(m)[w[j]] = Distance(m)[m.start] + 1 - j

(* The route goes from parent to parent, up to the finish. *)
LEMMA RouteFacts ==
  ASSUME NEW m, MazeOK(m)
  PROVE  /\ Distance(m)[m.start] \in Nat
         /\ Ascent(m, Route(m), Distance(m)[m.start])
         /\ Route(m)[Distance(m)[m.start] + 1] = m.finish
<1> DEFINE D == Distance(m)
           n == D[m.start]
           walk == CHOOSE f : f = [i \in 0..n |-> Walked(f, m, i)]
           I == {i \in 0..n : Ascent(m, walk[i], i)}
<1>1. DistanceOK(m) /\ TreeOK(m) /\ m.start \in Grid /\ m.finish \in Grid
  BY DistanceFacts, TreeFacts DEF MazeOK
<1>2. D \in [Grid -> Nat] /\ n \in Nat /\ \A p \in Grid : D[p] = 0 <=> p = m.finish
  BY <1>1 DEF DistanceOK
<1>3. walk = [i \in 0..n |-> Walked(walk, m, i)]
  BY <1>2, WalkedExists
<1>4. Route(m) = walk[n]
  BY DEF Route, Walked
<1> HIDE DEF walk, n, D
<1>5. 0 \in I
  <2>1. walk[0] = <<m.start>>
    BY <1>2, <1>3 DEF Walked
  <2> DEFINE w == <<m.start>>
  <2>2. w \in Seq(Grid) /\ Len(w) = 0 + 1 /\ w[1] = m.start
    BY <1>1
  <2>3. \A j \in 1..0 : FALSE
    OBVIOUS
  <2>4. \A j \in 1..(0 + 1) : D[w[j]] = n + 1 - j
    <3>1. \A j \in 1..(0 + 1) : j = 1
      OBVIOUS
    <3>2. D[w[1]] = n + 1 - 1
      BY <1>2 DEF n
    <3> QED BY <3>1, <3>2
  <2> HIDE DEF w
  <2>5. Ascent(m, w, 0)
    BY <2>2, <2>3, <2>4 DEF Ascent, n, D
  <2> QED BY <2>1, <2>5, <1>2 DEF w
<1>6. ASSUME NEW i \in 1..n, i - 1 \in I PROVE i \in I
  <2> DEFINE w == walk[i - 1]
             p == Parent(m, w[i])
  <2>1. walk[i] = Append(w, p)
    <3>1. i \in 0..n /\ i # 0
      BY <1>2
    <3>2. walk[i] = Walked(walk, m, i)
      BY <1>3, <3>1
    <3> QED BY <3>1, <3>2 DEF Walked, Parent
  <2>2. Ascent(m, w, i - 1) /\ i \in 0..n
    BY <1>6, <1>2
  <2> HIDE DEF w
  <2>3. w \in Seq(Grid) /\ Len(w) = i /\ w[i] \in Grid /\ D[w[i]] = n + 1 - i
    BY <2>2, <1>2 DEF Ascent, n, D
  <2>4. w[i] # m.finish
    BY <2>3, <1>2
  <2>5. p \in Grid /\ D[p] = D[w[i]] - 1
    BY <2>3, <2>4, <1>1 DEF TreeOK, D
  <2> DEFINE v == Append(w, p)
  <2>6. v \in Seq(Grid) /\ Len(v) = i + 1 /\ v[i + 1] = p /\ \A j \in 1..i : v[j] = w[j]
    BY <2>3, <2>5
  <2> HIDE DEF p, v
  <2>7. v[1] = m.start
    BY <2>2, <2>6 DEF Ascent
  <2>8. ASSUME NEW j \in 1..i PROVE v[j] # m.finish /\ v[j + 1] = Parent(m, v[j])
    <3>1. CASE j = i
      BY <3>1, <2>6, <2>4 DEF p
    <3>2. CASE j # i
      <4>1. j \in 1..(i - 1) /\ j + 1 \in 1..i
        BY <3>2
      <4> QED BY <4>1, <2>2, <2>6 DEF Ascent
    <3> QED BY <3>1, <3>2
  <2>9. ASSUME NEW j \in 1..(i + 1) PROVE D[v[j]] = n + 1 - j
    <3>1. CASE j = i + 1
      BY <3>1, <2>6, <2>5, <2>3, <1>2
    <3>2. CASE j # i + 1
      <4>1. j \in 1..((i - 1) + 1) /\ j \in 1..i
        BY <3>2
      <4> QED BY <4>1, <2>2, <2>6 DEF Ascent, n, D
    <3> QED BY <3>1, <3>2
  <2>10. Ascent(m, v, i)
    BY <2>6, <2>7, <2>8, <2>9 DEF Ascent, n, D
  <2> QED BY <2>1, <2>2, <2>10 DEF v
<1>7. n \in I
  <2>1. 0..n \subseteq I
    <3> HIDE DEF I
    <3> QED BY <1>2, <1>5, <1>6, UpTo
  <2> QED BY <2>1, <1>2
<1>8. Ascent(m, Route(m), n)
  BY <1>4, <1>7
<1>9. Route(m)[n + 1] = m.finish
  <2> DEFINE R == Route(m)
  <2> HIDE DEF R, n, D
  <2>1. n + 1 \in 1..(n + 1) /\ n + 1 - (n + 1) = 0
    BY <1>2
  <2>2. R[n + 1] \in Grid /\ D[R[n + 1]] = n + 1 - (n + 1)
    BY <1>8, <2>1 DEF Ascent, R, D, n
  <2>3. R[n + 1] \in Grid /\ D[R[n + 1]] = 0
    BY <2>1, <2>2
  <2> QED BY <2>3, <1>2 DEF R
<1> QED BY <1>2, <1>8, <1>9 DEF n, D

(* The turns after i points, from those before. *)
NextTurns(T, m, pts, hd, i) ==
  IF i = 0 THEN <<>>
  ELSE IF Crossing(m, pts[i], hd[i]) THEN Append(T[i - 1], Turned(hd[i], hd[i + 1])) ELSE T[i - 1]

(* The turns of the route, from its headings. *)
LEMMA RouteTurnsFacts ==
  ASSUME NEW m, MazeOK(m), NEW k, k = Distance(m)[m.start] + 1, NEW hd, NEW T,
         hd[1] = m.facing, \A i \in 1..k : hd[i] \in Headings,
         \A i \in 1..(k - 1) : Ahead(Route(m)[i], hd[i + 1]) = Route(m)[i + 1],
         \A i \in 0..(k - 1) : T[i] = NextTurns(T, m, Route(m), hd, i)
  PROVE  RouteTurns(m) = Append(T[k - 1], "F")
<1> DEFINE R == Route(m)
           dirOf(i) == CHOOSE d \in Headings : Ahead(R[i], d) = R[i + 1]
           facing(i) == IF i = 1 THEN m.facing ELSE dirOf(i - 1)
           After(f, i) == IF i = 0 THEN <<>>
                          ELSE IF Crossing(m, R[i], facing(i))
                               THEN Append(f[i - 1], Turned(facing(i), dirOf(i)))
                               ELSE f[i - 1]
           turns == CHOOSE f : f = [i \in 0..(Len(R) - 1) |-> After(f, i)]
<1>1. RouteTurns(m) = Append(turns[Len(R) - 1], "F")
  BY DEF RouteTurns
<1>2. k \in Nat /\ k - 1 \in Nat /\ Len(R) = k /\ R \in Seq(Grid)
  BY RouteFacts DEF Ascent
<1>3. \A i \in 1..(k - 1) : dirOf(i) = hd[i + 1]
  <2> SUFFICES ASSUME NEW i \in 1..(k - 1) PROVE dirOf(i) = hd[i + 1]
    OBVIOUS
  <2>0. i \in 1..k /\ i + 1 \in 1..k
    BY <1>2
  <2>1. R[i] \in Int \X Int /\ i + 1 \in 1..k
    <3>1. R[i] \in Grid
      BY <1>2, <2>0
    <3> QED BY <2>0, <3>1 DEF MazeOK
  <2>2. hd[i + 1] \in Headings /\ Ahead(R[i], hd[i + 1]) = R[i + 1]
    BY <2>1
  <2>3. \A d \in Headings : Ahead(R[i], d) = R[i + 1] <=> d = hd[i + 1]
    BY <2>1, <2>2, AheadFacts
  <2> QED BY <2>2, <2>3
<1>4. \A i \in 1..(k - 1) : facing(i) = hd[i]
  <2> SUFFICES ASSUME NEW i \in 1..(k - 1) PROVE facing(i) = hd[i]
    OBVIOUS
  <2>1. i # 1 => i - 1 \in 1..(k - 1) /\ (i - 1) + 1 = i
    BY <1>2
  <2> QED BY <2>1, <1>3
<1> HIDE DEF dirOf, facing, R
<1>5. ASSUME NEW f, NEW i \in 0..(k - 1) PROVE After(f, i) = NextTurns(f, m, R, hd, i)
  BY <1>3, <1>4 DEF NextTurns
<1> HIDE DEF Next
<1>6. \E f : f = [i \in 0..(k - 1) |-> After(f, i)]
  <2> DEFINE f == [i \in 0..(k - 1) |-> T[i]]
  <2>1. \A i \in 0..(k - 1) : f[i] = NextTurns(f, m, R, hd, i)
    <3> SUFFICES ASSUME NEW i \in 0..(k - 1) PROVE f[i] = NextTurns(f, m, R, hd, i)
      OBVIOUS
    <3>1. i # 0 => f[i - 1] = T[i - 1]
      BY <1>2
    <3>2. f[i] = T[i] /\ T[i] = NextTurns(T, m, R, hd, i)
      BY DEF R
    <3> HIDE DEF f
    <3> QED BY <3>1, <3>2 DEF NextTurns
  <2>2. \A i \in 0..(k - 1) : f[i] = After(f, i)
    <3> HIDE DEF f
    <3> QED BY <2>1, <1>5
  <2>3. f = [i \in 0..(k - 1) |-> f[i]]
    OBVIOUS
  <2>4. f = [i \in 0..(k - 1) |-> After(f, i)]
    <3> HIDE DEF f
    <3> QED BY <2>2, <2>3
  <2> HIDE DEF f
  <2> QED BY <2>4
<1>7. turns = [i \in 0..(k - 1) |-> After(turns, i)]
  BY <1>2, <1>6
<1> HIDE DEF turns
<1> DEFINE I == {i \in 0..(k - 1) : turns[i] = T[i]}
<1>8. 0 \in I
  BY <1>2, <1>5, <1>7 DEF NextTurns
<1>9. ASSUME NEW i \in 1..(k - 1), i - 1 \in I PROVE i \in I
  <2>0. i \in 0..(k - 1)
    BY <1>2
  <2>1. turns[i] = NextTurns(turns, m, R, hd, i) /\ i \in 0..(k - 1)
    <3>1. turns[i] = After(turns, i)
      BY <1>7, <2>0
    <3> QED BY <3>1, <2>0, <1>5
  <2>2. T[i] = NextTurns(T, m, R, hd, i)
    BY <2>1 DEF R
  <2>3. turns[i - 1] = T[i - 1]
    BY <1>9
  <2> QED BY <2>1, <2>2, <2>3 DEF NextTurns
<1>10. 0..(k - 1) \subseteq I
  <2> HIDE DEF I
  <2> QED BY <1>2, <1>8, <1>9, UpTo
<1>11. turns[k - 1] = T[k - 1]
  BY <1>10, <1>2
<1> QED BY <1>1, <1>2, <1>11

-----------------------------------------------------------------------------
(* Paths the left-hand rule may be on. *)

(* The turns that remain in a record. *)
Ways == {"L", "R", "S"}

(* What the left-hand rule tries before d, coming with heading a. *)
Earlier(a, d) ==
  IF d = LeftOf(a) THEN {} ELSE IF d = a THEN {LeftOf(a)} ELSE {LeftOf(a), a}

(* That way does not lead to the finish. *)
Dead(m, p, d) == ~Open(m, p, d) \/ Ahead(p, d) # Parent(m, p)

(* A path of k points from the start, on which nothing before the way      *)
(* taken leads to the finish, with the turns on it.                        *)
Path(m, pts, hd, T, k) ==
  /\ k \in Nat \ {0}
  /\ \A i \in 1..k : pts[i] \in Grid /\ hd[i] \in Headings
  /\ pts[1] = m.start /\ hd[1] = m.facing
  /\ \A i \in 0..(k - 1) : T[i] \in Seq(Ways) /\ T[i] = NextTurns(T, m, pts, hd, i)
  /\ \A i \in 1..(k - 1) :
       /\ pts[i] # m.finish
       /\ Open(m, pts[i], hd[i + 1]) /\ pts[i + 1] = Ahead(pts[i], hd[i + 1])
       /\ hd[i + 1] # BackOf(hd[i])
       /\ \A d \in Earlier(hd[i], hd[i + 1]) : Dead(m, pts[i], d)
       /\ T[i] = <<>> => pts[i + 1] = Parent(m, pts[i])

(* A parent lies ahead, one corridor nearer to the finish. *)
LEMMA ParentAhead ==
  ASSUME NEW m, MazeOK(m), NEW p \in Grid, p # m.finish
  PROVE  /\ \E d \in Headings : Open(m, p, d) /\ Parent(m, p) = Ahead(p, d)
         /\ Parent(m, p) \in Grid /\ Distance(m)[p] \in Nat
         /\ Distance(m)[Parent(m, p)] = Distance(m)[p] - 1
<1>1. TreeOK(m) /\ DistanceOK(m)
  BY TreeFacts, DistanceFacts
<1>2. Parent(m, p) \in Neighbours(m, p) /\ Parent(m, p) \in Grid
      /\ Distance(m)[Parent(m, p)] = Distance(m)[p] - 1
  BY <1>1 DEF TreeOK
<1>3. Distance(m)[p] \in Nat
  BY <1>1 DEF DistanceOK
<1>4. \E d \in Headings : Open(m, p, d) /\ Parent(m, p) = Ahead(p, d)
  BY <1>2, NeighbourFacts
<1> QED BY <1>2, <1>3, <1>4

(* If one end of a corridor is the parent of the other, it is not the      *)
(* other way round; and it is one of the two.                              *)
LEMMA OneParent ==
  ASSUME NEW m, MazeOK(m), NEW p \in Grid, NEW d \in Headings, Open(m, p, d)
  PROVE  /\ p # m.finish /\ Ahead(p, d) = Parent(m, p) => p # Parent(m, Ahead(p, d)) \/ Ahead(p, d) = m.finish
         /\ p = m.finish \/ Ahead(p, d) # Parent(m, p) =>
              Ahead(p, d) # m.finish /\ p = Parent(m, Ahead(p, d))
<1> DEFINE q == Ahead(p, d)
<1>1. q \in Grid /\ q \in Neighbours(m, p)
  BY OpenFacts
<1>2. TreeOK(m)
  BY TreeFacts
<1>3. p = m.finish \/ q # Parent(m, p) => q # m.finish /\ p = Parent(m, q)
  BY <1>1, <1>2 DEF TreeOK
<1>4. p # m.finish /\ q = Parent(m, p) => p # Parent(m, q) \/ q = m.finish
  <2> SUFFICES ASSUME p # m.finish, q = Parent(m, p), p = Parent(m, q), q # m.finish PROVE FALSE
    OBVIOUS
  <2> HIDE DEF q
  <2>1. /\ Distance(m)[p] \in Nat /\ Distance(m)[q] \in Nat
        /\ Distance(m)[q] = Distance(m)[p] - 1 /\ Distance(m)[p] = Distance(m)[q] - 1
    BY <1>1, ParentAhead
  <2> QED BY <2>1
<1> QED BY <1>3, <1>4

(* On the path, the way back is open. *)
LEMMA WayBack ==
  ASSUME NEW m, MazeOK(m), NEW pts, NEW hd, NEW T, NEW k, Path(m, pts, hd, T, k),
         NEW i \in 2..k
  PROVE  /\ Open(m, pts[i], BackOf(hd[i])) /\ Ahead(pts[i], BackOf(hd[i])) = pts[i - 1]
         /\ i - 1 \in 1..(k - 1) /\ pts[i - 1] \in Grid /\ pts[i - 1] # m.finish
<1>1. i - 1 \in 1..(k - 1) /\ i - 1 \in 1..k /\ i \in 1..k /\ (i - 1) + 1 = i
  BY DEF Path
<1>2. /\ Open(m, pts[i - 1], hd[i]) /\ pts[i] = Ahead(pts[i - 1], hd[i])
      /\ pts[i - 1] \in Grid /\ hd[i] \in Headings /\ pts[i - 1] # m.finish
  BY <1>1 DEF Path
<1> QED BY <1>1, <1>2, OpenFacts

(* What the sensors report away from the finish. *)
LEMMA CrossingFacts ==
  ASSUME NEW m, NEW p, NEW d \in Headings, p # m.finish
  PROVE  /\ Crossing(m, p, d) <=> Open(m, p, LeftOf(d)) \/ Open(m, p, RightOf(d))
         /\ ErrorAt(m, p, d) = Bar <=> Open(m, p, LeftOf(d)) /\ Open(m, p, RightOf(d))
         /\ ErrorAt(m, p, d) = LeftBar <=> Open(m, p, LeftOf(d)) /\ ~Open(m, p, RightOf(d))
         /\ ErrorAt(m, p, d) = RightBar <=> ~Open(m, p, LeftOf(d)) /\ Open(m, p, RightOf(d))
         /\ ErrorAt(m, p, d) = Centred <=>
              ~Open(m, p, LeftOf(d)) /\ ~Open(m, p, RightOf(d)) /\ Open(m, p, d)
         /\ ErrorAt(m, p, d) = NoLine <=>
              ~Open(m, p, LeftOf(d)) /\ ~Open(m, p, RightOf(d)) /\ ~Open(m, p, d)
<1> DEFINE l == Open(m, p, LeftOf(d))
           r == Open(m, p, RightOf(d))
           o == Open(m, p, d)
<1>1. ErrorAt(m, p, d) = CASE p = m.finish \/ (l /\ r) -> Bar
                           [] p # m.finish /\ l /\ ~r  -> LeftBar
                           [] p # m.finish /\ r /\ ~l  -> RightBar
                           [] OTHER -> IF o THEN Centred ELSE NoLine
  BY DEF ErrorAt
<1> HIDE DEF l, r, o
<1>2. Bar = -30 /\ LeftBar = -10 /\ RightBar = -20 /\ Centred = 0 /\ NoLine = 8
  BY DEF Bar, LeftBar, RightBar, Centred, NoLine
<1>3. CASE l /\ r
  <2>1. ErrorAt(m, p, d) = Bar
    BY <1>1, <1>3
  <2> QED BY <1>3, <2>1, <1>2 DEF Crossing, l, r, o
<1>4. CASE l /\ ~r
  <2>1. ErrorAt(m, p, d) = LeftBar
    BY <1>1, <1>4
  <2> QED BY <1>4, <2>1, <1>2 DEF Crossing, l, r, o
<1>5. CASE ~l /\ r
  <2>1. ErrorAt(m, p, d) = RightBar
    BY <1>1, <1>5
  <2> QED BY <1>5, <2>1, <1>2 DEF Crossing, l, r, o
<1>6. CASE ~l /\ ~r
  <2>1. ErrorAt(m, p, d) = IF o THEN Centred ELSE NoLine
    BY <1>1, <1>6
  <2> QED BY <1>6, <2>1, <1>2 DEF Crossing, l, r, o
<1> QED BY <1>3, <1>4, <1>5, <1>6

(* One more point. *)
LEMMA PathGrow ==
  ASSUME NEW m, MazeOK(m), NEW pts, NEW hd, NEW T, NEW k, Path(m, pts, hd, T, k),
         pts[k] # m.finish, NEW d \in Headings, Open(m, pts[k], d), d # BackOf(hd[k]),
         \A e \in Earlier(hd[k], d) : Dead(m, pts[k], e)
  PROVE  \E pts2, hd2, T2 :
           /\ Path(m, pts2, hd2, T2, k + 1)
           /\ pts2[k + 1] = Ahead(pts[k], d) /\ hd2[k + 1] = d
           /\ T2[k] = IF Crossing(m, pts[k], hd[k]) THEN Append(T[k - 1], Turned(hd[k], d)) ELSE T[k - 1]
<1> DEFINE p == Ahead(pts[k], d)
           t == IF Crossing(m, pts[k], hd[k]) THEN Append(T[k - 1], Turned(hd[k], d)) ELSE T[k - 1]
           pts2 == [i \in 1..(k + 1) |-> IF i = k + 1 THEN p ELSE pts[i]]
           hd2 == [i \in 1..(k + 1) |-> IF i = k + 1 THEN d ELSE hd[i]]
           T2 == [i \in 0..k |-> IF i = k THEN t ELSE T[i]]
<1>1. k \in Nat \ {0} /\ pts[k] \in Grid /\ hd[k] \in Headings /\ T[k - 1] \in Seq(Ways)
  BY DEF Path
<1>2. p \in Grid
  BY <1>1, OpenFacts
<1>3. Turned(hd[k], d) \in Ways
  BY <1>1, HeadingFacts DEF Turned, Ways
<1>4. t \in Seq(Ways) /\ (t = <<>> => ~Crossing(m, pts[k], hd[k]) /\ T[k - 1] = <<>>)
  BY <1>1, <1>3
<1>5. t = <<>> => p = Parent(m, pts[k])
  <2> SUFFICES ASSUME t = <<>> PROVE p = Parent(m, pts[k])
    OBVIOUS
  <2>1. ~Crossing(m, pts[k], hd[k]) /\ T[k - 1] = <<>>
    BY <1>4
  <2>2. \A e \in Headings : Open(m, pts[k], e) => e \in {hd[k], BackOf(hd[k])}
    BY <1>1, <2>1, CrossingFacts, HeadingFacts
  <2>3. PICK e \in Headings : Open(m, pts[k], e) /\ Parent(m, pts[k]) = Ahead(pts[k], e)
    BY <1>1, ParentAhead
  <2>4. CASE k = 1
    <3>1. e = d
      BY <2>3, <2>4 DEF Path, MazeOK
    <3> QED BY <2>3, <3>1
  <2>5. CASE k # 1
    <3>1. k \in 2..k /\ k - 1 \in 1..(k - 1) /\ (k - 1) + 1 = k
      BY <1>1, <2>5
    <3>2. /\ Open(m, pts[k], BackOf(hd[k])) /\ Ahead(pts[k], BackOf(hd[k])) = pts[k - 1]
          /\ pts[k - 1] \in Grid /\ pts[k - 1] # m.finish
      BY <3>1, WayBack
    <3>3. pts[k] = Parent(m, pts[k - 1])
      BY <3>1, <2>1 DEF Path
    <3>4. Parent(m, pts[k]) # pts[k - 1]
      <4>1. /\ Distance(m)[pts[k]] = Distance(m)[pts[k - 1]] - 1 /\ Distance(m)[pts[k]] \in Nat
            /\ Distance(m)[pts[k - 1]] \in Nat
        BY <3>2, <3>3, <1>1, ParentAhead
      <4>2. Distance(m)[Parent(m, pts[k])] = Distance(m)[pts[k]] - 1
        BY <1>1, ParentAhead
      <4> QED BY <4>1, <4>2
    <3>5. e = hd[k] /\ d = hd[k]
      BY <2>2, <2>3, <3>2, <3>4
    <3> QED BY <2>3, <3>5
  <2> QED BY <2>4, <2>5
<1> HIDE DEF p, t
<1>6. /\ \A i \in 1..k : pts2[i] = pts[i] /\ hd2[i] = hd[i]
      /\ pts2[k + 1] = p /\ hd2[k + 1] = d
      /\ \A i \in 0..(k - 1) : T2[i] = T[i]
      /\ T2[k] = t
  BY <1>1
<1> HIDE DEF pts2, hd2, T2
<1>7. \A i \in 1..(k + 1) : pts2[i] \in Grid /\ hd2[i] \in Headings
  <2> SUFFICES ASSUME NEW i \in 1..(k + 1) PROVE pts2[i] \in Grid /\ hd2[i] \in Headings
    OBVIOUS
  <2>1. i \in 1..k \/ i = k + 1
    BY <1>1
  <2> QED BY <2>1, <1>6, <1>2 DEF Path
<1>8. ASSUME NEW i \in 0..k
      PROVE  T2[i] \in Seq(Ways) /\ T2[i] = NextTurns(T2, m, pts2, hd2, i)
  <2>1. CASE i = k
    <3>1. k - 1 \in 0..(k - 1) /\ k \in 1..k /\ k # 0
      BY <1>1
    <3> QED BY <2>1, <1>6, <1>4, <3>1 DEF NextTurns, t
  <2>2. CASE i = 0
    BY <2>2, <1>6, <1>1 DEF Path, NextTurns
  <2>3. CASE i # k /\ i # 0
    <3>1. i \in 0..(k - 1) /\ i - 1 \in 0..(k - 1) /\ i \in 1..k /\ i + 1 \in 1..k
      BY <2>3, <1>1
    <3>2. T[i] \in Seq(Ways) /\ T[i] = NextTurns(T, m, pts, hd, i)
      BY <3>1 DEF Path
    <3> QED BY <3>1, <3>2, <1>6 DEF NextTurns
  <2> QED BY <2>1, <2>2, <2>3
<1>9. ASSUME NEW i \in 1..k
      PROVE  /\ pts2[i] # m.finish
             /\ Open(m, pts2[i], hd2[i + 1]) /\ pts2[i + 1] = Ahead(pts2[i], hd2[i + 1])
             /\ hd2[i + 1] # BackOf(hd2[i])
             /\ \A e \in Earlier(hd2[i], hd2[i + 1]) : Dead(m, pts2[i], e)
             /\ T2[i] = <<>> => pts2[i + 1] = Parent(m, pts2[i])
  <2>1. CASE i = k
    BY <2>1, <1>6, <1>5, <1>9 DEF p
  <2>2. CASE i # k
    <3>1. i \in 1..(k - 1) /\ i + 1 \in 1..k /\ i \in 0..(k - 1)
      BY <2>2, <1>1
    <3>2. /\ pts2[i] = pts[i] /\ hd2[i] = hd[i] /\ pts2[i + 1] = pts[i + 1] /\ hd2[i + 1] = hd[i + 1]
          /\ T2[i] = T[i]
      BY <3>1, <1>6
    <3> QED BY <3>1, <3>2 DEF Path
  <2> QED BY <2>1, <2>2
<1>10. pts2[1] = m.start /\ hd2[1] = m.facing
  BY <1>1, <1>6 DEF Path
<1>11. Path(m, pts2, hd2, T2, k + 1)
  <2>1. k + 1 \in Nat \ {0} /\ (k + 1) - 1 = k
    BY <1>1
  <2> QED BY <2>1, <1>7, <1>8, <1>9, <1>10 DEF Path
<1> QED BY <1>6, <1>11 DEF p, t

(* One point less. *)
LEMMA PathShrink ==
  ASSUME NEW m, NEW pts, NEW hd, NEW T, NEW k, Path(m, pts, hd, T, k), k # 1
  PROVE  Path(m, pts, hd, T, k - 1)
<1>1. k - 1 \in Nat \ {0} /\ 1..(k - 1) \subseteq 1..k /\ 0..((k - 1) - 1) \subseteq 0..(k - 1)
      /\ 1..((k - 1) - 1) \subseteq 1..(k - 1)
  BY DEF Path
<1> QED BY <1>1 DEF Path

(* A path that has left the way to the finish goes on away from it, so one *)
(* that ends at the finish is the route.                                   *)
LEMMA PathIsRoute ==
  ASSUME NEW m, MazeOK(m), NEW pts, NEW hd, NEW T, NEW k, Path(m, pts, hd, T, k),
         pts[k] = m.finish
  PROVE  /\ k = Len(Route(m)) /\ \A i \in 1..k : pts[i] = Route(m)[i]
         /\ RouteTurns(m) = Append(T[k - 1], "F")
<1> DEFINE D == Distance(m)
           n == D[m.start]
           Up(i) == pts[i + 1] = Parent(m, pts[i])
<1>1. /\ k \in Nat \ {0} /\ \A i \in 1..k : pts[i] \in Grid /\ hd[i] \in Headings
      /\ Grid \subseteq Int \X Int
      /\ \A i \in 1..(k - 1) : /\ pts[i] # m.finish /\ Open(m, pts[i], hd[i + 1])
                               /\ pts[i + 1] = Ahead(pts[i], hd[i + 1])
                               /\ hd[i + 1] # BackOf(hd[i])
  BY DEF Path, MazeOK
<1>2. ASSUME NEW i \in 1..(k - 1), ~Up(i)
      PROVE  pts[i + 1] # m.finish /\ (i + 1 \in 1..(k - 1) => ~Up(i + 1))
  <2> DEFINE p == pts[i]
             q == pts[i + 1]
  <2>1. i \in 1..k /\ i + 1 \in 1..k
    BY <1>1
  <2>2. /\ p \in Grid /\ hd[i + 1] \in Headings /\ Open(m, p, hd[i + 1]) /\ q = Ahead(p, hd[i + 1])
        /\ q \in Int \X Int
    BY <1>1, <2>1
  <2>3. q # m.finish /\ p = Parent(m, q)
    <3> HIDE DEF p, q
    <3> QED BY <2>2, <1>2, OneParent DEF p, q
  <2>4. ASSUME i + 1 \in 1..(k - 1) PROVE ~Up(i + 1)
    <3>1. (i + 1) + 1 \in 1..k
      BY <2>4, <1>1
    <3>2. hd[(i + 1) + 1] \in Headings /\ hd[(i + 1) + 1] # BackOf(hd[i + 1])
          /\ pts[(i + 1) + 1] = Ahead(q, hd[(i + 1) + 1])
      BY <2>4, <3>1, <1>1
    <3>3. Ahead(q, BackOf(hd[i + 1])) = p /\ BackOf(hd[i + 1]) \in Headings
      BY <2>2, OpenFacts, HeadingFacts
    <3>4. Ahead(q, hd[(i + 1) + 1]) # p
      BY <3>2, <3>3, <2>2, AheadFacts
    <3> QED BY <3>2, <3>4, <2>3
  <2> QED BY <2>3, <2>4
<1>3. ASSUME NEW i \in 1..(k - 1) PROVE Up(i)
  <2> SUFFICES ASSUME ~Up(i) PROVE FALSE
    OBVIOUS
  <2> DEFINE S == {j \in 0..(k - 1 - i) : ~Up(i + j)}
  <2>1. 0 \in S /\ k - 1 - i \in Nat
    BY <1>1
  <2>2. ASSUME NEW j \in 1..(k - 1 - i), j - 1 \in S PROVE j \in S
    <3>1. i + (j - 1) \in 1..(k - 1) /\ (i + (j - 1)) + 1 = i + j /\ i + j \in 1..(k - 1)
      BY <1>1
    <3>2. ~Up(i + (j - 1))
      BY <2>2
    <3>3. ~Up((i + (j - 1)) + 1)
      <4> HIDE DEF Up
      <4> QED BY <3>1, <3>2, <1>2
    <3> QED BY <3>1, <3>3
  <2>3. 0..(k - 1 - i) \subseteq S
    <3> HIDE DEF S
    <3> QED BY <2>1, <2>2, UpTo
  <2>4. k - 1 - i \in S /\ i + (k - 1 - i) = k - 1
    BY <2>3, <2>1, <1>1
  <2>5. ~Up(k - 1) /\ k - 1 \in 1..(k - 1) /\ (k - 1) + 1 = k
    BY <2>4, <1>1
  <2>6. pts[(k - 1) + 1] # m.finish
    <3> HIDE DEF Up
    <3> QED BY <2>5, <1>2
  <2> QED BY <2>5, <2>6
<1>4. /\ n \in Nat /\ Ascent(m, Route(m), n) /\ Len(Route(m)) = n + 1
      /\ DistanceOK(m) /\ m.start \in Grid
  BY RouteFacts, DistanceFacts DEF Ascent, MazeOK
<1>5. \A i \in 1..k : D[pts[i]] = n + 1 - i
  <2> DEFINE S == {j \in 0..(k - 1) : D[pts[j + 1]] = n - j}
  <2>1. 0 \in S /\ k - 1 \in Nat
    BY <1>1, <1>4 DEF Path
  <2>2. ASSUME NEW j \in 1..(k - 1), j - 1 \in S PROVE j \in S
    <3>1. (j - 1) + 1 = j /\ j \in 1..k
      BY <1>1
    <3>2. D[pts[j]] = n - (j - 1)
      BY <2>2, <3>1
    <3>3. pts[j + 1] = Parent(m, pts[j]) /\ pts[j] # m.finish /\ pts[j] \in Grid
      BY <1>1, <1>3, <3>1
    <3>4. D[pts[j + 1]] = D[pts[j]] - 1
      BY <3>3, ParentAhead
    <3>5. n - (j - 1) - 1 = n - j /\ j \in 0..(k - 1)
      BY <1>4, <1>1
    <3>6. D[pts[j + 1]] = n - j
      BY <3>2, <3>4, <3>5
    <3> QED BY <3>5, <3>6
  <2>3. 0..(k - 1) \subseteq S
    <3> HIDE DEF S
    <3> QED BY <2>1, <2>2, UpTo
  <2> SUFFICES ASSUME NEW i \in 1..k PROVE D[pts[i]] = n + 1 - i
    OBVIOUS
  <2>4. i - 1 \in 0..(k - 1) /\ (i - 1) + 1 = i /\ n - (i - 1) = n + 1 - i
    BY <1>1, <1>4
  <2>5. i - 1 \in S
    BY <2>3, <2>4
  <2>6. D[pts[(i - 1) + 1]] = n - (i - 1)
    BY <2>5
  <2> QED BY <2>4, <2>6
<1>6. k = n + 1
  <2>1. D[pts[k]] = 0 /\ k \in 1..k
    BY <1>1, <1>4 DEF DistanceOK
  <2>2. D[pts[k]] = n + 1 - k
    BY <2>1, <1>5
  <2>3. k \in Nat /\ n \in Nat
    BY <1>1, <1>4
  <2> QED BY <2>1, <2>2, <2>3
<1>7. \A i \in 1..k : pts[i] = Route(m)[i]
  <2> DEFINE S == {j \in 0..(k - 1) : pts[j + 1] = Route(m)[j + 1]}
  <2>1. 0 \in S /\ k - 1 \in Nat
    BY <1>1, <1>4 DEF Path, Ascent
  <2>2. ASSUME NEW j \in 1..(k - 1), j - 1 \in S PROVE j \in S
    <3>1. (j - 1) + 1 = j /\ j \in 1..n /\ j \in 0..(k - 1)
      BY <1>1, <1>4, <1>6
    <3>2. pts[j] = Route(m)[j]
      BY <2>2, <3>1
    <3>3. pts[j + 1] = Parent(m, pts[j]) /\ Route(m)[j + 1] = Parent(m, Route(m)[j])
      BY <1>3, <1>4, <3>1 DEF Ascent
    <3> QED BY <3>1, <3>2, <3>3
  <2>3. 0..(k - 1) \subseteq S
    <3> HIDE DEF S
    <3> QED BY <2>1, <2>2, UpTo
  <2> SUFFICES ASSUME NEW i \in 1..k PROVE pts[i] = Route(m)[i]
    OBVIOUS
  <2>4. i - 1 \in S /\ (i - 1) + 1 = i
    BY <2>3, <1>1
  <2> QED BY <2>4
<1>8. RouteTurns(m) = Append(T[k - 1], "F")
  <2>1. hd[1] = m.facing /\ \A i \in 1..k : hd[i] \in Headings
    BY DEF Path
  <2>2. \A i \in 1..(k - 1) : Ahead(Route(m)[i], hd[i + 1]) = Route(m)[i + 1]
    <3> SUFFICES ASSUME NEW i \in 1..(k - 1)
                 PROVE  Ahead(Route(m)[i], hd[i + 1]) = Route(m)[i + 1]
      OBVIOUS
    <3>1. i \in 1..k /\ i + 1 \in 1..k
      BY <1>1
    <3> QED BY <3>1, <1>1, <1>7
  <2>3. \A i \in 0..(k - 1) : T[i] = NextTurns(T, m, Route(m), hd, i)
    <3> SUFFICES ASSUME NEW i \in 0..(k - 1)
                 PROVE  T[i] = NextTurns(T, m, Route(m), hd, i)
      OBVIOUS
    <3>1. i # 0 => i \in 1..k
      BY <1>1
    <3>2. T[i] = NextTurns(T, m, pts, hd, i)
      BY DEF Path
    <3> QED BY <3>1, <3>2, <1>7 DEF NextTurns
  <2> QED BY <2>1, <2>2, <2>3, <1>6, RouteTurnsFacts
<1> QED BY <1>4, <1>6, <1>7, <1>8

-----------------------------------------------------------------------------
(* The array path as a sequence. *)

(* An array read as a sequence. *)
LEMMA PathTypes ==
  ASSUME NEW q \in Paths
  PROVE  /\ PathSize \in Nat /\ PathSize >= 3
         /\ q \in Seq(Chars) /\ Len(q) = PathSize /\ DOMAIN q = 1..PathSize
         /\ \A i \in 1..PathSize : q[i] \in Chars
<1>1. PathSize \in Nat /\ PathSize >= 3
  BY PathSizeAssumption
<1>2. q \in [1..PathSize -> Chars]
  BY DEF Paths
<1>3. q \in Seq(Chars)
  BY <1>1, <1>2, IsASeq
<1>4. Len(q) = PathSize
  BY <1>1, <1>2, <1>3, LenProperties
<1> QED BY <1>1, <1>2, <1>3, <1>4

(* Where a character first stands in the array. *)
LEMMA FirstIndexFacts ==
  ASSUME NEW q \in Paths, NEW c, NEW e \in 1..PathSize, q[e] = c,
         \A j \in 1..(e - 1) : q[j] # c
  PROVE  FirstIndex(q, c) = e
<1>1. DOMAIN q = 1..PathSize /\ PathSize \in Nat
  BY PathTypes
<1>2. \A k \in 1..PathSize : (q[k] = c /\ \A j \in 1..(k - 1) : q[j] # c) => k = e
  <2> SUFFICES ASSUME NEW k \in 1..PathSize, q[k] = c, \A j \in 1..(k - 1) : q[j] # c
               PROVE  k = e
    OBVIOUS
  <2>1. ~(k < e)
    <3>1. k < e => k \in 1..(e - 1)
      BY <1>1
    <3> QED BY <3>1
  <2>2. ~(e < k)
    <3>1. e < k => e \in 1..(k - 1)
      BY <1>1
    <3> QED BY <3>1
  <2> QED BY <2>1, <2>2, <1>1
<1>3. \E k \in 1..PathSize : q[k] = c /\ \A j \in 1..(k - 1) : q[j] # c
  OBVIOUS
<1> QED BY <1>1, <1>2, <1>3 DEF FirstIndex

(* r has the items of s and then those of t. *)
Joins(r, s, t, S) ==
  /\ r \in Seq(S) /\ Len(r) = Len(s) + Len(t)
  /\ \A k \in 1..Len(s) : r[k] = s[k]
  /\ \A k \in (Len(s) + 1)..(Len(s) + Len(t)) : r[k] = t[k - Len(s)]

(* The items of two sequences in a row. *)
LEMMA Concat ==
  ASSUME NEW S, NEW s \in Seq(S), NEW t \in Seq(S)
  PROVE  Joins(s \o t, s, t, S)
<1>1. Len(s) \in Nat /\ Len(t) \in Nat
  BY LenProperties
<1>2. /\ s \o t \in Seq(S) /\ Len(s \o t) = Len(s) + Len(t)
      /\ \A i \in 1 .. Len(s) + Len(t) : (s \o t)[i] = IF i <= Len(s) THEN s[i] ELSE t[i - Len(s)]
  BY ConcatProperties
<1>3. ASSUME NEW k \in 1..Len(s) PROVE (s \o t)[k] = s[k]
  <2>1. k \in 1 .. Len(s) + Len(t) /\ k <= Len(s)
    BY <1>1
  <2> QED BY <1>2, <2>1
<1>4. ASSUME NEW k \in (Len(s) + 1)..(Len(s) + Len(t)) PROVE (s \o t)[k] = t[k - Len(s)]
  <2>1. k \in 1 .. Len(s) + Len(t) /\ ~(k <= Len(s))
    BY <1>1
  <2> QED BY <1>2, <2>1
<1> QED BY <1>2, <1>3, <1>4 DEF Joins

(* What the array is after a cut. *)
Shifted(q, i, e) ==
  [k \in 1..PathSize |-> IF k < i THEN q[k]
                         ELSE IF k = i THEN Substitute(q[i], q[i + 2])
                         ELSE IF k < e THEN q[k + 2] ELSE q[k]]

(* A cut moves what follows it down by two. *)
LEMMA CutFacts ==
  ASSUME NEW q \in Paths, NEW e \in 1..(PathSize - 1), FirstIndex(q, "F") = e,
         NEW i \in 1..(e - 2), Substitute(q[i], q[i + 2]) \in Chars
  PROVE  CutAt(q, i) = Shifted(q, i, e) /\ Shifted(q, i, e) \in Paths
<1>1. /\ PathSize \in Nat /\ q \in Seq(Chars) /\ Len(q) = PathSize
      /\ \A k \in 1..PathSize : q[k] \in Chars
  BY PathTypes
<1> DEFINE a == SubSeq(q, 1, i - 1)
           b == <<Substitute(q[i], q[i + 2])>>
           c == SubSeq(q, i + 3, e + 1)
           d == SubSeq(q, e, PathSize)
<1>2. CutAt(q, i) = a \o b \o c \o d
  BY DEF CutAt
<1>3. a \in Seq(Chars) /\ Len(a) = i - 1 /\ \A k \in 1..(i - 1) : a[k] = q[k]
  <2>1. \A k \in 1..(i - 1) : q[k] \in Chars
    BY <1>1
  <2> QED BY <1>1, <2>1
<1>4. b \in Seq(Chars) /\ Len(b) = 1 /\ b[1] = Substitute(q[i], q[i + 2])
  OBVIOUS
<1>5. c \in Seq(Chars) /\ Len(c) = e - 1 - i /\ \A k \in 1..(e - 1 - i) : c[k] = q[i + 2 + k]
  <2>1. \A k \in (i + 3)..(e + 1) : q[k] \in Chars
    BY <1>1
  <2> QED BY <1>1, <2>1
<1>6. d \in Seq(Chars) /\ Len(d) = PathSize + 1 - e /\ \A k \in 1..(PathSize + 1 - e) : d[k] = q[e - 1 + k]
  <2>1. \A k \in e..PathSize : q[k] \in Chars
    BY <1>1
  <2> QED BY <1>1, <2>1
<1> HIDE DEF a, b, c, d
<1> DEFINE ab == a \o b
           abc == ab \o c
           all == abc \o d
<1>7. ab \in Seq(Chars) /\ Len(ab) = i /\ (\A k \in 1..(i - 1) : ab[k] = q[k]) /\ ab[i] = b[1]
  <2>1. i \in (Len(a) + 1)..(Len(a) + Len(b)) /\ i - Len(a) = 1 /\ Len(a) + Len(b) = i
    BY <1>3, <1>4, <1>1
  <2>2. /\ ab \in Seq(Chars) /\ Len(ab) = Len(a) + Len(b)
        /\ \A k \in 1..Len(a) : ab[k] = a[k]
        /\ \A k \in (Len(a) + 1)..(Len(a) + Len(b)) : ab[k] = b[k - Len(a)]
    <3>1. Joins(ab, a, b, Chars)
      BY <1>3, <1>4, Concat
    <3> QED BY <3>1 DEF Joins
  <2> QED BY <1>3, <2>1, <2>2
<1> HIDE DEF ab
<1>8. /\ abc \in Seq(Chars) /\ Len(abc) = e - 1 /\ (\A k \in 1..i : abc[k] = ab[k])
      /\ \A k \in (i + 1)..(e - 1) : abc[k] = c[k - i]
  <2>1. /\ abc \in Seq(Chars) /\ Len(abc) = Len(ab) + Len(c)
        /\ \A k \in 1..Len(ab) : abc[k] = ab[k]
        /\ \A k \in (Len(ab) + 1)..(Len(ab) + Len(c)) : abc[k] = c[k - Len(ab)]
    <3>1. Joins(abc, ab, c, Chars)
      BY <1>5, <1>7, Concat
    <3> HIDE DEF abc
    <3> QED BY <3>1 DEF Joins
  <2>2. Len(ab) = i /\ Len(ab) + Len(c) = e - 1
    BY <1>5, <1>7, <1>1
  <2> QED BY <2>1, <2>2
<1> HIDE DEF abc
<1>9. /\ all \in Seq(Chars) /\ Len(all) = PathSize /\ (\A k \in 1..(e - 1) : all[k] = abc[k])
      /\ \A k \in e..PathSize : all[k] = d[k - (e - 1)]
  <2>1. /\ all \in Seq(Chars) /\ Len(all) = Len(abc) + Len(d)
        /\ \A k \in 1..Len(abc) : all[k] = abc[k]
        /\ \A k \in (Len(abc) + 1)..(Len(abc) + Len(d)) : all[k] = d[k - Len(abc)]
    <3>1. Joins(all, abc, d, Chars)
      BY <1>6, <1>8, Concat
    <3> HIDE DEF all
    <3> QED BY <3>1 DEF Joins
  <2>2. Len(abc) = e - 1 /\ Len(abc) + Len(d) = PathSize /\ (e - 1) + 1 = e
    BY <1>6, <1>8, <1>1
  <2>3. (Len(abc) + 1)..(Len(abc) + Len(d)) = e..PathSize
    BY <2>2
  <2> QED BY <2>1, <2>2, <2>3
<1> HIDE DEF all
<1>10. ASSUME NEW k \in 1..PathSize PROVE all[k] = Shifted(q, i, e)[k]
  <2>1. CASE k < i
    <3>1. k \in 1..(i - 1) /\ k \in 1..i /\ k \in 1..(e - 1)
      BY <2>1, <1>1
    <3> QED BY <2>1, <3>1, <1>7, <1>8, <1>9 DEF Shifted
  <2>2. CASE k = i
    <3>1. k \in 1..i /\ k \in 1..(e - 1) /\ ~(k < i)
      BY <2>2, <1>1
    <3>2. all[k] = Substitute(q[i], q[i + 2])
      BY <2>2, <3>1, <1>4, <1>7, <1>8, <1>9
    <3> QED BY <2>2, <3>1, <3>2 DEF Shifted
  <2>3. CASE k > i /\ k < e
    <3>1. k \in (i + 1)..(e - 1) /\ k \in 1..(e - 1) /\ k - i \in 1..(e - 1 - i) /\ i + 2 + (k - i) = k + 2
          /\ ~(k < i) /\ k # i
      BY <2>3, <1>1
    <3>2. all[k] = c[k - i]
      BY <3>1, <1>8, <1>9
    <3>3. c[k - i] = q[i + 2 + (k - i)]
      BY <3>1, <1>5
    <3>4. all[k] = q[k + 2]
      BY <3>1, <3>2, <3>3
    <3> QED BY <2>3, <3>1, <3>4 DEF Shifted
  <2>4. CASE k >= e
    <3>1. k \in e..PathSize /\ k - (e - 1) \in 1..(PathSize + 1 - e) /\ e - 1 + (k - (e - 1)) = k
          /\ ~(k < i) /\ k # i /\ ~(k < e)
      BY <2>4, <1>1
    <3> QED BY <3>1, <1>6, <1>9 DEF Shifted
  <2> QED BY <2>1, <2>2, <2>3, <2>4
<1>11. all \in [1..PathSize -> Chars]
  <2>1. all \in [1..Len(all) -> Chars]
    BY <1>9, LenProperties
  <2> QED BY <2>1, <1>9
<1>12. all = Shifted(q, i, e)
  BY <1>10, <1>11 DEF Shifted
<1> QED BY <1>2, <1>11, <1>12 DEF all, abc, ab, Paths

(* A turn is replaced by a turn. *)
LEMMA SubstituteFacts ==
  ASSUME NEW x \in Turns, NEW y \in Turns
  PROVE  Substitute(x, y) \in Turns
  BY DEF Substitute, Turns

-----------------------------------------------------------------------------
(* Records, and the array that shows one. *)

(* The last turn of a record is a U-turn. *)
EndsU(c) == Len(c) >= 1 /\ c[Len(c)] = "U"

(* A record the way the robot leaves it: a U-turn is the last turn of it,  *)
(* and follows another turn.                                               *)
Settled(c) ==
  /\ c \in Seq(Turns)
  /\ \A i \in 1..(Len(c) - 1) : c[i] # "U"
  /\ EndsU(c) => Len(c) >= 2

(* The first n characters of w are turns. *)
Turning(w, n) == \A i \in 1..n : w[i] \in Turns

(* One more turn, with a U-turn before it taken out. *)
Push(c, y) ==
  IF EndsU(c) THEN Append(SubSeq(c, 1, Len(c) - 2), Substitute(c[Len(c) - 1], y))
  ELSE Append(c, y)

(* The array q begins with c and what w holds from j + 1 to n. *)
Holds(q, c, w, j, n) ==
  /\ q \in Paths
  /\ Len(c) + (n - j) + 2 <= PathSize
  /\ \A i \in 1..Len(c) : q[i] = c[i]
  /\ \A i \in (Len(c) + 1)..(Len(c) + (n - j)) : q[i] = w[i - Len(c) + j]
  /\ q[Len(c) + (n - j) + 1] = "F"
  /\ q[Len(c) + (n - j) + 2] = NUL

(* A record with one more turn is that record, or one turn shorter. *)
LEMMA PushFacts ==
  ASSUME NEW c, Settled(c), NEW y \in Turns
  PROVE  /\ Len(c) \in Nat /\ Push(c, y) \in Seq(Turns)
         /\ EndsU(c) =>
              /\ Len(c) >= 2
              /\ Len(Push(c, y)) = Len(c) - 1
              /\ \A i \in 1..(Len(c) - 2) : Push(c, y)[i] = c[i]
              /\ Push(c, y)[Len(c) - 1] = Substitute(c[Len(c) - 1], y)
         /\ ~EndsU(c) =>
              /\ Len(Push(c, y)) = Len(c) + 1
              /\ \A i \in 1..Len(c) : Push(c, y)[i] = c[i]
              /\ Push(c, y)[Len(c) + 1] = y
<1>1. c \in Seq(Turns) /\ Len(c) \in Nat /\ \A i \in 1..Len(c) : c[i] \in Turns
  BY LenProperties DEF Settled
<1>2. CASE EndsU(c)
  <2> DEFINE a == SubSeq(c, 1, Len(c) - 2)
             x == Substitute(c[Len(c) - 1], y)
  <2>1. Len(c) >= 2
    BY <1>2 DEF Settled
  <2>2. c[Len(c) - 1] \in Turns
    <3>1. Len(c) - 1 \in 1..Len(c)
      BY <1>1, <2>1
    <3> QED BY <1>1, <3>1
  <2>3. x \in Turns
    BY <2>2, SubstituteFacts
  <2>4. a \in Seq(Turns) /\ Len(a) = Len(c) - 2 /\ \A i \in 1..(Len(c) - 2) : a[i] = c[i]
    <3>1. \A i \in 1..(Len(c) - 2) : c[i] \in Turns
      BY <1>1
    <3>2. /\ a \in Seq(Turns)
          /\ Len(a) = IF 1 <= Len(c) - 2 THEN Len(c) - 2 - 1 + 1 ELSE 0
          /\ \A i \in 1 .. Len(c) - 2 - 1 + 1 : a[i] = c[1 + i - 1]
      <4>1. 1 \in Int /\ Len(c) - 2 \in Int
        BY <1>1
      <4> HIDE DEF x
      <4> QED BY <3>1, <4>1, SubSeqProperties
    <3>3. Len(a) = Len(c) - 2
      <4>1. Len(c) \in Nat /\ Len(a) = IF 1 <= Len(c) - 2 THEN Len(c) - 2 - 1 + 1 ELSE 0
        BY <1>1, <3>2
      <4> HIDE DEF a
      <4>2. Len(c) = 2 \/ Len(c) >= 3
        <5>1. \A l \in Nat : l >= 2 => l = 2 \/ l >= 3
          OBVIOUS
        <5>2. Len(c) \in Nat
          BY <4>1
        <5> QED BY <5>1, <5>2, <2>1
      <4>3. CASE Len(c) = 2
        <5>1. ~(1 <= Len(c) - 2) /\ Len(c) - 2 = 0
          BY <4>3
        <5> QED BY <4>1, <5>1
      <4>4. CASE Len(c) >= 3
        <5>1. 1 <= Len(c) - 2 /\ Len(c) - 2 - 1 + 1 = Len(c) - 2
          BY <4>1, <4>4
        <5> QED BY <4>1, <5>1
      <4> QED BY <4>2, <4>3, <4>4
    <3>4. \A i \in 1..(Len(c) - 2) : i \in 1 .. Len(c) - 2 - 1 + 1 /\ 1 + i - 1 = i
      BY <1>1
    <3>5. \A i \in 1..(Len(c) - 2) : a[i] = c[i]
      <4> HIDE DEF a, x
      <4> QED BY <3>2, <3>4
    <3> QED BY <3>2, <3>3, <3>5
  <2> HIDE DEF a, x
  <2>5. Push(c, y) = Append(a, x)
    BY <1>2 DEF Push, a, x
  <2>6. /\ Append(a, x) \in Seq(Turns) /\ Len(Append(a, x)) = Len(a) + 1
        /\ \A i \in 1..Len(a) : Append(a, x)[i] = a[i]
        /\ Append(a, x)[Len(a) + 1] = x
    BY <2>3, <2>4, AppendProperties
  <2>7. Len(a) + 1 = Len(c) - 1
    BY <2>4, <1>1
  <2> QED BY <1>1, <1>2, <2>1, <2>4, <2>5, <2>6, <2>7 DEF x
<1>3. CASE ~EndsU(c)
  <2>1. Push(c, y) = Append(c, y)
    BY <1>3 DEF Push
  <2> QED BY <1>1, <1>3, <2>1, AppendProperties
<1> QED BY <1>2, <1>3

(* The turns of such an array end with its first F. *)
LEMMA HoldsFacts ==
  ASSUME NEW n \in Nat, NEW w, Turning(w, n),
         NEW j \in 0..n, NEW c, Settled(c), NEW q, Holds(q, c, w, j, n)
  PROVE  /\ Len(c) \in Nat /\ Len(c) + (n - j) \in Nat
         /\ \A i \in 1..(Len(c) + (n - j)) : q[i] \in Turns
         /\ FirstIndex(q, "F") = Len(c) + (n - j) + 1
<1> DEFINE e == Len(c) + (n - j)
<1>1. c \in Seq(Turns) /\ Len(c) \in Nat /\ \A i \in 1..Len(c) : c[i] \in Turns
  BY LenProperties DEF Settled
<1>2. e \in Nat /\ q \in Paths /\ e + 2 <= PathSize /\ q[e + 1] = "F"
  BY <1>1 DEF Holds
<1>3. ASSUME NEW i \in 1..e PROVE q[i] \in Turns
  <2>1. CASE i <= Len(c)
    BY <2>1, <1>1 DEF Holds
  <2>2. CASE i > Len(c)
    <3>1. i \in (Len(c) + 1)..(Len(c) + (n - j)) /\ i - Len(c) + j \in 1..n
      BY <2>2, <1>1
    <3> QED BY <3>1 DEF Holds, Turning
  <2> QED BY <2>1, <2>2, <1>1
<1>4. FirstIndex(q, "F") = e + 1
  <2>1. PathSize \in Nat
    BY PathTypes, <1>2
  <2>2. e + 1 \in 1..PathSize
    BY <1>2, <2>1
  <2>3. \A i \in 1..((e + 1) - 1) : q[i] # "F"
    <3>1. (e + 1) - 1 = e /\ "F" \notin Turns
      BY <1>2 DEF Turns
    <3> QED BY <1>3, <3>1
  <2> HIDE DEF e
  <2> QED BY <1>2, <2>2, <2>3, FirstIndexFacts
<1> QED BY <1>1, <1>2, <1>3, <1>4

(* The next turn joins the record, and the array shows it already. *)
Skipped(q, c, w, j, n) ==
  /\ Holds(q, Push(c, w[j + 1]), w, j + 1, n)
  /\ Len(Push(c, w[j + 1])) + (n - (j + 1)) = Len(c) + (n - j)

(* Without a U-turn to take out, the next turn of w belongs to the *)
(* record.                                                         *)
LEMMA Skip ==
  ASSUME NEW n \in Nat, NEW w, Turning(w, n),
         NEW j \in 0..(n - 1), NEW c, Settled(c), NEW q, Holds(q, c, w, j, n), ~EndsU(c)
  PROVE  Skipped(q, c, w, j, n)
<1> DEFINE y == w[j + 1]
           d == Push(c, y)
<1>1. j + 1 \in 1..n /\ y \in Turns
  BY DEF Turning
<1>2. /\ Len(c) \in Nat /\ Len(d) = Len(c) + 1
      /\ \A i \in 1..Len(c) : d[i] = c[i]
      /\ d[Len(c) + 1] = y
  BY <1>1, PushFacts
<1> HIDE DEF d
<1>3. Len(d) + (n - (j + 1)) = Len(c) + (n - j)
  BY <1>2
<1>4. ASSUME NEW i \in 1..Len(d) PROVE q[i] = d[i]
  <2>1. CASE i = Len(c) + 1
    <3>1. i \in (Len(c) + 1)..(Len(c) + (n - j)) /\ i - Len(c) + j = j + 1
      BY <2>1, <1>2
    <3>2. q[i] = y
      BY <3>1 DEF Holds
    <3> QED BY <3>2, <2>1, <1>2
  <2>2. CASE i # Len(c) + 1
    <3>1. i \in 1..Len(c)
      BY <2>2, <1>2
    <3> QED BY <3>1, <1>2 DEF Holds
  <2> QED BY <2>1, <2>2
<1>5. ASSUME NEW i \in (Len(d) + 1)..(Len(d) + (n - (j + 1)))
      PROVE  q[i] = w[i - Len(d) + (j + 1)]
  <2>1. i \in (Len(c) + 1)..(Len(c) + (n - j)) /\ i - Len(d) + (j + 1) = i - Len(c) + j
    BY <1>2
  <2> QED BY <2>1 DEF Holds
<1> HIDE DEF d
<1>6. Holds(q, d, w, j + 1, n)
  BY <1>3, <1>4, <1>5 DEF Holds
<1> QED BY <1>3, <1>6 DEF Skipped, d

(* Without a U-turn, nothing is cut. *)
LEMMA Rest ==
  ASSUME NEW n \in Nat, NEW w, Turning(w, n),
         NEW c, Settled(c), NEW q, Holds(q, c, w, n, n), ~EndsU(c)
  PROVE  Shortened[q] = q
<1>1. c \in Seq(Turns) /\ Len(c) \in Nat /\ n \in 0..n /\ Len(c) + (n - n) = Len(c)
  BY LenProperties DEF Settled
<1>2. FirstIndex(q, "F") = Len(c) + 1 /\ q \in Paths /\ q[Len(c) + 1] = "F"
      /\ \A i \in 1..Len(c) : q[i] = c[i]
  <2>1. FirstIndex(q, "F") = Len(c) + (n - n) + 1
    BY <1>1, HoldsFacts
  <2> QED BY <1>1, <2>1 DEF Holds
<1>3. ASSUME NEW i \in 1..Len(c) PROVE q[i + 1] # "U"
  <2>1. CASE i = Len(c)
    BY <2>1, <1>2
  <2>2. CASE i # Len(c)
    <3>0. Len(c) \in Nat /\ i + 1 \in 1..Len(c)
      <4>1. Len(c) \in Nat
        BY <1>1
      <4> QED BY <2>2, <4>1
    <3>1. i + 1 \in 1..Len(c) /\ q[i + 1] = c[i + 1]
      BY <3>0, <1>2
    <3>2. CASE i + 1 = Len(c)
      BY <3>1, <3>2 DEF EndsU
    <3>3. CASE i + 1 # Len(c)
      <4>1. i + 1 \in 1..(Len(c) - 1)
        BY <3>0, <3>3
      <4> QED BY <3>1, <4>1 DEF Settled
    <3> QED BY <3>2, <3>3
  <2> QED BY <2>1, <2>2
<1>4. BeforeUTurn(q) = {}
  <2>1. (Len(c) + 1) - 1 = Len(c)
    BY <1>1
  <2> QED BY <1>2, <1>3, <2>1 DEF BeforeUTurn
<1> QED BY <1>2, <1>4 DEF Shortened

(* The leftmost U-turn of the array is the last turn of the record: a cut *)
(* takes the next turn of w into it.                                      *)
LEMMA Cut ==
  ASSUME NEW n \in Nat, NEW w, Turning(w, n),
         NEW j \in 0..(n - 1), NEW c, Settled(c), NEW q, Holds(q, c, w, j, n), EndsU(c)
  PROVE  /\ Holds(Shortened[q], Push(c, w[j + 1]), w, j + 1, n)
         /\ Len(Push(c, w[j + 1])) + (n - (j + 1)) = Len(c) + (n - j) - 2
<1> DEFINE y == w[j + 1]
           d == Push(c, y)
           l == Len(c)
           e == l + (n - j) + 1
           r == Shifted(q, l - 1, e)
<1>1. j + 1 \in 1..n /\ y \in Turns /\ j \in 0..n
  BY DEF Turning
<1>2. /\ l \in Nat /\ l >= 2 /\ Len(d) = l - 1
      /\ \A i \in 1..(l - 2) : d[i] = c[i]
      /\ d[l - 1] = Substitute(c[l - 1], y)
  BY <1>1, PushFacts
<1>3. FirstIndex(q, "F") = e /\ \A i \in 1..(l + (n - j)) : q[i] \in Turns
  BY <1>1, HoldsFacts
<1>4. q \in Paths /\ PathSize \in Nat /\ e + 1 <= PathSize
      /\ (\A i \in 1..l : q[i] = c[i]) /\ q[e] = "F" /\ q[e + 1] = NUL
      /\ \A i \in (l + 1)..(l + (n - j)) : q[i] = w[i - l + j]
  <2>1. q \in Paths
    BY DEF Holds
  <2>2. PathSize \in Nat
    BY <2>1, PathTypes
  <2>3. e + 1 = l + (n - j) + 2
    BY <1>2
  <2> QED BY <2>1, <2>2, <2>3 DEF Holds
<1>4a. /\ l \in Nat /\ l >= 2 /\ Len(d) = l - 1 /\ n \in Nat /\ j \in 0..(n - 1)
       /\ PathSize \in Nat /\ e + 1 <= PathSize /\ e = l + (n - j) + 1
  BY <1>2, <1>4
<1> HIDE DEF d
<1>5. q[l + 1] = y /\ q[l - 1] = c[l - 1] /\ q[l] = "U"
  <2>1. l + 1 \in (l + 1)..(l + (n - j)) /\ (l + 1) - l + j = j + 1 /\ l \in 1..l /\ l - 1 \in 1..l
    BY <1>2
  <2> QED BY <2>1, <1>4 DEF EndsU
<1>6. /\ l - 1 \in BeforeUTurn(q)
      /\ \A i \in BeforeUTurn(q) : l - 1 <= i
  <2>1. l - 1 \in 1..(e - 1) /\ (l - 1) + 1 = l
    BY <1>2
  <2>2. ASSUME NEW i \in 1..(e - 1), i < l - 1 PROVE q[i + 1] # "U"
    <3>1. i + 1 \in 1..(l - 1) /\ i + 1 \in 1..l
      BY <2>2, <1>2
    <3> QED BY <3>1, <1>4 DEF Settled
  <2>3. BeforeUTurn(q) = {i \in 1..(e - 1) : q[i + 1] = "U"}
    BY <1>3 DEF BeforeUTurn
  <2> HIDE DEF l, e
  <2>4. l \in Nat /\ e \in Int
    BY <1>2 DEF l, e
  <2> QED BY <2>1, <2>2, <2>3, <2>4, <1>5
<1>7. (CHOOSE i \in BeforeUTurn(q) : \A k \in BeforeUTurn(q) : i <= k) = l - 1
  <2> HIDE DEF l, e
  <2>1. BeforeUTurn(q) \subseteq Int
    <3>1. FirstIndex(q, "F") \in Int
      BY <1>2, <1>3 DEF l, e
    <3> QED BY <3>1 DEF BeforeUTurn
  <2> DEFINE z == CHOOSE i \in BeforeUTurn(q) : \A k \in BeforeUTurn(q) : i <= k
  <2>2. z \in BeforeUTurn(q) /\ \A k \in BeforeUTurn(q) : z <= k
    BY <1>6
  <2>3. z \in Int /\ l - 1 \in Int /\ z <= l - 1 /\ l - 1 <= z
    BY <2>1, <2>2, <1>6
  <2> HIDE DEF z
  <2>4. z = l - 1
    BY <2>3
  <2> QED BY <2>4 DEF z
<1>8. Shortened[q] = CutAt(q, l - 1)
  <2>1. Shortened[q] = IF BeforeUTurn(q) = {} THEN q
          ELSE CutAt(q, CHOOSE i \in BeforeUTurn(q) : \A k \in BeforeUTurn(q) : i <= k)
    BY <1>4 DEF Shortened
  <2>2. BeforeUTurn(q) # {}
    BY <1>6
  <2> QED BY <2>1, <2>2, <1>7
<1>9. Substitute(q[l - 1], q[l + 1]) \in Turns
  <2>1. c[l - 1] \in Turns
    <3>1. l - 1 \in 1..(l + (n - j)) /\ l - 1 \in 1..l
      BY <1>2
    <3> QED BY <1>3, <1>4, <3>1
  <2> QED BY <1>1, <1>5, <2>1, SubstituteFacts
<1>10. Shortened[q] = r /\ r \in Paths
  <2>1. l - 1 \in 1..(e - 2) /\ e \in 1..(PathSize - 1) /\ (l - 1) + 2 = l + 1
    BY <1>2, <1>4
  <2>2. Substitute(q[l - 1], q[(l - 1) + 2]) \in Chars
    BY <1>9, <2>1 DEF Chars
  <2> HIDE DEF l, e
  <2>3. CutAt(q, l - 1) = Shifted(q, l - 1, e) /\ Shifted(q, l - 1, e) \in Paths
    BY <2>1, <2>2, <1>3, <1>4, CutFacts
  <2> QED BY <2>3, <1>8
<1>11. \A k \in 1..PathSize : r[k] = IF k < l - 1 THEN q[k]
                                   ELSE IF k = l - 1 THEN Substitute(q[l - 1], q[l + 1])
                                   ELSE IF k < e THEN q[k + 2] ELSE q[k]
  <2>1. (l - 1) + 2 = l + 1
    BY <1>2
  <2> QED BY <2>1 DEF Shifted
<1> HIDE DEF r
<1>12. ASSUME NEW k \in 1..Len(d) PROVE r[k] = d[k]
  <2>1. k \in 1..PathSize /\ k \in 1..(l - 1) /\ k \in 1..l
    <3> HIDE DEF l, e
    <3> QED BY <1>4a
  <2>2. CASE k = l - 1
    <3>1. ~(k < l - 1)
      BY <2>2, <1>2
    <3>2. r[k] = Substitute(q[l - 1], q[l + 1])
      BY <2>1, <2>2, <3>1, <1>11
    <3> QED BY <3>2, <2>2, <1>2, <1>5
  <2>3. CASE k # l - 1
    <3>1. k < l - 1 /\ k \in 1..(l - 2)
      BY <2>1, <2>3, <1>2
    <3>2. r[k] = q[k]
      BY <2>1, <3>1, <1>11
    <3> QED BY <3>1, <3>2, <2>1, <1>2, <1>4
  <2> QED BY <2>2, <2>3
<1>13. Len(d) + (n - (j + 1)) = l + (n - j) - 2
  BY <1>2
<1>14. ASSUME NEW k \in (Len(d) + 1)..(Len(d) + (n - (j + 1)))
       PROVE  r[k] = w[k - Len(d) + (j + 1)]
  <2>1. k \in l..(l + (n - j) - 2) /\ k - Len(d) + (j + 1) = (k + 2) - l + j
    BY <1>2
  <2>2. k \in 1..PathSize /\ ~(k < l - 1) /\ k # l - 1 /\ k < e
        /\ k + 2 \in (l + 1)..(l + (n - j))
    <3> HIDE DEF l, e
    <3> QED BY <2>1, <1>4a
  <2>3. r[k] = q[k + 2]
    BY <2>2, <1>11
  <2> DEFINE h == k + 2
             g == h - l + j
  <2>4. q[h] = w[g]
    BY <2>2, <1>4
  <2>5. k - Len(d) + (j + 1) = g /\ q[h] = q[k + 2]
    BY <2>1
  <2> HIDE DEF g, h
  <2> QED BY <2>3, <2>4, <2>5
<1>15. r[Len(d) + (n - (j + 1)) + 1] = "F" /\ r[Len(d) + (n - (j + 1)) + 2] = NUL
  <2>1. Len(d) + (n - (j + 1)) + 1 = e - 2 /\ Len(d) + (n - (j + 1)) + 2 = e - 1
    BY <1>13, <1>2
  <2> HIDE DEF l, e
  <2>2. e - 2 \in 1..PathSize /\ ~(e - 2 < l - 1) /\ e - 2 # l - 1 /\ e - 2 < e /\ (e - 2) + 2 = e
    BY <1>4a
  <2>3. e - 1 \in 1..PathSize /\ ~(e - 1 < l - 1) /\ e - 1 # l - 1 /\ e - 1 < e /\ (e - 1) + 2 = e + 1
    BY <1>4a
  <2>4. r[e - 2] = q[e] /\ r[e - 1] = q[e + 1]
    BY <2>2, <2>3, <1>11
  <2> QED BY <2>1, <2>4, <1>4
<1>16. Len(d) + (n - (j + 1)) + 2 <= PathSize
  BY <1>4a
<1>17. Holds(r, d, w, j + 1, n)
  BY <1>10, <1>12, <1>14, <1>15, <1>16 DEF Holds
<1> QED BY <1>10, <1>13, <1>17 DEF d, r

-----------------------------------------------------------------------------
(* shortestPath. *)

(* The records after each of the n turns of w. *)
Folds(C, w, n) ==
  /\ C[0] = <<>>
  /\ \A j \in 1..n : C[j] = Push(C[j - 1], w[j])
  /\ \A j \in 0..n : Settled(C[j])

(* A set of numbers up to n that is not empty has a greatest one. *)
LEMMA Greatest ==
  ASSUME NEW n \in Nat, NEW T \in SUBSET (0..n), T # {}
  PROVE  \E x \in T : \A y \in T : y <= x
<1> DEFINE M == {n - x : x \in T}
<1>1. M \in SUBSET Nat /\ M # {}
  <2>1. \A x \in T : n - x \in Nat
    OBVIOUS
  <2> QED BY <2>1
<1>2. PICK z \in M : \A y \in M : z <= y
  <2> HIDE DEF M
  <2> QED BY <1>1, LeastElement
<1>3. PICK x \in T : z = n - x
  BY <1>2
<1>4. ASSUME NEW y \in T PROVE y <= x
  <2>1. n - y \in M
    OBVIOUS
  <2>2. n - x <= n - y
    BY <2>1, <1>2, <1>3
  <2> QED BY <2>2, <1>3
<1> QED BY <1>3, <1>4

(* The array shows the record of i turns, and either all turns are in it *)
(* or a cut comes next.                                                  *)
Stands(q, C, w, n, e, i) ==
  Holds(q, C[i], w, i, n) /\ (i = n \/ EndsU(C[i])) /\ Len(C[i]) + (n - i) = e

(* The turns that the array still shows as they were made. *)
LEMMA Normal ==
  ASSUME NEW n \in Nat, NEW w, Turning(w, n),
         NEW C, Folds(C, w, n), NEW j \in 0..n, NEW q, Holds(q, C[j], w, j, n)
  PROVE  \E i \in 0..n : Stands(q, C, w, n, Len(C[j]) + (n - j), i)
<1> DEFINE e == Len(C[j]) + (n - j)
           T == {i \in 0..n : Holds(q, C[i], w, i, n) /\ Len(C[i]) + (n - i) = e}
<1>1. j \in T /\ T \in SUBSET (0..n)
  OBVIOUS
<1>2. PICK i \in T : \A k \in T : k <= i
  <2> HIDE DEF T
  <2> QED BY <1>1, Greatest
<1>3. ASSUME i # n, ~EndsU(C[i]) PROVE FALSE
  <2>1. i \in 0..(n - 1) /\ i + 1 \in 1..n /\ (i + 1) - 1 = i /\ i \in 0..n /\ i + 1 \in 0..n
    BY <1>2, <1>3
  <2>2. Holds(q, C[i], w, i, n) /\ Len(C[i]) + (n - i) = e
    BY <1>2
  <2>3. Settled(C[i]) /\ C[i + 1] = Push(C[i], w[i + 1])
    BY <2>1 DEF Folds
  <2> HIDE DEF e
  <2>4. /\ Holds(q, Push(C[i], w[i + 1]), w, i + 1, n)
        /\ Len(Push(C[i], w[i + 1])) + (n - (i + 1)) = Len(C[i]) + (n - i)
    <3>1. Skipped(q, C[i], w, i, n)
      BY <2>1, <2>2, <2>3, <1>3, Skip
    <3> QED BY <3>1 DEF Skipped
  <2>5. i + 1 \in T
    BY <2>1, <2>2, <2>3, <2>4
  <2>6. i + 1 <= i
    BY <2>5, <1>2
  <2> QED BY <2>1, <2>6
<1> QED BY <1>2, <1>3 DEF Stands

(* What the array is after k cuts, from the one before. *)
Halved(f, p, k) == IF k = 0 THEN p ELSE Shortened[f[k - 1]]

(* The recursive function of Reduced exists, up to every number. *)
LEMMA HalvedExists ==
  ASSUME NEW p, NEW n \in Nat
  PROVE  \E f : f = [k \in 0..n |-> Halved(f, p, k)]
<1> DEFINE Q(i) == \E f : f = [k \in 0..i |-> Halved(f, p, k)]
           I == {i \in 0..n : Q(i)}
<1>1. 0 \in I
  <2> DEFINE g == [k \in 0..0 |-> p]
  <2>1. g = [k \in 0..0 |-> Halved(g, p, k)]
    BY DEF Halved
  <2>2. Q(0)
    <3> HIDE DEF g
    <3> QED BY <2>1
  <2> QED BY <2>2
<1>2. ASSUME NEW i \in 1..n, i - 1 \in I PROVE i \in I
  <2>1. PICK f : f = [k \in 0..(i - 1) |-> Halved(f, p, k)]
    BY <1>2
  <2> DEFINE g == [k \in 0..i |-> IF k = i THEN Halved(f, p, i) ELSE f[k]]
  <2>2. ASSUME NEW k \in 0..i PROVE g[k] = Halved(g, p, k)
    <3>1. k # 0 => k - 1 \in 0..(i - 1) /\ g[k - 1] = f[k - 1]
      OBVIOUS
    <3>2. k # i => f[k] = Halved(f, p, k)
      <4>1. k # i => k \in 0..(i - 1)
        OBVIOUS
      <4> QED BY <4>1, <2>1
    <3>3. Halved(f, p, k) = Halved(g, p, k)
      BY <3>1 DEF Halved
    <3>4. g[k] = Halved(f, p, k)
      BY <3>2
    <3> QED BY <3>3, <3>4
  <2>3. g = [k \in 0..i |-> Halved(g, p, k)]
    BY <2>2
  <2>4. Q(i)
    <3> HIDE DEF g
    <3> QED BY <2>3
  <2> QED BY <2>4
<1>3. 0..n \subseteq I
  <2> HIDE DEF I
  <2> QED BY <1>1, <1>2, UpTo
<1> QED BY <1>3

(* The loop of shortestPath has done its work when it ends. *)
LEMMA ReducedFacts ==
  ASSUME NEW n \in Nat, NEW w, Turning(w, n),
         NEW C, Folds(C, w, n), ~EndsU(C[n]), NEW p, Holds(p, C[0], w, 0, n)
  PROVE  Holds(Reduced(p), C[n], w, n, n)
<1> DEFINE N == PathSize \div 2
           f == CHOOSE f : f = [k \in 0..N |-> Halved(f, p, k)]
<1>1. p \in Paths /\ PathSize \in Nat /\ N \in Nat /\ PathSize - 2 - 2 * N < 0
      /\ C[0] = <<>> /\ n + 2 <= PathSize
  <2>1. p \in Paths
    BY DEF Holds
  <2>2. PathSize \in Nat
    BY <2>1, PathTypes
  <2>3. C[0] = <<>>
    BY DEF Folds
  <2>4. Len(C[0]) + (n - 0) + 2 <= PathSize
    BY DEF Holds
  <2> QED BY <2>1, <2>2, <2>3, <2>4
<1>2. f = [k \in 0..N |-> Halved(f, p, k)]
  BY <1>1, HalvedExists
<1>3. Reduced(p) = f[N]
  BY DEF Reduced, Halved
<1> HIDE DEF f
<1>4. f[0] = p /\ \A k \in 1..N : f[k] = Shortened[f[k - 1]]
  <2> HIDE DEF N
  <2>1. 0 \in 0..N /\ \A k \in 1..N : k \in 0..N /\ k # 0
    BY <1>1
  <2>2. \A k \in 0..N : f[k] = Halved(f, p, k)
    BY <1>2
  <2> QED BY <2>1, <2>2 DEF Halved
<1> DEFINE Good(k) == \E i \in 0..n : /\ Holds(f[k], C[i], w, i, n) /\ (i = n \/ EndsU(C[i]))
                                      /\ (i = n \/ Len(C[i]) + (n - i) <= n - 2 * k)
           I == {k \in 0..N : Good(k)}
<1> HIDE DEF N
<1>5. 0 \in I
  <2>1. PICK i \in 0..n : /\ Holds(p, C[i], w, i, n) /\ (i = n \/ EndsU(C[i]))
                          /\ Len(C[i]) + (n - i) = Len(C[0]) + (n - 0)
    <3>1. 0 \in 0..n
      OBVIOUS
    <3>2. \E i \in 0..n : Stands(p, C, w, n, Len(C[0]) + (n - 0), i)
      BY <3>1, Normal
    <3> QED BY <3>2 DEF Stands
  <2>2. Len(C[i]) + (n - i) <= n - 2 * 0
    BY <2>1, <1>1
  <2>3. Good(0)
    BY <2>1, <2>2, <1>4
  <2> QED BY <2>3, <1>1
<1>6. ASSUME NEW k \in 1..N, k - 1 \in I PROVE k \in I
  <2>1. PICK i \in 0..n : /\ Holds(f[k - 1], C[i], w, i, n) /\ (i = n \/ EndsU(C[i]))
                          /\ (i = n \/ Len(C[i]) + (n - i) <= n - 2 * (k - 1))
    BY <1>6
  <2>2. f[k] = Shortened[f[k - 1]]
    BY <1>4
  <2>3. Settled(C[i])
    BY DEF Folds
  <2>4. CASE i = n
    <3>1. Holds(f[k - 1], C[n], w, n, n) /\ Settled(C[n])
      BY <2>1, <2>3, <2>4
    <3>2. Shortened[f[k - 1]] = f[k - 1]
      BY <3>1, Rest
    <3>3. n \in 0..n
      OBVIOUS
    <3>4. Good(k)
      BY <3>1, <3>2, <3>3, <2>2
    <3>5. k \in 0..N
      BY <1>1
    <3> HIDE DEF Good
    <3> QED BY <3>4, <3>5
  <2>5. CASE i # n
    <3>1. i \in 0..(n - 1) /\ i + 1 \in 1..n /\ (i + 1) - 1 = i /\ i + 1 \in 0..n
      BY <2>5
    <3>2. C[i + 1] = Push(C[i], w[i + 1])
      BY <3>1 DEF Folds
    <3>3. /\ Holds(Shortened[f[k - 1]], Push(C[i], w[i + 1]), w, i + 1, n)
          /\ Len(Push(C[i], w[i + 1])) + (n - (i + 1)) = Len(C[i]) + (n - i) - 2
      BY <3>1, <2>1, <2>3, <2>5, Cut
    <3>4. Holds(f[k], C[i + 1], w, i + 1, n)
      BY <3>2, <3>3, <2>2
    <3>5. PICK h \in 0..n : /\ Holds(f[k], C[h], w, h, n) /\ (h = n \/ EndsU(C[h]))
                            /\ Len(C[h]) + (n - h) = Len(C[i + 1]) + (n - (i + 1))
      <4> DEFINE g == i + 1
                 q == f[k]
      <4>1. g \in 0..n /\ Holds(q, C[g], w, g, n)
        BY <3>1, <3>4
      <4> HIDE DEF g, q, Good, I
      <4>2. \E h \in 0..n : /\ Holds(q, C[h], w, h, n) /\ (h = n \/ EndsU(C[h]))
                            /\ Len(C[h]) + (n - h) = Len(C[g]) + (n - g)
        <5>1. \E h \in 0..n : Stands(q, C, w, n, Len(C[g]) + (n - g), h)
          BY <4>1, Normal
        <5> QED BY <5>1 DEF Stands
      <4> QED BY <4>2 DEF g, q
    <3>6. Len(C[h]) + (n - h) <= n - 2 * k
      <4>1. Len(C[i]) \in Nat
        BY <2>3, LenProperties DEF Settled
      <4>2. Len(C[i]) + (n - i) <= n - 2 * (k - 1)
        BY <2>1, <2>5
      <4>3. Len(C[h]) + (n - h) = Len(C[i]) + (n - i) - 2
        BY <3>2, <3>3, <3>5
      <4>4. k \in Int /\ n - 2 * (k - 1) = n - 2 * k + 2
        BY <1>1
      <4>5. Len(C[i]) + (n - i) - 2 <= n - 2 * k
        <5>1. PICK l \in Nat : l = Len(C[i])
          BY <4>1
        <5>2. l + (n - i) <= n - 2 * k + 2 /\ k \in Int
          BY <4>2, <4>4, <5>1
        <5>3. l + (n - i) - 2 <= n - 2 * k
          BY <5>2
        <5> QED BY <5>1, <5>3
      <4> QED BY <4>3, <4>5
    <3>7. Good(k)
      BY <3>5, <3>6
    <3>8. k \in 0..N
      BY <1>1
    <3> HIDE DEF Good
    <3> QED BY <3>7, <3>8
  <2> QED BY <2>4, <2>5
<1>7. 0..N \subseteq I
  <2> HIDE DEF I
  <2> QED BY <1>1, <1>5, <1>6, UpTo
<1>8. PICK i \in 0..n : /\ Holds(f[N], C[i], w, i, n)
                        /\ (i = n \/ Len(C[i]) + (n - i) <= n - 2 * N)
  <2>1. N \in 0..N
    BY <1>1
  <2>2. Good(N)
    BY <1>7, <2>1
  <2> QED BY <2>2
<1>9. i = n
  <2> SUFFICES ASSUME i # n PROVE FALSE
    OBVIOUS
  <2>1. Settled(C[i])
    BY DEF Folds
  <2>2. Len(C[i]) \in Nat
    BY <2>1, LenProperties DEF Settled
  <2>3. Len(C[i]) + (n - i) <= n - 2 * N
    BY <1>8
  <2>4. N \in Nat /\ n - 2 * N < 0
    BY <1>1
  <2>5. Len(C[i]) + (n - i) >= 0
    BY <2>2
  <2>6. \A x, y, z \in Int : x <= y /\ y < 0 => ~(x >= 0)
    OBVIOUS
  <2>7. Len(C[i]) + (n - i) \in Int /\ n - 2 * N \in Int
    BY <2>2, <2>4
  <2> QED BY <2>3, <2>4, <2>5, <2>6, <2>7
<1> QED BY <1>3, <1>8, <1>9

(* What shortestPath leaves in the array reads as the record. *)
LEMMA ShortestFacts ==
  ASSUME NEW n \in Nat, NEW w, Turning(w, n),
         NEW C, Folds(C, w, n), ~EndsU(C[n]), NEW p, Holds(p, C[0], w, 0, n)
  PROVE  /\ shortestPath(p) \in Paths /\ CString(shortestPath(p)) = Append(C[n], "F")
         /\ Len(C[n]) + 2 <= PathSize
<1> DEFINE q == Reduced(p)
           l == Len(C[n])
<1>1. Holds(q, C[n], w, n, n)
  BY ReducedFacts
<1>2. n \in 0..n /\ Settled(C[n]) /\ l + (n - n) = l /\ l \in Nat /\ C[n] \in Seq(Turns)
      /\ \A i \in 1..l : C[n][i] \in Turns
  <2>1. n \in 0..n
    OBVIOUS
  <2>2. Settled(C[n])
    BY <2>1 DEF Folds
  <2> QED BY <2>1, <2>2, LenProperties DEF Settled
<1> HIDE DEF q
<1>3. FirstIndex(q, "F") = l + 1
  <2>1. FirstIndex(q, "F") = Len(C[n]) + (n - n) + 1
    BY <1>1, <1>2, HoldsFacts
  <2> QED BY <1>2, <2>1
<1>4. /\ q \in Paths /\ l + 2 <= PathSize /\ (\A i \in 1..l : q[i] = C[n][i])
      /\ q[l + 1] = "F" /\ q[l + 2] = NUL
  BY <1>1, <1>2 DEF Holds
<1>5. PathSize \in Nat /\ DOMAIN q = 1..PathSize /\ q \in Seq(Chars) /\ Len(q) = PathSize
  BY <1>4, PathTypes
<1>6. shortestPath(p) = q
  <2>1. shortestPath(p) = [q EXCEPT ![FirstIndex(q, "F") + 1] = NUL]
    BY DEF shortestPath, q
  <2>2. FirstIndex(q, "F") + 1 = l + 2
    BY <1>2, <1>3
  <2> QED BY <2>1, <2>2, <1>4 DEF Paths
<1>7. FirstIndex(q, NUL) = l + 2
  <2>1. l + 2 \in 1..PathSize
    BY <1>2, <1>4, <1>5
  <2>2. \A i \in 1..((l + 2) - 1) : q[i] # NUL
    <3> SUFFICES ASSUME NEW i \in 1..((l + 2) - 1) PROVE q[i] # NUL
      OBVIOUS
    <3>1. i \in 1..l \/ i = l + 1
      BY <1>2
    <3>2. NUL \notin Turns /\ NUL # "F"
      BY DEF NUL, Turns
    <3> QED BY <3>1, <3>2, <1>2, <1>4
  <2> HIDE DEF l
  <2> QED BY <2>1, <2>2, <1>4, FirstIndexFacts
<1>8. CString(q) = Append(C[n], "F")
  <2> DEFINE a == SubSeq(q, 1, l + 1)
             b == Append(C[n], "F")
  <2>1. CString(q) = a
    <3>1. (l + 2) - 1 = l + 1
      BY <1>2
    <3> QED BY <1>7, <3>1 DEF CString
  <2>2. /\ b \in Seq(Chars) /\ Len(b) = l + 1
        /\ \A i \in 1..l : b[i] = C[n][i]
        /\ b[l + 1] = "F"
    <3>1. C[n] \in Seq(Chars) /\ "F" \in Chars
      BY <1>2 DEF Chars
    <3> QED BY <3>1, <1>2, AppendProperties
  <2>3. a \in Seq(Chars) /\ Len(a) = l + 1 /\ \A i \in 1..(l + 1) : a[i] = q[i]
    <3>1. \A i \in 1..(l + 1) : q[i] \in Chars
      <4>1. \A i \in 1..(l + 1) : i \in 1..PathSize
        BY <1>2, <1>4, <1>5
      <4> QED BY <4>1, <1>4 DEF Paths
    <3>2. 1 <= l + 1 /\ l + 1 \in Int /\ l + 1 - 1 + 1 = l + 1 /\ 1 \in Int
      BY <1>2
    <3> HIDE DEF l
    <3>3. /\ a \in Seq(Chars) /\ Len(a) = IF 1 <= l + 1 THEN l + 1 - 1 + 1 ELSE 0
          /\ \A i \in 1 .. l + 1 - 1 + 1 : a[i] = q[1 + i - 1]
      BY <3>1, <3>2, SubSeqProperties
    <3>4. \A i \in 1..(l + 1) : 1 + i - 1 = i
      BY <3>2
    <3> HIDE DEF a
    <3> QED BY <3>2, <3>3, <3>4
  <2> HIDE DEF a, b
  <2>4. ASSUME NEW i \in 1..Len(a) PROVE a[i] = b[i]
    <3>1. i \in 1..(l + 1) /\ (i \in 1..l \/ i = l + 1)
      BY <2>3, <1>2
    <3> QED BY <3>1, <2>2, <2>3, <1>4
  <2>5. a = b
    <3>1. Len(a) = Len(b) /\ a \in Seq(Chars) /\ b \in Seq(Chars)
      BY <2>2, <2>3
    <3> QED BY <3>1, <2>4, SeqEqual
  <2> QED BY <2>1, <2>5 DEF b
<1> QED BY <1>4, <1>6, <1>8

-----------------------------------------------------------------------------
(* Where a left-hand run is. *)

(***************************************************************************)
(* Where the robot is in a left-hand run, as a function of the maze: at    *)
(* the end of a path, or one point back from it on its way out of a branch *)
(* that does not lead to the finish; and c, what its record comes to.      *)
(***************************************************************************)
At(m, pts, hd, T, k, p, h, c) ==
  /\ Path(m, pts, hd, T, k)
  /\ \/ p = pts[k] /\ h = hd[k] /\ c = T[k - 1]
     \/ /\ k # 1 /\ p = pts[k - 1] /\ h = BackOf(hd[k])
        /\ Parent(m, p) # pts[k]
        /\ T[k - 1] # <<>> /\ c = Append(T[k - 1], "U")

(* The same for some path. *)
Placed(m, p, h, c) == \E pts, hd, T, k : At(m, pts, hd, T, k, p, h, c)

(* Records without U-turns, and those one U-turn longer. *)
LEMMA WaysFacts ==
  ASSUME NEW t \in Seq(Ways)
  PROVE  /\ t \in Seq(Turns) /\ Settled(t) /\ ~EndsU(t)
         /\ \A y \in Turns : Push(t, y) = Append(t, y)
         /\ \A x \in Ways, y \in Turns : Push(Append(Append(t, x), "U"), y) = Append(t, Substitute(x, y))
         /\ t # <<>> => Settled(Append(t, "U"))
<1>1. Len(t) \in Nat /\ \A i \in 1..Len(t) : t[i] \in Ways
  BY LenProperties
<1>2. Ways \subseteq Turns /\ "U" \in Turns /\ "U" \notin Ways
  BY DEF Ways, Turns
<1>3. t \in Seq(Turns)
  BY <1>2
<1>4. ~EndsU(t)
  <2> SUFFICES ASSUME EndsU(t) PROVE FALSE
    OBVIOUS
  <2>1. Len(t) \in 1..Len(t)
    BY <1>1 DEF EndsU
  <2> QED BY <2>1, <1>1, <1>2 DEF EndsU
<1>5. Settled(t)
  <2>1. \A i \in 1..(Len(t) - 1) : t[i] # "U"
    <3>1. \A i \in 1..(Len(t) - 1) : i \in 1..Len(t)
      BY <1>1
    <3> QED BY <3>1, <1>1, <1>2
  <2> QED BY <1>3, <1>4, <2>1 DEF Settled
<1>6. \A y \in Turns : Push(t, y) = Append(t, y)
  BY <1>4 DEF Push
<1>7. ASSUME NEW x \in Ways, NEW y \in Turns
      PROVE  Push(Append(Append(t, x), "U"), y) = Append(t, Substitute(x, y))
  <2> DEFINE a == Append(t, x)
             c == Append(a, "U")
  <2>1. /\ a \in Seq(Turns) /\ Len(a) = Len(t) + 1 /\ a[Len(t) + 1] = x
        /\ \A i \in 1..Len(t) : a[i] = t[i]
    BY <1>2, <1>3, <1>7, AppendProperties
  <2> HIDE DEF a
  <2>2. /\ c \in Seq(Turns) /\ Len(c) = Len(a) + 1 /\ c[Len(a) + 1] = "U"
        /\ \A i \in 1..Len(a) : c[i] = a[i]
    BY <1>2, <2>1, AppendProperties
  <2> HIDE DEF c
  <2>3. Len(c) = Len(t) + 2 /\ Len(c) - 2 = Len(t) /\ Len(c) - 1 = Len(t) + 1 /\ Len(a) + 1 = Len(c)
    BY <1>1, <2>1, <2>2
  <2>4. EndsU(c)
    BY <2>2, <2>3, <1>1 DEF EndsU
  <2>5. c[Len(c) - 1] = x
    <3>1. Len(t) + 1 \in 1..Len(a)
      BY <1>1, <2>1
    <3> QED BY <2>1, <2>2, <2>3, <3>1
  <2>6. SubSeq(c, 1, Len(t)) = t
    <3>1. \A i \in 1..Len(t) : i \in 1..Len(a)
      BY <1>1, <2>1
    <3>2. \A i \in 1..Len(t) : c[i] = t[i]
      BY <2>1, <2>2, <3>1
    <3>3. \A i \in 1..Len(t) : c[i] \in Ways
      BY <1>1, <3>2
    <3> DEFINE s == SubSeq(c, 1, Len(t))
    <3>4. /\ s \in Seq(Ways) /\ Len(s) = IF 1 <= Len(t) THEN Len(t) - 1 + 1 ELSE 0
          /\ \A i \in 1 .. Len(t) - 1 + 1 : s[i] = c[1 + i - 1]
      <4>1. 1 \in Int /\ Len(t) \in Int
        BY <1>1
      <4> QED BY <3>3, <4>1, SubSeqProperties
    <3> HIDE DEF s
    <3>5. Len(s) = Len(t)
      <4>1. PICK l \in Nat : l = Len(t)
        BY <1>1
      <4>2. Len(s) = IF 1 <= l THEN l - 1 + 1 ELSE 0
        BY <3>4, <4>1
      <4>3. Len(s) = l
        BY <4>2
      <4> QED BY <4>1, <4>3
    <3>6. ASSUME NEW i \in 1..Len(s) PROVE s[i] = t[i]
      <4>1. i \in 1..Len(t) /\ i \in 1 .. Len(t) - 1 + 1 /\ 1 + i - 1 = i
        BY <3>5, <1>1
      <4> QED BY <4>1, <3>2, <3>4
    <3> QED BY <3>4, <3>5, <3>6, SeqEqual DEF s
  <2>7. Push(c, y) = Append(t, Substitute(x, y))
    BY <2>3, <2>4, <2>5, <2>6 DEF Push
  <2> QED BY <2>7 DEF c, a
<1>8. ASSUME t # <<>> PROVE Settled(Append(t, "U"))
  <2> DEFINE c == Append(t, "U")
  <2>1. /\ c \in Seq(Turns) /\ Len(c) = Len(t) + 1 /\ \A i \in 1..Len(t) : c[i] = t[i]
    BY <1>2, <1>3, AppendProperties
  <2> HIDE DEF c
  <2>2. Len(t) # 0
    BY <1>8
  <2>3. Len(c) >= 2 /\ Len(c) - 1 = Len(t)
    BY <2>1, <2>2, <1>1
  <2>4. \A i \in 1..(Len(c) - 1) : c[i] # "U"
    BY <2>1, <2>3, <1>1, <1>2
  <2>5. Settled(c)
    BY <2>1, <2>3, <2>4 DEF Settled
  <2> QED BY <2>5 DEF c
<1> QED BY <1>3, <1>4, <1>5, <1>6, <1>7, <1>8

(* A robot in a left-hand run is on a point, with a settled record. *)
LEMMA PlacedFacts ==
  ASSUME NEW m, MazeOK(m), NEW p, NEW h, NEW c, Placed(m, p, h, c)
  PROVE  p \in Grid /\ h \in Headings /\ Settled(c)
<1>1. PICK pts, hd, T, k : At(m, pts, hd, T, k, p, h, c)
  BY DEF Placed
<1>2. /\ k \in Nat \ {0} /\ k \in 1..k /\ k - 1 \in 0..(k - 1)
      /\ pts[k] \in Grid /\ hd[k] \in Headings /\ T[k - 1] \in Seq(Ways)
  <2>1. k \in Nat \ {0}
    BY <1>1 DEF At, Path
  <2>2. k \in 1..k /\ k - 1 \in 0..(k - 1)
    BY <2>1
  <2> QED BY <1>1, <2>1, <2>2 DEF At, Path
<1>3. k # 1 => pts[k - 1] \in Grid /\ BackOf(hd[k]) \in Headings
  <2>1. k # 1 => k - 1 \in 1..k
    BY <1>2
  <2> QED BY <1>1, <1>2, <2>1, HeadingFacts DEF At, Path
<1> QED BY <1>1, <1>2, <1>3, WaysFacts DEF At

(* Turns made one after the other. *)
LEMMA TurnedFacts ==
  ASSUME NEW a \in Headings
  PROVE  /\ LeftOf(BackOf(a)) = RightOf(a) /\ RightOf(BackOf(a)) = LeftOf(a)
         /\ BackOf(LeftOf(a)) = RightOf(a) /\ BackOf(RightOf(a)) = LeftOf(a)
         /\ LeftOf(RightOf(a)) = a /\ RightOf(LeftOf(a)) = a
         /\ LeftOf(LeftOf(a)) = BackOf(a) /\ RightOf(RightOf(a)) = BackOf(a)
         /\ Turned(a, LeftOf(a)) = "L" /\ Turned(a, a) = "S" /\ Turned(a, RightOf(a)) = "R"
<1>1. /\ LeftOf(BackOf(a)) = RightOf(a) /\ RightOf(BackOf(a)) = LeftOf(a)
      /\ BackOf(LeftOf(a)) = RightOf(a) /\ BackOf(RightOf(a)) = LeftOf(a)
      /\ LeftOf(RightOf(a)) = a /\ RightOf(LeftOf(a)) = a
      /\ LeftOf(LeftOf(a)) = BackOf(a) /\ RightOf(RightOf(a)) = BackOf(a)
  BY DEF Headings, LeftOf, RightOf, BackOf
<1>2. a # LeftOf(a) /\ a # RightOf(a) /\ a # BackOf(a) /\ LeftOf(a) # RightOf(a)
  BY HeadingFacts
<1> QED BY <1>1, <1>2 DEF Turned

(* On, along a way of the path's own. *)
LEMMA Grow ==
  ASSUME NEW m, MazeOK(m), NEW pts, NEW hd, NEW T, NEW k, Path(m, pts, hd, T, k),
         NEW p, p = pts[k], NEW a, a = hd[k], p # m.finish,
         NEW d \in Headings, Open(m, p, d), d # BackOf(a),
         \A e \in Earlier(a, d) : Dead(m, p, e)
  PROVE  Placed(m, Ahead(p, d), d,
                IF Crossing(m, p, a) THEN Append(T[k - 1], Turned(a, d)) ELSE T[k - 1])
<1>1. PICK pts2, hd2, T2 :
         /\ Path(m, pts2, hd2, T2, k + 1)
         /\ pts2[k + 1] = Ahead(pts[k], d) /\ hd2[k + 1] = d
         /\ T2[k] = IF Crossing(m, pts[k], hd[k]) THEN Append(T[k - 1], Turned(hd[k], d)) ELSE T[k - 1]
  BY PathGrow
<1>2. k \in Nat /\ (k + 1) - 1 = k
  <2>1. k \in Nat
    BY DEF Path
  <2> QED BY <2>1
<1>3. At(m, pts2, hd2, T2, k + 1, Ahead(p, d), d,
         IF Crossing(m, p, a) THEN Append(T[k - 1], Turned(a, d)) ELSE T[k - 1])
  BY <1>1, <1>2 DEF At
<1> QED BY <1>3 DEF Placed

(* Back, out of a point from which no other way leads to the finish. *)
LEMMA Pop ==
  ASSUME NEW m, MazeOK(m), NEW pts, NEW hd, NEW T, NEW k, Path(m, pts, hd, T, k), k # 1,
         NEW p, p = pts[k], NEW a, a = hd[k], p # m.finish,
         Dead(m, p, LeftOf(a)), Dead(m, p, a), Dead(m, p, RightOf(a))
  PROVE  /\ Open(m, p, BackOf(a))
         /\ Placed(m, Ahead(p, BackOf(a)), BackOf(a), Append(T[k - 1], "U"))
<1> DEFINE j == k - 1
           q == pts[j]
<1>1. k \in 2..k /\ k \in 1..k /\ j \in 1..j /\ j + 1 = k
  <2>1. k \in Nat \ {0}
    BY DEF Path
  <2> QED BY <2>1
<1>2. p \in Grid /\ a \in Headings
  BY <1>1 DEF Path
<1>3. Open(m, p, BackOf(a)) /\ Ahead(p, BackOf(a)) = q /\ q \in Grid /\ q # m.finish
  BY <1>1, WayBack
<1>4. Parent(m, p) = q
  <2>1. PICK d \in Headings : Open(m, p, d) /\ Parent(m, p) = Ahead(p, d)
    BY <1>2, ParentAhead
  <2>2. d \in {a, LeftOf(a), RightOf(a), BackOf(a)}
    BY <1>2, HeadingFacts
  <2>3. ~Dead(m, p, d)
    BY <2>1 DEF Dead
  <2> QED BY <2>1, <2>2, <2>3, <1>3
<1>5. Parent(m, q) # p
  <2>1. BackOf(a) \in Headings
    BY <1>2, HeadingFacts
  <2> QED BY <2>1, <1>2, <1>3, <1>4, OneParent
<1>6. T[k - 1] # <<>>
  <2>1. k - 1 \in 1..(k - 1) /\ (k - 1) + 1 = k
    BY <1>1
  <2>2. T[k - 1] = <<>> => pts[(k - 1) + 1] = Parent(m, pts[k - 1])
    BY <2>1 DEF Path
  <2> QED BY <2>1, <2>2, <1>5
<1>7. At(m, pts, hd, T, k, q, BackOf(a), Append(T[k - 1], "U"))
  BY <1>5, <1>6 DEF At
<1> QED BY <1>3, <1>7 DEF Placed

(* What is known of the crossing a robot comes back to. *)
BehindOK(m, pts, hd, T, k, p, a, b) ==
  /\ Path(m, pts, hd, T, k - 1)
  /\ p \in Grid /\ a \in Headings /\ b \in Headings /\ p # m.finish
  /\ Open(m, p, b) /\ b # BackOf(a) /\ Dead(m, p, b)
  /\ \A e \in Earlier(a, b) : Dead(m, p, e)
  /\ T[k - 2] \in Seq(Ways)
  /\ T[k - 1] = IF Crossing(m, p, a) THEN Append(T[k - 2], Turned(a, b)) ELSE T[k - 2]
  /\ k - 1 = 1 => \A d \in Headings : Open(m, p, d) => d = b
  /\ k - 1 # 1 => Open(m, p, BackOf(a))

(* These facts hold of every path that is left by its last point. *)
LEMMA Behind ==
  ASSUME NEW m, MazeOK(m), NEW pts, NEW hd, NEW T, NEW k, Path(m, pts, hd, T, k), k # 1,
         Parent(m, pts[k - 1]) # pts[k]
  PROVE  BehindOK(m, pts, hd, T, k, pts[k - 1], hd[k - 1], hd[k])
<1> DEFINE p == pts[k - 1]
           a == hd[k - 1]
           b == hd[k]
<1>1. Path(m, pts, hd, T, k - 1) /\ k \in Nat
  <2>1. k \in Nat
    BY DEF Path
  <2> QED BY <2>1, PathShrink
<1>2. /\ k - 1 \in 1..(k - 1) /\ k - 1 \in 1..k /\ k \in 1..k /\ (k - 1) + 1 = k
      /\ k - 2 \in 0..(k - 1) /\ k - 1 \in 0..(k - 1) /\ (k - 1) - 1 = k - 2 /\ k - 1 # 0
  <2>1. k \in Nat \ {0}
    BY DEF Path
  <2> QED BY <2>1
<1>3. p \in Grid /\ a \in Headings /\ b \in Headings
  BY <1>2 DEF Path
<1>4. /\ p # m.finish /\ Open(m, p, b) /\ b # BackOf(a) /\ pts[k] = Ahead(p, b)
      /\ \A e \in Earlier(a, b) : Dead(m, p, e)
  BY <1>2 DEF Path
<1>5. Dead(m, p, b)
  BY <1>4 DEF Dead
<1>6. /\ T[k - 2] \in Seq(Ways)
      /\ T[k - 1] = IF Crossing(m, p, a) THEN Append(T[k - 2], Turned(a, b)) ELSE T[k - 2]
  BY <1>2 DEF Path, NextTurns
<1>7. k - 1 = 1 => \A d \in Headings : Open(m, p, d) => d = b
  <2> SUFFICES ASSUME k - 1 = 1 PROVE \A d \in Headings : Open(m, p, d) => d = b
    OBVIOUS
  <2>1. p = m.start
    BY DEF Path
  <2> QED BY <2>1, <1>3, <1>4 DEF MazeOK
<1>8. k - 1 # 1 => Open(m, p, BackOf(a))
  <2> SUFFICES ASSUME k - 1 # 1 PROVE Open(m, p, BackOf(a))
    OBVIOUS
  <2>1. k - 1 \in 2..(k - 1)
    BY <1>2
  <2> QED BY <2>1, <1>1, WayBack
<1> HIDE DEF p, a, b
<1>9. BehindOK(m, pts, hd, T, k, p, a, b)
  BY <1>1, <1>3, <1>4, <1>5, <1>6, <1>7, <1>8 DEF BehindOK
<1> QED BY <1>9 DEF p, a, b

(* The next way the left-hand rule finds. *)
LEMMA Onward ==
  ASSUME NEW m, MazeOK(m), NEW p, NEW h, NEW c, Placed(m, p, h, c), p # m.finish,
         NEW d, d \in {LeftOf(h), h, RightOf(h)}, Open(m, p, d),
         \A e \in Earlier(h, d) : ~Open(m, p, e)
  PROVE  Placed(m, Ahead(p, d), d, IF Crossing(m, p, h) THEN Push(c, Turned(h, d)) ELSE c)
<1> DEFINE goal == Placed(m, Ahead(p, d), d, IF Crossing(m, p, h) THEN Push(c, Turned(h, d)) ELSE c)
<1>1. PICK pts, hd, T, k : At(m, pts, hd, T, k, p, h, c)
  BY DEF Placed
<1>2. p \in Grid /\ h \in Headings /\ d \in Headings /\ d # BackOf(h)
  <2>1. p \in Grid /\ h \in Headings
    BY PlacedFacts
  <2> QED BY <2>1, HeadingFacts
<1>3. Turned(h, d) \in Ways /\ Ways \subseteq Turns
  BY <1>2, TurnedFacts DEF Ways, Turns
<1>4. CASE p = pts[k] /\ h = hd[k] /\ c = T[k - 1]
  <2>1. \A e \in Earlier(h, d) : Dead(m, p, e)
    BY DEF Dead
  <2>2. Path(m, pts, hd, T, k)
    BY <1>1 DEF At
  <2>3. Placed(m, Ahead(p, d), d, IF Crossing(m, p, h) THEN Append(T[k - 1], Turned(h, d)) ELSE T[k - 1])
    BY <1>2, <1>4, <2>1, <2>2, Grow
  <2>4. T[k - 1] \in Seq(Ways)
    <3>1. k - 1 \in 0..(k - 1)
      BY <2>2 DEF Path
    <3> QED BY <2>2, <3>1 DEF Path
  <2>5. Push(c, Turned(h, d)) = Append(T[k - 1], Turned(h, d))
    BY <1>3, <1>4, <2>4, WaysFacts
  <2> QED BY <1>4, <2>3, <2>5
<1>5. CASE /\ k # 1 /\ p = pts[k - 1] /\ h = BackOf(hd[k])
           /\ Parent(m, p) # pts[k]
           /\ T[k - 1] # <<>> /\ c = Append(T[k - 1], "U")
  <2> DEFINE a == hd[k - 1]
             b == hd[k]
             t == T[k - 2]
             L == LeftOf(a)
             R == RightOf(a)
             B == BackOf(a)
  <2>1. Path(m, pts, hd, T, k)
    BY <1>1 DEF At
  <2>2. /\ Path(m, pts, hd, T, k - 1)
        /\ a \in Headings /\ b \in Headings
        /\ Open(m, p, b) /\ b # B /\ Dead(m, p, b)
        /\ \A e \in Earlier(a, b) : Dead(m, p, e)
        /\ t \in Seq(Ways)
        /\ T[k - 1] = IF Crossing(m, p, a) THEN Append(t, Turned(a, b)) ELSE t
        /\ k - 1 = 1 => \A e \in Headings : Open(m, p, e) => e = b
        /\ k - 1 # 1 => Open(m, p, B)
    <3>1. BehindOK(m, pts, hd, T, k, pts[k - 1], hd[k - 1], hd[k])
      BY <2>1, <1>5, Behind
    <3> QED BY <3>1, <1>5 DEF BehindOK
  <2> HIDE DEF a, b, t
  <2>3. h = BackOf(b)
    BY <1>5 DEF b
  <2>4. k - 1 # 1 /\ Open(m, p, B) /\ d # b
    <3>1. d # b
      BY <2>2, <2>3, <1>2, HeadingFacts
    <3> QED BY <3>1, <2>2, <1>2
  <2>5. /\ L \in Headings /\ R \in Headings /\ B \in Headings
        /\ a # L /\ a # R /\ a # B /\ L # R /\ L # B /\ R # B
        /\ Headings = {a, L, R, B}
    BY <2>2, HeadingFacts
  <2>6. /\ LeftOf(L) = B /\ RightOf(L) = a /\ LeftOf(R) = a /\ RightOf(R) = B
        /\ LeftOf(B) = R /\ RightOf(B) = L /\ BackOf(L) = R /\ BackOf(R) = L
        /\ Turned(a, L) = "L" /\ Turned(a, a) = "S" /\ Turned(a, R) = "R"
        /\ Turned(h, LeftOf(h)) = "L" /\ Turned(h, h) = "S" /\ Turned(h, RightOf(h)) = "R"
    BY <2>2, <1>2, TurnedFacts
  <2>7. /\ Crossing(m, p, a) <=> Open(m, p, L) \/ Open(m, p, R)
        /\ Crossing(m, p, h) <=> Open(m, p, LeftOf(h)) \/ Open(m, p, RightOf(h))
    BY <1>2, <2>2, CrossingFacts
  <2>8. \A e \in {L, a, R} : ~Open(m, p, e) => Dead(m, p, e)
    BY DEF Dead
  <2>9. k - 1 - 1 = k - 2 /\ p = pts[k - 1] /\ a = hd[k - 1]
    <3>1. k \in Nat
      BY <2>1 DEF Path
    <3> QED BY <3>1, <1>5 DEF a
  <2>10. ASSUME Dead(m, p, L), Dead(m, p, a), Dead(m, p, R)
         PROVE  Placed(m, Ahead(p, B), B, Append(t, "U"))
    BY <2>2, <2>4, <2>9, <2>10, Pop DEF t
  <2>11. ASSUME d # B, \A e \in Earlier(a, d) : Dead(m, p, e), Crossing(m, p, a)
         PROVE  Placed(m, Ahead(p, d), d, Append(t, Turned(a, d)))
    BY <2>2, <2>9, <2>11, <1>2, Grow DEF t
  <2>12. \A x \in Ways, y \in Turns : Push(Append(Append(t, x), "U"), y) = Append(t, Substitute(x, y))
    BY <2>2, WaysFacts
  <2>13. {"L", "S", "R"} \subseteq Ways /\ {"L", "S", "R"} \subseteq Turns
    BY DEF Ways, Turns
  <2>14. c = Append(T[k - 1], "U")
    BY <1>5
  <2> HIDE DEF L, R, B
  <2>15. CASE b = L
    <3>1. h = R
      BY <2>3, <2>6, <2>15
    <3>2. Crossing(m, p, a) /\ c = Append(Append(t, "L"), "U")
      BY <2>2, <2>6, <2>7, <2>14, <2>15
    <3>3. d \in {a, R, B}
      BY <3>1, <2>6
    <3>4. Crossing(m, p, h)
      BY <2>4, <2>6, <2>7, <3>1
    <3>5. CASE d = a
      <4>1. Placed(m, Ahead(p, d), d, Append(t, "S"))
        <5>1. Earlier(a, d) = {L}
          BY <3>5, <2>5 DEF Earlier, L
        <5> QED BY <5>1, <3>5, <2>2, <2>5, <2>6, <2>11, <2>15, <3>2
      <4>2. Push(c, Turned(h, d)) = Append(t, "S")
        <5>1. Turned(h, d) = "L" /\ Substitute("L", "L") = "S"
          BY <3>1, <3>5, <2>6 DEF Substitute
        <5> QED BY <5>1, <3>2, <2>12, <2>13
      <4> QED BY <4>1, <4>2, <3>4
    <3>6. CASE d = R
      <4>1. Placed(m, Ahead(p, d), d, Append(t, "R"))
        <5>1. Earlier(a, d) = {L, a}
          BY <3>6, <2>5 DEF Earlier, L
        <5>2. Earlier(h, d) = {a}
          <6>1. d = h /\ h # LeftOf(h) /\ LeftOf(h) = a
            BY <3>1, <3>6, <2>5, <2>6
          <6> QED BY <6>1 DEF Earlier
        <5>3. Dead(m, p, L) /\ Dead(m, p, a)
          BY <5>2, <2>2, <2>8, <2>15
        <5> QED BY <5>1, <5>3, <3>6, <2>5, <2>6, <2>11, <3>2
      <4>2. Push(c, Turned(h, d)) = Append(t, "R")
        <5>1. Turned(h, d) = "S" /\ Substitute("L", "S") = "R"
          BY <3>1, <3>6, <2>6 DEF Substitute
        <5> QED BY <5>1, <3>2, <2>12, <2>13
      <4> QED BY <4>1, <4>2, <3>4
    <3>7. CASE d = B
      <4>1. Placed(m, Ahead(p, d), d, Append(t, "U"))
        <5>1. d = RightOf(h) /\ LeftOf(h) = a /\ d # LeftOf(h) /\ d # h
          BY <3>1, <3>7, <2>5, <2>6
        <5>2. Earlier(h, d) = {a, R}
          BY <5>1, <3>1 DEF Earlier
        <5>3. Dead(m, p, L) /\ Dead(m, p, a) /\ Dead(m, p, R)
          BY <5>2, <2>2, <2>8, <2>15
        <5> QED BY <5>3, <3>7, <2>10
      <4>2. Push(c, Turned(h, d)) = Append(t, "U")
        <5>1. Turned(h, d) = "R" /\ Substitute("L", "R") = "U"
          BY <3>1, <3>7, <2>6 DEF Substitute
        <5> QED BY <5>1, <3>2, <2>12, <2>13
      <4> QED BY <4>1, <4>2, <3>4
    <3> QED BY <3>3, <3>5, <3>6, <3>7
  <2>16. CASE b = a
    <3>1. h = B /\ LeftOf(h) = R /\ RightOf(h) = L
      BY <2>3, <2>6, <2>16 DEF B
    <3>2. /\ Crossing(m, p, h) <=> Crossing(m, p, a)
          /\ Crossing(m, p, a) => c = Append(Append(t, "S"), "U")
          /\ ~Crossing(m, p, a) => c = Append(t, "U")
      BY <2>2, <2>6, <2>7, <2>14, <2>16, <3>1
    <3>3. d \in {R, B}
      <4>1. d \in {R, B, L}
        BY <3>1
      <4>2. d # L
        <5> SUFFICES ASSUME d = L PROVE FALSE
          OBVIOUS
        <5>1. Earlier(h, d) = {R, B}
          BY <3>1, <2>5 DEF Earlier
        <5> QED BY <5>1, <2>4
      <4> QED BY <4>1, <4>2
    <3>4. Dead(m, p, L) /\ Dead(m, p, a)
      <4>1. Earlier(a, b) = {L}
        BY <2>5, <2>16 DEF Earlier, L
      <4> QED BY <4>1, <2>2, <2>16
    <3>5. CASE d = R
      <4>1. Crossing(m, p, a)
        BY <3>5, <2>7
      <4>2. Placed(m, Ahead(p, d), d, Append(t, "R"))
        <5>1. Earlier(a, d) = {L, a}
          BY <3>5, <2>5 DEF Earlier, L
        <5> QED BY <5>1, <3>4, <3>5, <4>1, <2>5, <2>6, <2>11
      <4>3. Push(c, Turned(h, d)) = Append(t, "R")
        <5>1. Turned(h, d) = "L" /\ Substitute("S", "L") = "R"
          BY <3>1, <3>5, <2>6 DEF Substitute
        <5> QED BY <5>1, <4>1, <3>2, <2>12, <2>13
      <4> QED BY <4>1, <4>2, <4>3, <3>2
    <3>6. CASE d = B
      <4>1. Placed(m, Ahead(p, d), d, Append(t, "U"))
        <5>1. Earlier(h, d) = {R}
          BY <3>1, <3>6, <2>5 DEF Earlier
        <5>2. Dead(m, p, R)
          BY <5>1, <2>8
        <5> QED BY <5>2, <3>4, <3>6, <2>10
      <4>2. ASSUME Crossing(m, p, a) PROVE Push(c, Turned(h, d)) = Append(t, "U")
        <5>1. Turned(h, d) = "S" /\ Substitute("S", "S") = "U"
          BY <3>1, <3>6, <2>6 DEF Substitute
        <5> QED BY <5>1, <4>2, <3>2, <2>12, <2>13
      <4> QED BY <4>1, <4>2, <3>2
    <3> QED BY <3>3, <3>5, <3>6
  <2>17. CASE b = R
    <3>1. h = L /\ LeftOf(h) = B /\ RightOf(h) = a
      BY <2>3, <2>6, <2>17
    <3>2. Crossing(m, p, a) /\ c = Append(Append(t, "R"), "U")
      BY <2>2, <2>6, <2>7, <2>14, <2>17
    <3>3. d = B
      <4> SUFFICES ASSUME d # B PROVE FALSE
        OBVIOUS
      <4>1. B \in Earlier(h, d)
        BY <3>1, <2>5 DEF Earlier
      <4> QED BY <4>1, <2>4
    <3>4. Crossing(m, p, h)
      BY <2>4, <2>7, <3>1
    <3>5. Dead(m, p, L) /\ Dead(m, p, a)
      <4>1. Earlier(a, b) = {L, a}
        BY <2>5, <2>17 DEF Earlier, L
      <4> QED BY <4>1, <2>2
    <3>6. Placed(m, Ahead(p, d), d, Append(t, "U"))
      BY <3>3, <3>5, <2>2, <2>10, <2>17
    <3>7. Push(c, Turned(h, d)) = Append(t, "U")
      <4>1. Turned(h, d) = "L" /\ Substitute("R", "L") = "U"
        BY <3>1, <3>3, <2>6 DEF Substitute
      <4> QED BY <4>1, <3>2, <2>12, <2>13
    <3> QED BY <3>4, <3>6, <3>7
  <2> QED BY <2>2, <2>5, <2>15, <2>16, <2>17
<1> QED BY <1>1, <1>4, <1>5 DEF At

(* At the end of a branch. *)
LEMMA Return ==
  ASSUME NEW m, MazeOK(m), NEW p, NEW h, NEW c, Placed(m, p, h, c), p # m.finish,
         ~Open(m, p, LeftOf(h)), ~Open(m, p, h), ~Open(m, p, RightOf(h))
  PROVE  /\ Open(m, p, BackOf(h))
         /\ Placed(m, Ahead(p, BackOf(h)), BackOf(h), Push(c, "U"))
<1>1. PICK pts, hd, T, k : At(m, pts, hd, T, k, p, h, c)
  BY DEF Placed
<1>2. Path(m, pts, hd, T, k) /\ k \in Nat \ {0}
  BY <1>1 DEF At, Path
<1>3. CASE p = pts[k] /\ h = hd[k] /\ c = T[k - 1]
  <2>1. k # 1
    BY <1>2, <1>3 DEF Path, MazeOK
  <2>2. Dead(m, p, LeftOf(h)) /\ Dead(m, p, h) /\ Dead(m, p, RightOf(h))
    BY DEF Dead
  <2>3. /\ Open(m, p, BackOf(h))
        /\ Placed(m, Ahead(p, BackOf(h)), BackOf(h), Append(T[k - 1], "U"))
    BY <1>2, <1>3, <2>1, <2>2, Pop
  <2>4. Push(c, "U") = Append(T[k - 1], "U")
    <3>1. k - 1 \in 0..(k - 1)
      BY <1>2
    <3>2. T[k - 1] \in Seq(Ways) /\ "U" \in Turns
      BY <1>2, <3>1 DEF Path, Turns
    <3> QED BY <1>3, <3>2, WaysFacts
  <2> QED BY <2>3, <2>4
<1>4. CASE /\ k # 1 /\ p = pts[k - 1] /\ h = BackOf(hd[k])
           /\ Parent(m, p) # pts[k]
  <2> DEFINE b == hd[k]
  <2>1. p \in Grid /\ b \in Headings /\ Dead(m, p, b)
    <3>1. BehindOK(m, pts, hd, T, k, pts[k - 1], hd[k - 1], hd[k])
      BY <1>2, <1>4, Behind
    <3> QED BY <3>1, <1>4 DEF BehindOK
  <2>2. PICK d \in Headings : Open(m, p, d) /\ Parent(m, p) = Ahead(p, d)
    BY <2>1, ParentAhead
  <2>3. h = BackOf(b) /\ Headings = {h, LeftOf(h), RightOf(h), BackOf(h)} /\ BackOf(h) = b
    <3>1. h = BackOf(b) /\ h \in Headings
      BY <1>4, <2>1, HeadingFacts
    <3> QED BY <3>1, <2>1, HeadingFacts
  <2>4. d = b
    <3> HIDE DEF b
    <3> QED BY <2>2, <2>3
  <2> QED BY <2>1, <2>2, <2>4 DEF Dead
<1> QED BY <1>1, <1>3, <1>4 DEF At

-----------------------------------------------------------------------------
(* The record, the file and the short run. *)

(* What the array path shows: nothing once it is full. *)
Recorded(p, n, c) ==
  n < PathSize - 1 => Turning(p, n) /\ \E C : Folds(C, p, n) /\ C[n] = c

(* An empty array shows no turn. *)
LEMMA NothingRecorded ==
  ASSUME NEW p
  PROVE  Recorded(p, 0, <<>>)
<1> DEFINE C == [j \in 0..0 |-> <<>>]
<1>1. Turning(p, 0)
  BY DEF Turning
<1>2. Settled(<<>>)
  <2>1. <<>> \in Seq(Ways)
    OBVIOUS
  <2> QED BY <2>1, WaysFacts
<1>3. C[0] = <<>> /\ \A j \in 0..0 : C[j] = <<>>
  OBVIOUS
<1> HIDE DEF C
<1>4. Folds(C, p, 0)
  BY <1>2, <1>3 DEF Folds
<1> QED BY <1>1, <1>3, <1>4 DEF Recorded

(* The array shows the turn that inputTurn puts into it. *)
LEMMA RecordGrows ==
  ASSUME NEW p \in Paths, NEW n \in 0..PathSize, n < PathSize - 1, NEW c, Recorded(p, n, c),
         NEW y \in Turns, Settled(Push(c, y))
  PROVE  /\ [p EXCEPT ![n + 1] = y] \in Paths
         /\ Recorded([p EXCEPT ![n + 1] = y], n + 1, Push(c, y))
<1> DEFINE q == [p EXCEPT ![n + 1] = y]
<1>1. PathSize \in Nat /\ n + 1 \in 1..PathSize /\ y \in Chars
  <2>1. PathSize \in Nat
    BY PathTypes
  <2> QED BY <2>1 DEF Chars
<1>2. q \in Paths /\ q[n + 1] = y /\ \A i \in 1..n : q[i] = p[i]
  <2>1. \A i \in 1..n : i \in 1..PathSize /\ i # n + 1
    BY <1>1
  <2> QED BY <1>1, <2>1 DEF Paths
<1> HIDE DEF q
<1>3. PICK C : Folds(C, p, n) /\ C[n] = c
  BY DEF Recorded
<1>4. \A i \in 1..n : p[i] \in Turns
  BY DEF Recorded, Turning
<1>5. Turning(q, n + 1)
  <2>1. \A i \in 1..(n + 1) : i = n + 1 \/ i \in 1..n
    OBVIOUS
  <2> QED BY <2>1, <1>2, <1>4 DEF Turning
<1> DEFINE D == [j \in 0..(n + 1) |-> IF j = n + 1 THEN Push(c, y) ELSE C[j]]
<1>6. D[n + 1] = Push(c, y) /\ \A j \in 0..n : D[j] = C[j]
  OBVIOUS
<1> HIDE DEF D
<1>7. Folds(D, q, n + 1)
  <2>1. D[0] = <<>>
    <3>1. 0 \in 0..n
      OBVIOUS
    <3> QED BY <3>1, <1>3, <1>6 DEF Folds
  <2>2. ASSUME NEW j \in 1..(n + 1) PROVE D[j] = Push(D[j - 1], q[j])
    <3>1. CASE j = n + 1
      <4>1. j - 1 = n /\ n \in 0..n
        BY <3>1
      <4> QED BY <3>1, <4>1, <1>2, <1>3, <1>6
    <3>2. CASE j # n + 1
      <4>1. j \in 1..n /\ j \in 0..n /\ j - 1 \in 0..n
        BY <3>2
      <4> QED BY <4>1, <1>2, <1>3, <1>6 DEF Folds
    <3> QED BY <3>1, <3>2
  <2>3. ASSUME NEW j \in 0..(n + 1) PROVE Settled(D[j])
    <3>1. j = n + 1 \/ j \in 0..n
      OBVIOUS
    <3> QED BY <3>1, <1>3, <1>6 DEF Folds
  <2> QED BY <2>1, <2>2, <2>3 DEF Folds
<1>8. Recorded(q, n + 1, Push(c, y))
  BY <1>5, <1>6, <1>7 DEF Recorded
<1> QED BY <1>2, <1>8 DEF q

(* What is saved of a record. *)
LEMMA RecordSaved ==
  ASSUME NEW p \in Paths, NEW n \in 0..PathSize, n < PathSize - 1, NEW c, Recorded(p, n, c),
         ~EndsU(c), NEW q, q = shortestPath([p EXCEPT ![n + 1] = "F", ![n + 2] = NUL])
  PROVE  q \in Paths /\ CString(q) = Append(c, "F") /\ Len(c) + 2 <= PathSize
<1> DEFINE r == [p EXCEPT ![n + 1] = "F", ![n + 2] = NUL]
<1>1. PICK C : Folds(C, p, n) /\ C[n] = c
  BY DEF Recorded
<1>2. Turning(p, n) /\ n \in Nat /\ PathSize \in Nat
  BY PathTypes DEF Recorded
<1>3. r \in Paths /\ r[n + 1] = "F" /\ r[n + 2] = NUL /\ \A i \in 1..n : r[i] = p[i]
  <2>1. n + 1 \in 1..PathSize /\ n + 2 \in 1..PathSize /\ n + 1 # n + 2
    BY <1>2
  <2>2. \A i \in 1..n : i \in 1..PathSize /\ i # n + 1 /\ i # n + 2
    BY <1>2
  <2>3. "F" \in Chars /\ NUL \in Chars
    BY DEF Chars
  <2> QED BY <2>1, <2>2, <2>3 DEF Paths
<1> HIDE DEF r
<1>4. Holds(r, C[0], p, 0, n)
  <2>1. C[0] = <<>>
    BY <1>1 DEF Folds
  <2>2. Len(C[0]) = 0
    BY <2>1
  <2>3. Len(C[0]) + (n - 0) = n /\ Len(C[0]) + 1 = 1 /\ n + 2 <= PathSize
    BY <2>2, <1>2
  <2>4. \A i \in 1..n : i - Len(C[0]) + 0 = i
    BY <2>2
  <2>5. \A i \in 1..Len(C[0]) : FALSE
    BY <2>2
  <2> QED BY <1>3, <2>3, <2>4, <2>5 DEF Holds
<1>5. /\ shortestPath(r) \in Paths /\ CString(shortestPath(r)) = Append(C[n], "F")
      /\ Len(C[n]) + 2 <= PathSize
  BY <1>1, <1>2, <1>4, ShortestFacts
<1> QED BY <1>1, <1>5 DEF r

(* What is in the file. *)
Saved(f, m) ==
  \E pts, hd, T, k : /\ Path(m, pts, hd, T, k) /\ pts[k] = m.finish
                     /\ f = Append(T[k - 1], "F") /\ Len(f) + 1 <= PathSize

(* A saved path fits into the array, and ends at its one F. *)
LEMMA SavedFacts ==
  ASSUME NEW f, NEW m, Saved(f, m)
  PROVE  /\ f \in Seq(Chars \ {NUL}) /\ Len(f) \in Nat \ {0} /\ Len(f) + 1 <= PathSize
         /\ f[Len(f)] = "F" /\ \A j \in 1..(Len(f) - 1) : f[j] \in Ways
<1>1. PICK pts, hd, T, k : /\ Path(m, pts, hd, T, k)
                           /\ f = Append(T[k - 1], "F") /\ Len(f) + 1 <= PathSize
  BY DEF Saved
<1> DEFINE t == T[k - 1]
<1>2. t \in Seq(Ways)
  <2>1. k \in Nat \ {0}
    BY <1>1 DEF Path
  <2>2. k - 1 \in 0..(k - 1)
    BY <2>1
  <2> QED BY <2>2, <1>1 DEF Path
<1> HIDE DEF t
<1>3. Len(t) \in Nat /\ \A j \in 1..Len(t) : t[j] \in Ways
  BY <1>2, LenProperties
<1>4. t \in Seq(Chars \ {NUL}) /\ "F" \in Chars \ {NUL}
  <2>1. Ways \subseteq Chars \ {NUL} /\ "F" \in Chars \ {NUL}
    BY DEF Ways, Chars, Turns, NUL
  <2> QED BY <1>2, <2>1
<1>5. /\ f \in Seq(Chars \ {NUL}) /\ Len(f) = Len(t) + 1
      /\ \A j \in 1..Len(t) : f[j] = t[j]
      /\ f[Len(t) + 1] = "F"
  <2>1. f = Append(t, "F")
    BY <1>1 DEF t
  <2> QED BY <2>1, <1>4, AppendProperties
<1>6. Len(f) \in Nat \ {0} /\ Len(f) - 1 = Len(t)
  BY <1>3, <1>5
<1> QED BY <1>1, <1>3, <1>5, <1>6

(* How far a short run in the maze of the file has come. *)
Playing(m, p, h, n, f) ==
  \E pts, hd, T, k : /\ Path(m, pts, hd, T, k) /\ pts[k] = m.finish
                     /\ f = Append(T[k - 1], "F")
                     /\ \E i \in 1..k : p = pts[i] /\ h = hd[i] /\ n = Len(T[i - 1])

(* A turning robot stops at the first corridor of its sweep. *)
LEMMA FirstOpenFacts ==
  ASSUME NEW m, NEW n, NEW a, NEW b, NEW c, NEW d, \E e \in {a, b, c, d} : Open(m, n, e)
  PROVE  /\ FirstOpen(m, n, <<a, b, c, d>>) \in {a, b, c, d}
         /\ Open(m, n, a) => FirstOpen(m, n, <<a, b, c, d>>) = a
<1> DEFINE s == <<a, b, c, d>>
           P(i) == Open(m, n, s[i]) /\ \A j \in 1..(i - 1) : ~Open(m, n, s[j])
           x == CHOOSE i \in DOMAIN s : P(i)
<1>1. DOMAIN s = 1..4 /\ s[1] = a /\ s[2] = b /\ s[3] = c /\ s[4] = d
  OBVIOUS
<1>2. 1..4 = {1, 2, 3, 4}
  OBVIOUS
<1> HIDE DEF s
<1>3. /\ P(1) <=> Open(m, n, a)
      /\ P(2) <=> Open(m, n, b) /\ ~Open(m, n, a)
      /\ P(3) <=> Open(m, n, c) /\ ~Open(m, n, b) /\ ~Open(m, n, a)
      /\ P(4) <=> Open(m, n, d) /\ ~Open(m, n, c) /\ ~Open(m, n, b) /\ ~Open(m, n, a)
  <2>1. 1..(1 - 1) = {} /\ 1..(2 - 1) = {1} /\ 1..(3 - 1) = {1, 2} /\ 1..(4 - 1) = {1, 2, 3}
    OBVIOUS
  <2> QED BY <1>1, <2>1
<1> HIDE DEF P
<1>4. x \in DOMAIN s /\ P(x)
  <2>1. \E i \in {1, 2, 3, 4} : P(i)
    BY <1>3
  <2> QED BY <2>1, <1>1, <1>2
<1>5. FirstOpen(m, n, <<a, b, c, d>>) = s[x]
  BY DEF FirstOpen, s, P
<1> HIDE DEF x
<1>6. x \in {1, 2, 3, 4}
  BY <1>1, <1>2, <1>4
<1>7. s[x] \in {a, b, c, d}
  BY <1>1, <1>6
<1>8. Open(m, n, a) => x = 1
  BY <1>3, <1>4, <1>6
<1> QED BY <1>1, <1>5, <1>7, <1>8

(* Every point has a corridor, so a robot that turns stops turning. *)
LEMMA TurnFacts ==
  ASSUME NEW m, MazeOK(m), NEW n \in Grid, NEW d \in Headings
  PROVE  /\ TurnLeft(m, n, d) \in Headings /\ TurnRight(m, n, d) \in Headings
         /\ UTurn(m, n, d) \in Headings
         /\ Open(m, n, LeftOf(d)) => TurnLeft(m, n, d) = LeftOf(d)
         /\ Open(m, n, RightOf(d)) => TurnRight(m, n, d) = RightOf(d)
         /\ Open(m, n, BackOf(d)) => UTurn(m, n, d) = BackOf(d)
<1>1. \E e \in Headings : Open(m, n, e)
  <2>1. PICK x \in m.corridors : n \in x
    BY DEF MazeOK, Points
  <2>2. PICK k \in Grid, e \in Headings : Ahead(k, e) \in Grid /\ x = {k, Ahead(k, e)}
    BY <2>1 DEF MazeOK
  <2>3. Open(m, k, e)
    BY <2>1, <2>2 DEF Open
  <2>4. BackOf(e) \in Headings /\ Open(m, Ahead(k, e), BackOf(e))
    BY <2>2, <2>3, OpenFacts, HeadingFacts
  <2> QED BY <2>1, <2>2, <2>3, <2>4
<1>2. /\ Headings = {d, LeftOf(d), RightOf(d), BackOf(d)}
  BY HeadingFacts
<1>3. /\ \E e \in {LeftOf(d), BackOf(d), RightOf(d), d} : Open(m, n, e)
      /\ \E e \in {RightOf(d), BackOf(d), LeftOf(d), d} : Open(m, n, e)
      /\ \E e \in {BackOf(d), RightOf(d), d, LeftOf(d)} : Open(m, n, e)
  BY <1>1, <1>2
<1>4. TurnLeft(m, n, d) \in Headings /\ (Open(m, n, LeftOf(d)) => TurnLeft(m, n, d) = LeftOf(d))
  BY <1>2, <1>3, FirstOpenFacts DEF TurnLeft
<1>5. TurnRight(m, n, d) \in Headings /\ (Open(m, n, RightOf(d)) => TurnRight(m, n, d) = RightOf(d))
  BY <1>2, <1>3, FirstOpenFacts DEF TurnRight
<1>6. UTurn(m, n, d) \in Headings /\ (Open(m, n, BackOf(d)) => UTurn(m, n, d) = BackOf(d))
  BY <1>2, <1>3, FirstOpenFacts DEF UTurn
<1> QED BY <1>4, <1>5, <1>6

(* What is recorded early on a path stays in front of its record. *)
LEMMA Prefix ==
  ASSUME NEW m, NEW pts, NEW hd, NEW T, NEW k, Path(m, pts, hd, T, k), NEW i \in 0..(k - 1)
  PROVE  /\ Len(T[i]) \in Nat /\ Len(T[i]) <= Len(T[k - 1])
         /\ \A j \in 1..Len(T[i]) : T[k - 1][j] = T[i][j]
<1>1. k \in Nat \ {0} /\ k - 1 - i \in Nat
  BY DEF Path
<1> DEFINE Grows(a) == /\ Len(T[i]) <= Len(T[i + a])
                       /\ \A j \in 1..Len(T[i]) : T[i + a][j] = T[i][j]
           S == {a \in 0..(k - 1 - i) : Grows(a)}
<1>2. \A a \in 0..(k - 1) : T[a] \in Seq(Ways) /\ Len(T[a]) \in Nat /\ T[a] = NextTurns(T, m, pts, hd, a)
  BY LenProperties DEF Path
<1>3. 0 \in S
  <2>1. i + 0 = i /\ 0 \in 0..(k - 1 - i)
    BY <1>1
  <2> QED BY <2>1, <1>2
<1>4. ASSUME NEW a \in 1..(k - 1 - i), a - 1 \in S PROVE a \in S
  <2>1. /\ i + a \in 0..(k - 1) /\ i + (a - 1) \in 0..(k - 1) /\ (i + a) - 1 = i + (a - 1) /\ i + a # 0
        /\ i + a \in 1..(k - 1) /\ i + a \in 1..k /\ i + a + 1 \in 1..k
    BY <1>1
  <2>2. Grows(a - 1)
    BY <1>4
  <2> DEFINE t == T[i + (a - 1)]
             u == T[i + a]
             w == Turned(hd[i + a], hd[i + a + 1])
  <2>3. u = t \/ u = Append(t, w)
    BY <1>2, <2>1 DEF NextTurns
  <2>4. w \in Ways
    <3>1. hd[i + a] \in Headings /\ hd[i + a + 1] \in Headings /\ hd[i + a + 1] # BackOf(hd[i + a])
      BY <2>1 DEF Path
    <3> QED BY <3>1, HeadingFacts DEF Turned, Ways
  <2>5. t \in Seq(Ways) /\ Len(t) \in Nat /\ Len(T[i]) \in Nat /\ Len(T[i]) <= Len(t)
        /\ \A j \in 1..Len(T[i]) : t[j] = T[i][j]
    BY <1>2, <2>1, <2>2
  <2> HIDE DEF t, u, w, Grows
  <2>6. Len(T[i]) <= Len(u) /\ \A j \in 1..Len(T[i]) : u[j] = T[i][j]
    <3>1. CASE u = t
      BY <3>1, <2>5
    <3>2. CASE u = Append(t, w)
      <4>1. Len(u) = Len(t) + 1 /\ \A j \in 1..Len(t) : u[j] = t[j]
        BY <3>2, <2>4, <2>5, AppendProperties
      <4>2. \A j \in 1..Len(T[i]) : j \in 1..Len(t)
        BY <2>5
      <4> QED BY <4>1, <4>2, <2>5
    <3> QED BY <2>3, <3>1, <3>2
  <2>7. Grows(a)
    BY <2>6 DEF Grows, u
  <2>8. a \in 0..(k - 1 - i)
    BY <1>1
  <2> QED BY <2>7, <2>8
<1>5. 0..(k - 1 - i) \subseteq S
  <2> HIDE DEF S
  <2> QED BY <1>1, <1>3, <1>4, UpTo
<1>6. k - 1 - i \in S /\ i + (k - 1 - i) = k - 1
  BY <1>1, <1>5
<1> QED BY <1>2, <1>6

(* A short run on the route does at each point what the route does. *)
PlayOK(m, pts, hd, T, k, i) ==
  IF i = k THEN T[k - 1] = T[i - 1] /\ ErrorAt(m, pts[i], hd[i]) = Bar
  ELSE /\ i + 1 \in 1..k
       /\ Open(m, pts[i], hd[i + 1]) /\ pts[i + 1] = Ahead(pts[i], hd[i + 1])
       /\ IF Crossing(m, pts[i], hd[i])
          THEN LET x == T[k - 1][Len(T[i - 1]) + 1]
               IN  /\ Len(T[i]) = Len(T[i - 1]) + 1 /\ Len(T[i]) <= Len(T[k - 1])
                   /\ x \in Ways /\ x = Turned(hd[i], hd[i + 1])
                   /\ x = "L" => hd[i + 1] = LeftOf(hd[i])
                   /\ x = "R" => hd[i + 1] = RightOf(hd[i])
                   /\ x = "S" => hd[i + 1] = hd[i]
          ELSE T[i] = T[i - 1] /\ hd[i + 1] = hd[i]

(* On a path to the finish, that holds at every point. *)
LEMMA PlayFacts ==
  ASSUME NEW m, MazeOK(m), NEW pts, NEW hd, NEW T, NEW k, Path(m, pts, hd, T, k),
         pts[k] = m.finish, NEW i \in 1..k
  PROVE  PlayOK(m, pts, hd, T, k, i)
<1>1. k \in Nat \ {0}
  BY DEF Path
<1>2. CASE i = k
  <2>1. ErrorAt(m, pts[i], hd[i]) = Bar
    BY <1>2 DEF ErrorAt
  <2> QED BY <1>2, <2>1 DEF PlayOK
<1>3. CASE i # k
  <2>1. i \in 1..(k - 1) /\ i + 1 \in 1..k /\ i \in 0..(k - 1) /\ i - 1 \in 0..(k - 1) /\ i # 0
    BY <1>1, <1>3
  <2>2. /\ hd[i] \in Headings /\ hd[i + 1] \in Headings /\ hd[i + 1] # BackOf(hd[i])
        /\ Open(m, pts[i], hd[i + 1]) /\ pts[i + 1] = Ahead(pts[i], hd[i + 1])
        /\ pts[i] # m.finish /\ T[i - 1] \in Seq(Ways)
        /\ T[i] = NextTurns(T, m, pts, hd, i)
    BY <2>1 DEF Path
  <2>3. /\ Headings = {hd[i], LeftOf(hd[i]), RightOf(hd[i]), BackOf(hd[i])}
        /\ Turned(hd[i], LeftOf(hd[i])) = "L" /\ Turned(hd[i], hd[i]) = "S"
        /\ Turned(hd[i], RightOf(hd[i])) = "R"
    BY <2>2, HeadingFacts, TurnedFacts
  <2> DEFINE w == Turned(hd[i], hd[i + 1])
  <2>4. /\ w \in Ways
        /\ w = "L" => hd[i + 1] = LeftOf(hd[i])
        /\ w = "R" => hd[i + 1] = RightOf(hd[i])
        /\ w = "S" => hd[i + 1] = hd[i]
    BY <2>2, <2>3 DEF Ways
  <2> HIDE DEF w
  <2>5. CASE Crossing(m, pts[i], hd[i])
    <3>1. T[i] = Append(T[i - 1], w)
      BY <2>1, <2>2, <2>5 DEF NextTurns, w
    <3>2. Len(T[i]) = Len(T[i - 1]) + 1 /\ T[i][Len(T[i - 1]) + 1] = w /\ Len(T[i - 1]) \in Nat
      <4> DEFINE t == T[i - 1]
      <4>1. t \in Seq(Ways) /\ T[i] = Append(t, w)
        BY <3>1, <2>2
      <4> HIDE DEF t
      <4>2. Len(Append(t, w)) = Len(t) + 1 /\ Append(t, w)[Len(t) + 1] = w /\ Len(t) \in Nat
        BY <4>1, <2>4, AppendProperties, LenProperties
      <4> QED BY <4>1, <4>2 DEF t
    <3>3. Len(T[i]) <= Len(T[k - 1]) /\ \A j \in 1..Len(T[i]) : T[k - 1][j] = T[i][j]
      BY <2>1, Prefix
    <3>4. Len(T[i - 1]) + 1 \in 1..Len(T[i])
      BY <3>2
    <3>5. T[k - 1][Len(T[i - 1]) + 1] = w
      BY <3>2, <3>3, <3>4
    <3> QED BY <1>3, <2>1, <2>2, <2>4, <2>5, <3>2, <3>3, <3>5 DEF PlayOK, w
  <2>6. CASE ~Crossing(m, pts[i], hd[i])
    <3>1. T[i] = T[i - 1]
      BY <2>1, <2>2, <2>6 DEF NextTurns
    <3>2. ~Open(m, pts[i], LeftOf(hd[i])) /\ ~Open(m, pts[i], RightOf(hd[i]))
      BY <2>2, <2>6, CrossingFacts
    <3>3. hd[i + 1] = hd[i]
      BY <2>2, <2>3, <3>2
    <3> QED BY <1>3, <2>1, <2>2, <2>6, <3>1, <3>3 DEF PlayOK
  <2> QED BY <2>5, <2>6
<1> QED BY <1>2, <1>3

-----------------------------------------------------------------------------
(* The invariant. *)

(* Between runs input is rewound, or the array full or given up.           *)
AtMenu == mode = "menu" => input \in {0, PathSize - 1, PathSize}

(* A left-hand run is on a path, and shows it as long as the array has *)
(* room.                                                               *)
Exploring == mode = "lefthand" =>
  \E c : Placed(maze, pos, heading, c) /\ Recorded(path, input, c)

(* While it is being saved, the array is the record of the path to the *)
(* finish of savedFor's maze.                                          *)
Saving == mode = "saving" => Saved(CString(path), savedFor) /\ ~whole

(* A front part of a saved path. *)
Part(f, s) == f \in Seq(Chars \ {NUL}) /\ FrontOf(f, s)

(* The robot is on the way that s tells, of which f is a part, or all. *)
Following(m, p, h, n, f, all) ==
  \E s : Playing(m, p, h, n, s) /\ Part(f, s) /\ (all => f = s)

(* The file is that record, or the part of it that the power left. *)
FileOK == file # NoFile =>
  \E s : Saved(s, savedFor) /\ Part(file, s) /\ (whole => file = s)

(* A short run reads the file out of the array, and a whole file not *)
(* beyond its end.                                                   *)
Loaded == mode = "short" =>
  /\ file # NoFile /\ \A j \in 1..Len(file) : path[j] = file[j]
  /\ whole => input < Len(file)

(* In the maze of the file, it is on that path as far as the file goes. *)
OnRoute == mode = "short" /\ savedFor = maze /\ (whole \/ input <= Len(file)) =>
  Following(maze, pos, heading, input, file, whole)

(* Only in another maze, or past the end of a cut file, does a short run *)
(* leave the lines.                                                      *)
LostElsewhere == mode = "lost" /\ savedFor = maze =>
  ~whole /\ file # NoFile /\ ~(input <= Len(file))

(* The inductive invariant. *)
Inv == /\ TypeOK /\ AtMenu /\ Exploring /\ Saving /\ FileOK /\ Loaded /\ OnRoute
       /\ LostElsewhere

(* What a cut leaves is a part of what was being saved. *)
LEMMA PartFacts ==
  ASSUME NEW f, NEW s, NEW m, Saved(s, m)
  PROVE  /\ Part(s, s) /\ Part(<<>>, s)
         /\ \A n \in 0..Len(s) : Part(SubSeq(s, 1, n), s)
         /\ Part(f, s) => Len(f) \in Nat /\ Len(f) + 1 <= PathSize
<1>1. s \in Seq(Chars \ {NUL}) /\ Len(s) \in Nat /\ Len(s) + 1 <= PathSize /\ PathSize \in Nat
  BY SavedFacts, PathSizeAssumption
<1>2. Part(s, s)
  BY <1>1 DEF Part, FrontOf
<1>3. Part(<<>>, s)
  <2>1. <<>> \in Seq(Chars \ {NUL}) /\ Len(<<>>) = 0 /\ 1..0 = {}
    OBVIOUS
  <2> QED BY <2>1, <1>1 DEF Part, FrontOf
<1>4. ASSUME NEW n \in 0..Len(s) PROVE Part(SubSeq(s, 1, n), s)
  <2> DEFINE C == Chars \ {NUL}
  <2>1. s \in Seq(C) /\ 1 \in 1..(Len(s) + 1) /\ n \in 0..Len(s) /\ \A i \in 1..n : s[i] \in C
    <3>1. \A i \in 1..n : i \in 1..Len(s)
      BY <1>1
    <3>2. \A i \in 1..Len(s) : s[i] \in C
      BY <1>1, LenProperties
    <3> QED BY <1>1, <3>1, <3>2
  <2> HIDE DEF C
  <2>2. /\ SubSeq(s, 1, n) \in Seq(C)
        /\ Len(SubSeq(s, 1, n)) = IF 1 <= n THEN n - 1 + 1 ELSE 0
        /\ \A i \in 1..(n - 1 + 1) : SubSeq(s, 1, n)[i] = s[1 + i - 1]
    BY <2>1, <1>1, SubSeqProperties
  <2>3. Len(SubSeq(s, 1, n)) = n /\ n <= Len(s)
    BY <2>2, <1>1
  <2>4. \A i \in 1..n : SubSeq(s, 1, n)[i] = s[i]
    BY <2>2, <1>1
  <2> QED BY <2>2, <2>3, <2>4 DEF C, Part, FrontOf
<1>5. ASSUME Part(f, s) PROVE Len(f) \in Nat /\ Len(f) + 1 <= PathSize
  <2>1. f \in Seq(Chars \ {NUL}) /\ Len(f) <= Len(s)
    BY <1>5 DEF Part, FrontOf
  <2> QED BY <2>1, <1>1, LenProperties
<1> QED BY <1>2, <1>3, <1>4, <1>5

(* A cleared array is an array. *)
LEMMA ZeroedFacts == Zeroed \in Paths /\ PathSize \in Nat /\ PathSize >= 3
<1>1. PathSize \in Nat /\ PathSize >= 3
  BY PathSizeAssumption
<1>2. NUL \in Chars
  BY DEF Chars
<1> QED BY <1>1, <1>2 DEF Zeroed, Paths

(* The robot is put down on a point of the maze. *)
LEMMA StartFacts ==
  ASSUME NEW m \in Mazes
  PROVE  m.start \in Points(m) /\ m.facing \in Headings
  BY MazeFacts DEF MazeOK

(* One lemma per action: the invariant holds first, and after each. *)
LEMMA InitInv == Init => Inv
<1> SUFFICES ASSUME Init PROVE Inv
  OBVIOUS
<1>1. maze \in Mazes /\ savedFor = maze /\ mode = "menu" /\ input = 0 /\ file = NoFile /\ whole = FALSE
  BY DEF Init
<1>2. TypeOK
  <2>1. pos \in Points(maze) /\ heading \in Headings
    BY <1>1, StartFacts DEF Init
  <2>2. path \in Paths /\ input \in 0..PathSize
    BY <1>1, ZeroedFacts DEF Init
  <2>3. mode \in Modes
    BY <1>1 DEF Modes
  <2> QED BY <1>1, <2>1, <2>2, <2>3 DEF TypeOK
<1>3. AtMenu /\ Exploring /\ Saving /\ FileOK /\ Loaded /\ OnRoute /\ LostElsewhere
  BY <1>1 DEF AtMenu, Exploring, Saving, FileOK, Loaded, OnRoute, LostElsewhere
<1> QED BY <1>2, <1>3 DEF Inv

(* A left-hand run starts on a path of one point. *)
LEMMA PressLeftHandInv == Inv /\ PressLeftHand => Inv'
<1> SUFFICES ASSUME Inv, PressLeftHand PROVE Inv'
  OBVIOUS
<1>1. /\ mode = "menu" /\ mode' = "lefthand" /\ maze' \in {maze} \cup Others
      /\ pos' = maze'.start /\ heading' = maze'.facing
      /\ path' = path /\ input' = input /\ file' = file /\ savedFor' = savedFor /\ whole' = whole
  BY DEF PressLeftHand, PutDown, saved
<1>2. TypeOK /\ AtMenu /\ FileOK
  BY DEF Inv
<1>3. maze' \in Mazes
  BY <1>1, <1>2, OthersAssumption DEF TypeOK
<1>4. TypeOK'
  <2>1. pos' \in Points(maze') /\ heading' \in Headings
    BY <1>1, <1>3, StartFacts
  <2>2. mode' \in Modes
    BY <1>1 DEF Modes
  <2> QED BY <1>1, <1>2, <1>3, <2>1, <2>2 DEF TypeOK
<1>5. Exploring'
  <2> DEFINE pts == [i \in 1..1 |-> maze'.start]
             hd == [i \in 1..1 |-> maze'.facing]
             T == [i \in 0..0 |-> <<>>]
  <2>1. MazeOK(maze')
    BY <1>3, MazeFacts
  <2>2. pts[1] = maze'.start /\ hd[1] = maze'.facing /\ T[0] = <<>>
    OBVIOUS
  <2> HIDE DEF pts, hd, T
  <2>3. Path(maze', pts, hd, T, 1)
    <3>1. \A i \in 1..1 : i = 1
      OBVIOUS
    <3>2. 1 - 1 = 0 /\ (\A i \in 0..0 : i = 0) /\ \A i \in 1..0 : FALSE
      OBVIOUS
    <3>3. <<>> \in Seq(Ways)
      OBVIOUS
    <3>4. pts[1] \in Grid /\ hd[1] \in Headings
      BY <2>1, <2>2 DEF MazeOK
    <3>5. \A i \in 1..1 : pts[i] \in Grid /\ hd[i] \in Headings
      BY <3>1, <3>4
    <3>6. \A i \in 0..(1 - 1) : T[i] \in Seq(Ways) /\ T[i] = NextTurns(T, maze', pts, hd, i)
      BY <2>2, <3>2, <3>3 DEF NextTurns
    <3>7. 1 \in Nat \ {0} /\ \A i \in 1..(1 - 1) : FALSE
      OBVIOUS
    <3> QED BY <2>2, <3>5, <3>6, <3>7 DEF Path
  <2>4. At(maze', pts, hd, T, 1, pos', heading', <<>>)
    BY <1>1, <2>2, <2>3 DEF At
  <2>5. Recorded(path, input, <<>>)
    <3>1. input = 0 \/ ~(input < PathSize - 1)
      BY <1>1, <1>2, ZeroedFacts DEF AtMenu
    <3> QED BY <3>1, NothingRecorded DEF Recorded
  <2>6. Placed(maze', pos', heading', <<>>)
    BY <2>4 DEF Placed
  <2>7. Placed(maze', pos', heading', <<>>) /\ Recorded(path', input', <<>>)
    BY <2>5, <2>6, <1>1
  <2> QED BY <2>7 DEF Exploring
<1>6. AtMenu' /\ Saving' /\ FileOK' /\ Loaded' /\ OnRoute' /\ LostElsewhere'
  BY <1>1, <1>2 DEF AtMenu, Saving, FileOK, Loaded, OnRoute, LostElsewhere
<1> QED BY <1>4, <1>5, <1>6 DEF Inv

(* readPath copies the file to the start of the array. *)
LEMMA PressShortInv == Inv /\ PressShort => Inv'
<1> SUFFICES ASSUME Inv, PressShort PROVE Inv'
  OBVIOUS
<1>1. /\ mode = "menu" /\ mode' = "short" /\ maze' \in {maze} \cup Others /\ file # NoFile
      /\ pos' = maze'.start /\ heading' = maze'.facing
      /\ path' = IF file = <<>> THEN path
                 ELSE file \o <<NUL>> \o SubSeq(path, Len(file) + 2, PathSize)
      /\ input' = 0 /\ file' = file /\ savedFor' = savedFor /\ whole' = whole
  BY DEF PressShort, PutDown, saved
<1>2. TypeOK /\ path \in Paths
  BY DEF Inv, TypeOK
<1>10. PICK s : Saved(s, savedFor) /\ Part(file, s) /\ (whole => file = s)
  BY <1>1 DEF Inv, FileOK
<1>3. maze' \in Mazes
  BY <1>1, <1>2, OthersAssumption DEF TypeOK
<1>4. /\ file \in Seq(Chars \ {NUL}) /\ Len(file) \in Nat /\ Len(file) + 1 <= PathSize
      /\ PathSize \in Nat /\ Len(s) \in Nat \ {0}
  BY <1>10, PartFacts, SavedFacts, ZeroedFacts DEF Part
<1> DEFINE l == Len(file)
           a == file \o <<NUL>>
           b == SubSeq(path, l + 2, PathSize)
           Copied == path' \in Paths /\ \A j \in 1..l : path'[j] = file[j]
<1>11. ASSUME file = <<>> PROVE Copied
  <2>1. l = 0 /\ 1..0 = {}
    BY <1>11
  <2> HIDE DEF l
  <2> QED BY <2>1, <1>1, <1>2, <1>11
<1>12. ASSUME file # <<>> PROVE Copied
  <2>1. file \in Seq(Chars) /\ <<NUL>> \in Seq(Chars) /\ Len(<<NUL>>) = 1
    <3>1. NUL \in Chars
      BY DEF Chars
    <3> QED BY <3>1, <1>4
  <2>2. a \in Seq(Chars) /\ Len(a) = l + 1 /\ \A j \in 1..l : a[j] = file[j]
    <3> DEFINE n == <<NUL>>
    <3>1. n \in Seq(Chars) /\ Len(n) = 1
      BY <2>1
    <3> HIDE DEF n
    <3>2. Joins(file \o n, file, n, Chars)
      BY <3>1, <2>1, Concat
    <3>3. file \o n \in Seq(Chars) /\ Len(file \o n) = l + 1 /\ \A j \in 1..l : (file \o n)[j] = file[j]
      BY <3>1, <3>2 DEF Joins
    <3> QED BY <3>3 DEF n
  <2>3. b \in Seq(Chars) /\ Len(b) = PathSize - l - 1
    <3>1. \A i \in (l + 2)..PathSize : path[i] \in Chars
      <4>1. \A i \in (l + 2)..PathSize : i \in 1..PathSize
        BY <1>4
      <4> QED BY <4>1, <1>2, PathTypes
    <3>2. l + 2 \in Int /\ PathSize \in Int
      BY <1>4
    <3> HIDE DEF l
    <3>3. b \in Seq(Chars) /\ Len(b) = IF l + 2 <= PathSize THEN PathSize - (l + 2) + 1 ELSE 0
      BY <3>1, <3>2, SubSeqProperties
    <3>4. l \in Nat /\ l + 1 <= PathSize
      BY <1>4 DEF l
    <3> HIDE DEF b
    <3> QED BY <3>3, <3>4, <1>4
  <2> HIDE DEF a, b
  <2>4. path' = a \o b
    BY <1>1, <1>12 DEF a, b
  <2>5. a \o b \in Seq(Chars) /\ Len(a \o b) = PathSize /\ \A j \in 1..(l + 1) : (a \o b)[j] = a[j]
    <3>1. a \o b \in Seq(Chars) /\ Len(a \o b) = Len(a) + Len(b) /\ \A j \in 1..Len(a) : (a \o b)[j] = a[j]
      <4>1. Joins(a \o b, a, b, Chars)
        BY <2>2, <2>3, Concat
      <4> QED BY <4>1 DEF Joins
    <3>2. Len(a) = l + 1 /\ Len(b) = PathSize - l - 1 /\ l \in Nat
      BY <2>2, <2>3, <1>4
    <3>3. Len(a) + Len(b) = PathSize
      BY <3>2, <1>4
    <3> QED BY <3>1, <3>2, <3>3
  <2>6. a \o b \in Paths
    <3>1. a \o b \in [1..Len(a \o b) -> Chars]
      BY <2>5, LenProperties
    <3> QED BY <3>1, <2>5 DEF Paths
  <2>7. \A j \in 1..l : j \in 1..(l + 1)
    BY <1>4
  <2> QED BY <2>2, <2>4, <2>5, <2>6, <2>7
<1>5. path' \in Paths /\ \A j \in 1..l : path'[j] = file[j]
  BY <1>11, <1>12
<1>6. TypeOK'
  <2>1. pos' \in Points(maze') /\ heading' \in Headings
    BY <1>1, <1>3, StartFacts
  <2>2. mode' \in Modes /\ input' \in 0..PathSize
    BY <1>1, <1>4 DEF Modes
  <2> QED BY <1>1, <1>2, <1>3, <1>5, <2>1, <2>2 DEF TypeOK
<1>7. Loaded'
  <2>1. file' # NoFile /\ Len(file') = l
    BY <1>1
  <2>2. whole' => input' < Len(file')
    BY <2>1, <1>1, <1>4, <1>10
  <2>3. \A j \in 1..Len(file') : path'[j] = file'[j]
    BY <1>1, <1>5, <2>1
  <2> QED BY <2>1, <2>2, <2>3 DEF Loaded
<1>8. OnRoute'
  <2> SUFFICES ASSUME savedFor = maze' PROVE Playing(maze', pos', heading', input', s)
    BY <1>1, <1>10 DEF OnRoute, Following
  <2>1. PICK pts, hd, T, k : /\ Path(savedFor, pts, hd, T, k) /\ pts[k] = savedFor.finish
                             /\ s = Append(T[k - 1], "F")
    BY <1>10 DEF Saved
  <2>2. 1 \in 1..k /\ 1 - 1 = 0 /\ 0 \in 0..(k - 1)
    BY <2>1 DEF Path
  <2>3. pts[1] = savedFor.start /\ hd[1] = savedFor.facing /\ T[0] = <<>>
    BY <2>1, <2>2 DEF Path, NextTurns
  <2>4. pos' = pts[1] /\ heading' = hd[1] /\ input' = Len(T[1 - 1])
    BY <1>1, <2>2, <2>3
  <2>5. Path(maze', pts, hd, T, k) /\ pts[k] = maze'.finish
    BY <1>1, <2>1
  <2>6. \E i \in 1..k : pos' = pts[i] /\ heading' = hd[i] /\ input' = Len(T[i - 1])
    BY <2>2, <2>4
  <2> QED BY <2>1, <2>5, <2>6 DEF Playing
<1>9. AtMenu' /\ Exploring' /\ Saving' /\ FileOK' /\ LostElsewhere'
  BY <1>1, <1>10 DEF AtMenu, Exploring, Saving, FileOK, LostElsewhere
<1> QED BY <1>6, <1>7, <1>8, <1>9 DEF Inv

(* The file outlives the power, or what was stored of it does. *)
LEMMA PowerCycleInv == Inv /\ PowerCycle => Inv'
<1> SUFFICES ASSUME Inv, PowerCycle PROVE Inv'
  OBVIOUS
<1>1. /\ mode' = "menu" /\ path' = Zeroed /\ input' = 0
      /\ maze' = maze /\ pos' = pos /\ heading' = heading
      /\ savedFor' = savedFor /\ whole' = whole
  BY DEF PowerCycle
<1>2. (file' = NoFile \/ file' \in Seq(Chars \ {NUL})) /\ FileOK'
  <2>1. CASE mode # "saving"
    <3>1. file' = file
      BY <2>1 DEF PowerCycle
    <3> QED BY <3>1, <1>1 DEF Inv, TypeOK, FileOK
  <2>2. CASE mode = "saving"
    <3> DEFINE s == CString(path)
    <3>1. Saved(s, savedFor) /\ ~whole
      BY <2>2 DEF Inv, Saving
    <3>2. PICK n \in 0..Len(s) : file' = SubSeq(s, 1, n)
      BY <2>2 DEF PowerCycle
    <3> HIDE DEF s
    <3>3. Part(file', s)
      BY <3>1, <3>2, PartFacts
    <3> QED BY <3>1, <3>3, <1>1 DEF Part, FileOK
  <2> QED BY <2>1, <2>2
<1>3. TypeOK'
  <2>1. input' \in 0..PathSize /\ path' \in Paths /\ mode' \in Modes
    BY <1>1, ZeroedFacts DEF Modes
  <2> QED BY <1>1, <1>2, <2>1 DEF Inv, TypeOK
<1>4. AtMenu' /\ Exploring' /\ Saving' /\ Loaded' /\ OnRoute' /\ LostElsewhere'
  BY <1>1 DEF AtMenu, Exploring, Saving, Loaded, OnRoute, LostElsewhere
<1> QED BY <1>2, <1>3, <1>4 DEF Inv

(* Closed, the file is the record. *)
LEMMA WritePathInv == Inv /\ writePath => Inv'
<1> SUFFICES ASSUME Inv, writePath PROVE Inv'
  OBVIOUS
<1> DEFINE s == CString(path)
<1>1. /\ mode = "saving" /\ mode' = "menu" /\ path' = path /\ input' = 0
      /\ maze' = maze /\ pos' = pos /\ heading' = heading
      /\ savedFor' = savedFor /\ whole' = TRUE /\ file' = s
  BY DEF writePath
<1>2. Saved(s, savedFor)
  BY <1>1 DEF Inv, Saving
<1> HIDE DEF s
<1>3. s \in Seq(Chars \ {NUL}) /\ Part(s, s)
  BY <1>2, SavedFacts, PartFacts
<1>4. TypeOK'
  <2>1. input' \in 0..PathSize /\ mode' \in Modes /\ whole' \in BOOLEAN
    BY <1>1, ZeroedFacts DEF Modes
  <2> QED BY <1>1, <1>3, <2>1 DEF Inv, TypeOK
<1>5. FileOK'
  BY <1>1, <1>2, <1>3 DEF FileOK
<1>6. AtMenu' /\ Exploring' /\ Saving' /\ Loaded' /\ OnRoute' /\ LostElsewhere'
  BY <1>1 DEF AtMenu, Exploring, Saving, Loaded, OnRoute, LostElsewhere
<1> QED BY <1>4, <1>5, <1>6 DEF Inv

(* Creeping forward tells the finish from a crossing. *)
LEMMA BeyondFacts ==
  ASSUME NEW m, NEW p, NEW h
  PROVE  /\ p = m.finish => ErrorAt(m, p, h) = Bar /\ ErrorBeyond(m, p, h) = Bar
         /\ p # m.finish => /\ ErrorBeyond(m, p, h) # Bar
                            /\ ErrorBeyond(m, p, h) = NoLine <=> ~Open(m, p, h)
<1>1. Bar = -30 /\ Centred = 0 /\ NoLine = 8
  BY DEF Bar, Centred, NoLine
<1> QED BY <1>1 DEF ErrorAt, ErrorBeyond

(* The codes differ. *)
LEMMA CodeFacts == /\ Bar # LeftBar /\ Bar # RightBar /\ Bar # Centred /\ Bar # NoLine
                   /\ LeftBar # RightBar /\ LeftBar # Centred /\ LeftBar # NoLine
                   /\ RightBar # Centred /\ RightBar # NoLine /\ Centred # NoLine
  BY DEF Bar, LeftBar, RightBar, Centred, NoLine

(* The robot drives on along d, with or without a turn for its record. *)
LEMMA DriveInv ==
  ASSUME Inv, mode = "lefthand", mode' = "lefthand", maze' = maze,
         NEW d \in Headings, heading' = d, pos' = Ahead(pos, d), Open(maze, pos, d),
         file' = file, savedFor' = savedFor, whole' = whole, path' \in Paths, input' \in 0..PathSize,
         \E c : Placed(maze, pos', heading', c) /\ Recorded(path', input', c)
  PROVE  Inv'
<1>1. TypeOK /\ MazeOK(maze)
  BY MazeFacts DEF Inv, TypeOK
<1>2. pos' \in Points(maze')
  BY <1>1, OpenFacts DEF TypeOK, MazeOK
<1>3. TypeOK'
  BY <1>1, <1>2 DEF TypeOK
<1>4. Exploring'
  BY DEF Exploring
<1>5. AtMenu' /\ Saving' /\ FileOK' /\ Loaded' /\ OnRoute' /\ LostElsewhere'
  BY DEF Inv, AtMenu, Saving, FileOK, Loaded, OnRoute, LostElsewhere
<1> QED BY <1>3, <1>4, <1>5 DEF Inv

(* inputTurn keeps the record, or has no room for it. *)
LEMMA InputTurn ==
  ASSUME TypeOK, NEW y \in Turns, inputTurn(y), NEW c, Recorded(path, input, c), Settled(Push(c, y))
  PROVE  /\ path' \in Paths /\ input' \in 0..PathSize /\ file' = file /\ savedFor' = savedFor /\ whole' = whole
         /\ Recorded(path', input', Push(c, y))
<1>1. path \in Paths /\ input \in 0..PathSize /\ PathSize \in Nat
  BY ZeroedFacts DEF TypeOK
<1>2. CASE input < PathSize - 1
  <2>1. path' = [path EXCEPT ![input + 1] = y] /\ input' = input + 1 /\ file' = file /\ savedFor' = savedFor /\ whole' = whole
    BY <1>2 DEF inputTurn, saved
  <2>2. /\ [path EXCEPT ![input + 1] = y] \in Paths
        /\ Recorded([path EXCEPT ![input + 1] = y], input + 1, Push(c, y))
    BY <1>1, <1>2, RecordGrows
  <2>3. input' \in 0..PathSize
    BY <1>1, <1>2, <2>1
  <2> QED BY <2>1, <2>2, <2>3
<1>3. CASE ~(input < PathSize - 1)
  <2>1. path' = path /\ input' = input /\ file' = file /\ savedFor' = savedFor /\ whole' = whole
    BY <1>3 DEF inputTurn, saved
  <2> QED BY <1>1, <1>3, <2>1 DEF Recorded
<1> QED BY <1>2, <1>3

(* The robot takes the first way that the left-hand rule finds. *)
LEMMA WayInv ==
  ASSUME Inv, mode = "lefthand", mode' = mode, maze' = maze, pos # maze.finish,
         NEW d, d \in {LeftOf(heading), heading, RightOf(heading)}, Open(maze, pos, d),
         \A e \in Earlier(heading, d) : ~Open(maze, pos, e),
         heading' = d, pos' = Ahead(pos, d),
         IF Crossing(maze, pos, heading) THEN inputTurn(Turned(heading, d))
         ELSE UNCHANGED <<path, input, saved>>
  PROVE  Inv'
<1>1. TypeOK /\ MazeOK(maze) /\ heading \in Headings
  BY MazeFacts DEF Inv, TypeOK
<1>2. PICK c : Placed(maze, pos, heading, c) /\ Recorded(path, input, c)
  BY DEF Inv, Exploring
<1>3. d \in Headings /\ Turned(heading, d) \in Turns
  BY <1>1, HeadingFacts, TurnedFacts DEF Turns
<1>4. Placed(maze, pos', heading', IF Crossing(maze, pos, heading) THEN Push(c, Turned(heading, d)) ELSE c)
  BY <1>1, <1>2, Onward
<1>5. CASE Crossing(maze, pos, heading)
  <2> DEFINE c2 == Push(c, Turned(heading, d))
  <2>1. Placed(maze, pos', heading', c2)
    BY <1>4, <1>5
  <2>2. Settled(c2)
    BY <1>1, <2>1, PlacedFacts
  <2>3. inputTurn(Turned(heading, d))
    BY <1>5
  <2>4. /\ path' \in Paths /\ input' \in 0..PathSize /\ file' = file /\ savedFor' = savedFor /\ whole' = whole
        /\ Recorded(path', input', c2)
    BY <1>1, <1>2, <1>3, <2>2, <2>3, InputTurn
  <2>5. \E x : Placed(maze, pos', heading', x) /\ Recorded(path', input', x)
    BY <2>1, <2>4
  <2> QED BY <2>4, <2>5, <1>3, DriveInv
<1>6. CASE ~Crossing(maze, pos, heading)
  <2>1. path' = path /\ input' = input /\ file' = file /\ savedFor' = savedFor /\ whole' = whole
    BY <1>6 DEF saved
  <2>2. path' \in Paths /\ input' \in 0..PathSize
    BY <2>1, <1>1 DEF TypeOK
  <2>3. Placed(maze, pos', heading', c) /\ Recorded(path', input', c)
    BY <1>2, <1>4, <1>6, <2>1
  <2>4. \E x : Placed(maze, pos', heading', x) /\ Recorded(path', input', x)
    BY <2>3
  <2> QED BY <2>1, <2>2, <2>4, <1>3, DriveInv
<1> QED BY <1>5, <1>6

(* At the finish, the record of the path is saved. *)
LEMMA FinishInv ==
  ASSUME Inv, mode = "lefthand", maze' = maze, pos = maze.finish,
         inputFinish, pos' = pos, heading' = heading
  PROVE  Inv'
<1>1. TypeOK /\ MazeOK(maze) /\ path \in Paths /\ input \in 0..PathSize /\ PathSize \in Nat /\ PathSize >= 3
  BY MazeFacts, ZeroedFacts DEF Inv, TypeOK
<1>2. PICK c : Placed(maze, pos, heading, c) /\ Recorded(path, input, c)
  BY DEF Inv, Exploring
<1>3. PICK pts, hd, T, k : At(maze, pts, hd, T, k, pos, heading, c)
  BY <1>2 DEF Placed
<1>4. Path(maze, pts, hd, T, k) /\ pts[k] = maze.finish /\ c = T[k - 1]
  <2>1. Path(maze, pts, hd, T, k) /\ k \in Nat \ {0}
    BY <1>3 DEF At, Path
  <2>2. k # 1 => pts[k - 1] # maze.finish
    <3>1. k # 1 => k - 1 \in 1..(k - 1)
      BY <2>1
    <3> QED BY <3>1, <2>1 DEF Path
  <2> QED BY <2>1, <2>2, <1>3 DEF At
<1>5. ~EndsU(c) /\ c \in Seq(Ways)
  <2>1. k - 1 \in 0..(k - 1)
    BY <1>4 DEF Path
  <2>2. T[k - 1] \in Seq(Ways)
    BY <1>4, <2>1 DEF Path
  <2> QED BY <2>2, <1>4, WaysFacts
<1>6. CASE input < PathSize - 1
  <2> DEFINE q == shortestPath([path EXCEPT ![input + 1] = "F", ![input + 2] = NUL])
  <2>1. /\ mode' = "saving" /\ path' = q /\ input' = input + 1 /\ file' = <<>>
        /\ savedFor' = maze /\ whole' = FALSE
    BY <1>6 DEF inputFinish
  <2>2. q \in Paths /\ CString(q) = Append(c, "F") /\ Len(c) + 2 <= PathSize
    BY <1>1, <1>2, <1>5, <1>6, RecordSaved
  <2> HIDE DEF q
  <2> DEFINE s == CString(q)
  <2>3. Len(s) + 1 <= PathSize
    <3>1. Len(Append(c, "F")) = Len(c) + 1 /\ Len(c) \in Nat
      BY <1>5
    <3> QED BY <3>1, <2>2
  <2>4. Saved(s, maze)
    BY <2>2, <2>3, <1>4 DEF Saved
  <2>8. Saving'
    BY <2>1, <2>4 DEF Saving
  <2> HIDE DEF s
  <2>5. Part(<<>>, s)
    BY <2>4, PartFacts
  <2>6. TypeOK'
    <3>1. mode' \in Modes /\ input' \in 0..PathSize
      BY <2>1, <1>1, <1>6 DEF Modes
    <3>3. whole' \in BOOLEAN
      BY <2>1, Zenon
    <3>2. file' \in Seq(Chars \ {NUL})
      BY <2>1
    <3> QED BY <3>1, <3>2, <3>3, <2>1, <2>2, <1>1 DEF TypeOK
  <2>7. FileOK'
    BY <2>1, <2>4, <2>5 DEF FileOK
  <2>9. AtMenu' /\ Exploring' /\ Loaded' /\ OnRoute' /\ LostElsewhere'
    BY <2>1 DEF AtMenu, Exploring, Loaded, OnRoute, LostElsewhere
  <2> QED BY <2>6, <2>7, <2>8, <2>9 DEF Inv
<1>7. CASE ~(input < PathSize - 1)
  <2>1. /\ mode' = "menu" /\ path' = path /\ input' = input
        /\ file' = file /\ savedFor' = savedFor /\ whole' = whole
    BY <1>7 DEF inputFinish, saved
  <2>2. TypeOK'
    BY <1>1, <2>1 DEF TypeOK, Modes
  <2>3. AtMenu'
    BY <1>1, <1>7, <2>1 DEF AtMenu
  <2>4. Exploring' /\ Saving' /\ FileOK' /\ Loaded' /\ OnRoute' /\ LostElsewhere'
    BY <2>1 DEF Inv, Exploring, Saving, FileOK, Loaded, OnRoute, LostElsewhere
  <2> QED BY <2>2, <2>3, <2>4 DEF Inv
<1> QED BY <1>6, <1>7

(* GoLeftHand, branch by branch. *)
LEMMA GoLeftHandInv == Inv /\ GoLeftHand => Inv'
<1> SUFFICES ASSUME Inv, GoLeftHand PROVE Inv'
  OBVIOUS
<1> DEFINE error == ErrorAt(maze, pos, heading)
           beyond == ErrorBeyond(maze, pos, heading)
           L == LeftOf(heading)
           R == RightOf(heading)
<1>1. /\ mode = "lefthand" /\ maze' = maze
      /\ \/ /\ error = Bar /\ beyond = Bar
            /\ inputFinish
            /\ UNCHANGED <<pos, heading>>
         \/ /\ error = LeftBar \/ (error = Bar /\ beyond # Bar)
            /\ inputTurn("L")
            /\ Drive(TurnLeft(maze, pos, heading))
            /\ UNCHANGED mode
         \/ /\ error = RightBar
            /\ IF beyond = NoLine
               THEN inputTurn("R") /\ Drive(TurnRight(maze, pos, heading))
               ELSE inputTurn("S") /\ Drive(heading)
            /\ UNCHANGED mode
         \/ /\ error = NoLine
            /\ inputTurn("U")
            /\ Drive(UTurn(maze, pos, heading))
            /\ UNCHANGED mode
         \/ /\ error = Centred
            /\ Drive(heading)
            /\ UNCHANGED <<mode, path, input, saved>>
  BY DEF GoLeftHand
<1>2. TypeOK /\ MazeOK(maze) /\ heading \in Headings /\ pos \in Grid
  BY MazeFacts DEF Inv, TypeOK, MazeOK
<1>3. /\ pos = maze.finish => error = Bar /\ beyond = Bar
      /\ pos # maze.finish => beyond # Bar /\ (beyond = NoLine <=> ~Open(maze, pos, heading))
  BY BeyondFacts
<1>4. ASSUME pos # maze.finish
      PROVE  /\ Crossing(maze, pos, heading) <=> Open(maze, pos, L) \/ Open(maze, pos, R)
             /\ error = Bar <=> Open(maze, pos, L) /\ Open(maze, pos, R)
             /\ error = LeftBar <=> Open(maze, pos, L) /\ ~Open(maze, pos, R)
             /\ error = RightBar <=> ~Open(maze, pos, L) /\ Open(maze, pos, R)
             /\ error = Centred <=>
                  ~Open(maze, pos, L) /\ ~Open(maze, pos, R) /\ Open(maze, pos, heading)
             /\ error = NoLine <=>
                  ~Open(maze, pos, L) /\ ~Open(maze, pos, R) /\ ~Open(maze, pos, heading)
  BY <1>2, <1>4, CrossingFacts
<1>5. /\ Open(maze, pos, L) => TurnLeft(maze, pos, heading) = L
      /\ Open(maze, pos, R) => TurnRight(maze, pos, heading) = R
      /\ Open(maze, pos, BackOf(heading)) => UTurn(maze, pos, heading) = BackOf(heading)
  BY <1>2, TurnFacts
<1>6. /\ Turned(heading, L) = "L" /\ Turned(heading, heading) = "S" /\ Turned(heading, R) = "R"
      /\ L # heading /\ R # heading /\ L # R
  BY <1>2, TurnedFacts, HeadingFacts
<1>7. Earlier(heading, L) = {} /\ Earlier(heading, heading) = {L} /\ Earlier(heading, R) = {L, heading}
  BY <1>6 DEF Earlier
<1> HIDE DEF error, beyond, L, R
<1>8. CASE error = Bar /\ beyond = Bar /\ inputFinish /\ UNCHANGED <<pos, heading>>
  <2>1. pos = maze.finish
    BY <1>3, <1>8
  <2> QED BY <1>1, <1>8, <2>1, FinishInv
<1>9. CASE /\ error = LeftBar \/ (error = Bar /\ beyond # Bar)
           /\ inputTurn("L") /\ Drive(TurnLeft(maze, pos, heading)) /\ UNCHANGED mode
  <2>1. pos # maze.finish
    BY <1>3, <1>9, CodeFacts
  <2>2. Open(maze, pos, L) /\ Crossing(maze, pos, heading)
    BY <1>4, <1>9, <2>1
  <2>3. heading' = L /\ pos' = Ahead(pos, L)
    BY <1>5, <1>9, <2>2 DEF Drive
  <2>4. inputTurn(Turned(heading, L)) /\ \A e \in Earlier(heading, L) : ~Open(maze, pos, e)
    BY <1>6, <1>7, <1>9
  <2>5. L \in {LeftOf(heading), heading, RightOf(heading)} /\ mode' = mode
    BY <1>9 DEF L
  <2> QED BY <1>1, <2>1, <2>2, <2>3, <2>4, <2>5, WayInv
<1>10. CASE /\ error = RightBar
            /\ IF beyond = NoLine
               THEN inputTurn("R") /\ Drive(TurnRight(maze, pos, heading))
               ELSE inputTurn("S") /\ Drive(heading)
            /\ UNCHANGED mode
  <2>1. pos # maze.finish
    BY <1>3, <1>10, CodeFacts
  <2>2. ~Open(maze, pos, L) /\ Open(maze, pos, R) /\ Crossing(maze, pos, heading)
    BY <1>4, <1>10, <2>1
  <2>3. CASE Open(maze, pos, heading)
    <3>1. inputTurn(Turned(heading, heading)) /\ heading' = heading /\ pos' = Ahead(pos, heading)
      BY <1>3, <1>6, <1>10, <2>1, <2>3 DEF Drive
    <3>2. \A e \in Earlier(heading, heading) : ~Open(maze, pos, e)
      BY <1>7, <2>2
    <3>3. heading \in {LeftOf(heading), heading, RightOf(heading)} /\ mode' = mode
      BY <1>10
    <3> QED BY <1>1, <2>1, <2>2, <2>3, <3>1, <3>2, <3>3, WayInv
  <2>4. CASE ~Open(maze, pos, heading)
    <3>1. inputTurn(Turned(heading, R)) /\ heading' = R /\ pos' = Ahead(pos, R)
      BY <1>3, <1>5, <1>6, <1>10, <2>1, <2>2, <2>4 DEF Drive
    <3>2. \A e \in Earlier(heading, R) : ~Open(maze, pos, e)
      BY <1>7, <2>2, <2>4
    <3>3. R \in {LeftOf(heading), heading, RightOf(heading)} /\ mode' = mode
      BY <1>10 DEF R
    <3> QED BY <1>1, <2>1, <2>2, <2>4, <3>1, <3>2, <3>3, WayInv
  <2> QED BY <2>3, <2>4
<1>11. CASE error = NoLine /\ inputTurn("U") /\ Drive(UTurn(maze, pos, heading)) /\ UNCHANGED mode
  <2>1. pos # maze.finish
    BY <1>3, <1>11, CodeFacts
  <2>2. ~Open(maze, pos, L) /\ ~Open(maze, pos, R) /\ ~Open(maze, pos, heading)
    BY <1>4, <1>11, <2>1
  <2>3. PICK c : Placed(maze, pos, heading, c) /\ Recorded(path, input, c)
    BY <1>1 DEF Inv, Exploring
  <2>4. /\ Open(maze, pos, BackOf(heading))
        /\ Placed(maze, Ahead(pos, BackOf(heading)), BackOf(heading), Push(c, "U"))
    BY <1>2, <2>1, <2>2, <2>3, Return DEF L, R
  <2>5. heading' = BackOf(heading) /\ pos' = Ahead(pos, BackOf(heading))
    BY <1>5, <1>11, <2>4 DEF Drive
  <2>6. Settled(Push(c, "U")) /\ "U" \in Turns /\ BackOf(heading) \in Headings
    BY <1>2, <2>4, PlacedFacts, HeadingFacts DEF Turns
  <2>7. /\ path' \in Paths /\ input' \in 0..PathSize /\ file' = file /\ savedFor' = savedFor /\ whole' = whole
        /\ Recorded(path', input', Push(c, "U"))
    BY <1>2, <1>11, <2>3, <2>6, InputTurn
  <2>8. \E x : Placed(maze, pos', heading', x) /\ Recorded(path', input', x)
    BY <2>4, <2>5, <2>7
  <2>9. mode' = "lefthand"
    BY <1>1, <1>11
  <2> QED BY <1>1, <2>4, <2>5, <2>6, <2>7, <2>8, <2>9, DriveInv
<1>12. CASE error = Centred /\ Drive(heading) /\ UNCHANGED <<mode, path, input, saved>>
  <2>1. pos # maze.finish
    BY <1>3, <1>12, CodeFacts
  <2>2. ~Open(maze, pos, L) /\ Open(maze, pos, heading) /\ ~Crossing(maze, pos, heading)
    BY <1>4, <1>12, <2>1
  <2>3. heading' = heading /\ pos' = Ahead(pos, heading) /\ mode' = mode
    BY <1>12 DEF Drive
  <2>4. \A e \in Earlier(heading, heading) : ~Open(maze, pos, e)
    BY <1>7, <2>2
  <2>5. heading \in {LeftOf(heading), heading, RightOf(heading)}
    OBVIOUS
  <2> QED BY <1>1, <1>12, <2>1, <2>2, <2>3, <2>4, <2>5, WayInv
<1> QED BY <1>1, <1>8, <1>9, <1>10, <1>11, <1>12

(* GoShort: the end of the string, a crossing, or a line to follow. *)
LEMMA GoShortInv == Inv /\ GoShort => Inv'
<1> SUFFICES ASSUME Inv, GoShort PROVE Inv'
  OBVIOUS
<1> DEFINE error == ErrorAt(maze, pos, heading)
           next == IF input < PathSize THEN input + 1 ELSE input
<1>1. /\ mode = "short" /\ maze' = maze /\ file' = file /\ savedFor' = savedFor /\ whole' = whole
      /\ \/ /\ error \in {Bar, RightBar, LeftBar}
            /\ mode' = "menu"
            /\ path' = Zeroed
            /\ input' = PathSize
            /\ UNCHANGED <<pos, heading>>
         \/ /\ error \in {Bar, RightBar, LeftBar}
            /\ \E turn \in NextChar \ {"F"} : DriveOrLeave(ReplayHeading(turn))
            /\ input' = next
            /\ UNCHANGED path
         \/ /\ error \in {Centred, NoLine}
            /\ DriveOrLeave(heading)
            /\ UNCHANGED <<path, input>>
  BY DEF GoShort, saved
<1>2. /\ TypeOK /\ MazeOK(maze) /\ heading \in Headings /\ pos \in Grid
      /\ path \in Paths /\ input \in 0..PathSize /\ PathSize \in Nat /\ PathSize >= 3
  BY MazeFacts, ZeroedFacts DEF Inv, TypeOK, MazeOK
<1>3. /\ file # NoFile /\ \A j \in 1..Len(file) : path[j] = file[j]
      /\ whole => input < Len(file)
      /\ FileOK
  BY <1>1 DEF Inv, Loaded
<1>4. Len(file) \in Nat /\ Len(file) + 1 <= PathSize
  <2>1. PICK s : Saved(s, savedFor) /\ Part(file, s)
    BY <1>3 DEF FileOK
  <2> QED BY <2>1, PartFacts
<1>5. savedFor = maze /\ (whole \/ input <= Len(file)) => Following(maze, pos, heading, input, file, whole)
  BY <1>1 DEF Inv, OnRoute
<1>6. TurnLeft(maze, pos, heading) \in Headings /\ TurnRight(maze, pos, heading) \in Headings
      /\ UTurn(maze, pos, heading) \in Headings
  BY <1>2, TurnFacts
<1>7. \A turn : ReplayHeading(turn) \in Headings
  BY <1>2, <1>6 DEF ReplayHeading
<1>8. Crossing(maze, pos, heading) <=> error \in {Bar, RightBar, LeftBar}
  BY DEF Crossing
<1> HIDE DEF error
(* What driving does to the invariant, whatever the turn. *)
<1>9. ASSUME NEW d \in Headings, DriveOrLeave(d), path' = path, input' \in 0..PathSize,
             whole => input' < Len(file),
             savedFor = maze /\ (whole \/ input' <= Len(file)) =>
               Open(maze, pos, d) /\ Following(maze, Ahead(pos, d), d, input', file, whole)
      PROVE  Inv'
  <2>1. CASE Open(maze, pos, d)
    <3>1. heading' = d /\ pos' = Ahead(pos, d) /\ mode' = mode
      BY <1>9, <2>1 DEF DriveOrLeave, Drive
    <3>2. pos' \in Points(maze')
      BY <1>1, <1>2, <2>1, <3>1, OpenFacts DEF MazeOK
    <3>3. TypeOK'
      BY <1>1, <1>2, <1>9, <3>1, <3>2 DEF TypeOK
    <3>4. Loaded'
      BY <1>1, <1>3, <1>9 DEF Loaded
    <3>5. OnRoute'
      BY <1>1, <1>9, <3>1 DEF OnRoute
    <3>6. AtMenu' /\ Exploring' /\ Saving' /\ FileOK' /\ LostElsewhere'
      BY <1>1, <1>3, <3>1 DEF AtMenu, Exploring, Saving, FileOK, LostElsewhere
    <3> QED BY <3>3, <3>4, <3>5, <3>6 DEF Inv
  <2>2. CASE ~Open(maze, pos, d)
    <3>1. heading' = d /\ pos' = pos /\ mode' = "lost"
      BY <2>2, <1>9 DEF DriveOrLeave
    <3>2. TypeOK'
      BY <1>1, <1>2, <1>9, <3>1 DEF TypeOK, Modes
    <3>3. LostElsewhere'
      <4>1. savedFor = maze => ~whole /\ ~(input' <= Len(file))
        BY <1>9, <2>2
      <4> QED BY <4>1, <1>1, <1>3 DEF LostElsewhere
    <3>4. AtMenu' /\ Exploring' /\ Saving' /\ FileOK' /\ Loaded' /\ OnRoute'
      BY <1>1, <1>3, <3>1 DEF AtMenu, Exploring, Saving, FileOK, Loaded, OnRoute
    <3> QED BY <3>2, <3>3, <3>4 DEF Inv
  <2> QED BY <2>1, <2>2
<1>10. CASE mode' = "menu" /\ path' = Zeroed /\ input' = PathSize /\ UNCHANGED <<pos, heading>>
  <2>1. TypeOK'
    <3>1. mode' \in Modes /\ input' \in 0..PathSize /\ path' \in Paths
      BY <1>2, <1>10, ZeroedFacts DEF Modes
    <3> QED BY <1>1, <1>2, <1>10, <3>1 DEF TypeOK
  <2>2. AtMenu' /\ Exploring' /\ Saving' /\ FileOK' /\ Loaded' /\ OnRoute' /\ LostElsewhere'
    BY <1>1, <1>3, <1>10 DEF AtMenu, Exploring, Saving, FileOK, Loaded, OnRoute, LostElsewhere
  <2> QED BY <2>1, <2>2 DEF Inv
<1>11. ASSUME error \in {Bar, RightBar, LeftBar}, NEW turn \in NextChar \ {"F"}, input' = next,
              DriveOrLeave(ReplayHeading(turn)), path' = path
       PROVE  Inv'
  <2>1. input < Len(file) => /\ turn = file[input + 1] /\ input + 1 \in 1..Len(file)
                             /\ input' = input + 1
    <3> SUFFICES ASSUME input < Len(file)
                 PROVE  /\ turn = file[input + 1] /\ input + 1 \in 1..Len(file)
                        /\ input' = input + 1
      OBVIOUS
    <3>1. input + 1 \in 1..Len(file) /\ input < PathSize
      BY <1>2, <1>4
    <3>2. turn = path[input + 1]
      BY <3>1, <1>11 DEF NextChar
    <3> QED BY <3>1, <3>2, <1>3, <1>11
  <2>2. input' \in 0..PathSize /\ (input' <= Len(file) => input < Len(file))
    BY <1>2, <1>4, <1>11
  <2>3. whole => input' < Len(file)
    <3> SUFFICES ASSUME whole PROVE input' < Len(file)
      OBVIOUS
    <3>1. PICK s : Saved(s, savedFor) /\ file = s
      BY <1>3 DEF FileOK
    <3>2. file[Len(file)] = "F"
      BY <3>1, SavedFacts
    <3>3. input < Len(file)
      BY <1>3
    <3>4. input + 1 # Len(file)
      BY <2>1, <3>2, <3>3, <1>11
    <3> QED BY <2>1, <3>3, <3>4, <1>2, <1>4
  <2>4. ASSUME savedFor = maze, whole \/ input' <= Len(file)
        PROVE  /\ Open(maze, pos, ReplayHeading(turn))
               /\ Following(maze, Ahead(pos, ReplayHeading(turn)), ReplayHeading(turn), input', file, whole)
    <3>a. input < Len(file)
      BY <2>2, <2>4, <1>3
    <3>b. input <= Len(file) /\ turn = file[input + 1] /\ input + 1 \in 1..Len(file) /\ input' = input + 1
      BY <2>1, <3>a, <1>2, <1>4
    <3>c. PICK s : Playing(maze, pos, heading, input, s) /\ Part(file, s) /\ (whole => file = s)
      BY <1>5, <2>4, <3>b DEF Following
    <3>0. PICK pts, hd, T, k :
            /\ Path(maze, pts, hd, T, k) /\ pts[k] = maze.finish
            /\ s = Append(T[k - 1], "F")
            /\ \E i \in 1..k : pos = pts[i] /\ heading = hd[i] /\ input = Len(T[i - 1])
      BY <3>c DEF Playing
    <3>1. PICK i \in 1..k :
            /\ Path(maze, pts, hd, T, k) /\ pts[k] = maze.finish
            /\ s = Append(T[k - 1], "F")
            /\ pos = pts[i] /\ heading = hd[i] /\ input = Len(T[i - 1])
      BY <3>0
    <3>2. PlayOK(maze, pts, hd, T, k, i)
      BY <1>2, <3>1, PlayFacts
    <3>3. T[k - 1] \in Seq(Ways) /\ Len(T[k - 1]) \in Nat
      <4>1. k \in Nat \ {0}
        BY <3>1 DEF Path
      <4>2. k - 1 \in 0..(k - 1)
        BY <4>1
      <4>3. T[k - 1] \in Seq(Ways)
        BY <3>1, <4>2 DEF Path
      <4> QED BY <4>3, LenProperties
    <3>4. /\ Len(s) = Len(T[k - 1]) + 1 /\ s[Len(s)] = "F"
          /\ \A j \in 1..Len(T[k - 1]) : s[j] = T[k - 1][j]
      BY <3>1, <3>3
    <3>d. turn = s[input + 1]
      BY <3>b, <3>c DEF Part, FrontOf
    <3>5. i # k
      <4> SUFFICES ASSUME i = k PROVE FALSE
        OBVIOUS
      <4>1. T[k - 1] = T[i - 1]
        OBVIOUS
      <4>2. input + 1 = Len(s)
        BY <4>1, <3>1, <3>4
      <4> QED BY <4>2, <3>4, <3>d, <1>11
    <3>6. Crossing(maze, pts[i], hd[i])
      BY <3>1, <1>8, <1>11
    <3> DEFINE x == T[k - 1][Len(T[i - 1]) + 1]
    <3>7. /\ i + 1 \in 1..k
          /\ Open(maze, pts[i], hd[i + 1]) /\ pts[i + 1] = Ahead(pts[i], hd[i + 1])
          /\ Len(T[i]) = Len(T[i - 1]) + 1 /\ Len(T[i]) <= Len(T[k - 1])
          /\ x \in Ways
          /\ x = "L" => hd[i + 1] = LeftOf(hd[i])
          /\ x = "R" => hd[i + 1] = RightOf(hd[i])
          /\ x = "S" => hd[i + 1] = hd[i]
      BY <3>2, <3>5, <3>6 DEF PlayOK
    <3>8. turn = x
      <4>1. input + 1 = Len(T[i - 1]) + 1 /\ input + 1 <= Len(T[k - 1])
        BY <3>1, <3>7
      <4>2. input + 1 \in 1..Len(T[k - 1])
        BY <4>1, <3>b, <3>3
      <4> QED BY <4>1, <4>2, <3>d, <3>4
    <3> HIDE DEF x
    <3>9. /\ Open(maze, pos, LeftOf(heading)) => TurnLeft(maze, pos, heading) = LeftOf(heading)
          /\ Open(maze, pos, RightOf(heading)) => TurnRight(maze, pos, heading) = RightOf(heading)
      BY <1>2, TurnFacts
    <3>10. ReplayHeading(turn) = hd[i + 1]
      <4>1. CASE turn = "L"
        <5>1. hd[i + 1] = LeftOf(heading)
          BY <3>1, <3>7, <3>8, <4>1
        <5> QED BY <5>1, <3>1, <3>7, <3>9, <4>1 DEF ReplayHeading
      <4>2. CASE turn = "R"
        <5>1. hd[i + 1] = RightOf(heading)
          BY <3>1, <3>7, <3>8, <4>2
        <5> QED BY <5>1, <3>1, <3>7, <3>9, <4>2 DEF ReplayHeading
      <4>3. CASE turn = "S"
        BY <3>1, <3>7, <3>8, <4>3 DEF ReplayHeading
      <4> QED BY <4>1, <4>2, <4>3, <3>7, <3>8 DEF Ways
    <3>11. (i + 1) - 1 = i
      OBVIOUS
    <3>12. \E j \in 1..k : Ahead(pos, hd[i + 1]) = pts[j] /\ hd[i + 1] = hd[j] /\ input' = Len(T[j - 1])
      BY <3>1, <3>7, <3>11, <3>b
    <3>13. Playing(maze, Ahead(pos, hd[i + 1]), hd[i + 1], input', s)
      BY <3>1, <3>12 DEF Playing
    <3> QED BY <3>1, <3>7, <3>10, <3>13, <3>c DEF Following
  <2> QED BY <1>7, <1>9, <1>11, <2>2, <2>3, <2>4
<1>12. CASE error \in {Centred, NoLine} /\ DriveOrLeave(heading) /\ UNCHANGED <<path, input>>
  <2>1. ~Crossing(maze, pos, heading)
    BY <1>8, <1>12, CodeFacts
  <2>2. ASSUME savedFor = maze, whole \/ input' <= Len(file)
        PROVE  /\ Open(maze, pos, heading)
               /\ Following(maze, Ahead(pos, heading), heading, input', file, whole)
    <3>c. PICK s : Playing(maze, pos, heading, input, s) /\ Part(file, s) /\ (whole => file = s)
      BY <1>5, <1>12, <2>2 DEF Following
    <3>0. PICK pts, hd, T, k :
            /\ Path(maze, pts, hd, T, k) /\ pts[k] = maze.finish
            /\ s = Append(T[k - 1], "F")
            /\ \E i \in 1..k : pos = pts[i] /\ heading = hd[i] /\ input = Len(T[i - 1])
      BY <3>c DEF Playing
    <3>1. PICK i \in 1..k :
            /\ Path(maze, pts, hd, T, k) /\ pts[k] = maze.finish
            /\ s = Append(T[k - 1], "F")
            /\ pos = pts[i] /\ heading = hd[i] /\ input = Len(T[i - 1])
      BY <3>0
    <3>2. PlayOK(maze, pts, hd, T, k, i)
      BY <1>2, <3>1, PlayFacts
    <3>3. i # k
      <4>1. ErrorAt(maze, pts[i], hd[i]) # Bar
        BY <3>1, <1>12, CodeFacts DEF error
      <4> QED BY <3>2, <4>1 DEF PlayOK
    <3>4. /\ i + 1 \in 1..k
          /\ Open(maze, pts[i], hd[i + 1]) /\ pts[i + 1] = Ahead(pts[i], hd[i + 1])
          /\ T[i] = T[i - 1] /\ hd[i + 1] = hd[i]
      BY <2>1, <3>1, <3>2, <3>3 DEF PlayOK
    <3>5. (i + 1) - 1 = i
      OBVIOUS
    <3>6. \E j \in 1..k : Ahead(pos, heading) = pts[j] /\ heading = hd[j] /\ input' = Len(T[j - 1])
      BY <3>1, <3>4, <3>5, <1>12
    <3>7. Playing(maze, Ahead(pos, heading), heading, input', s)
      BY <3>1, <3>6 DEF Playing
    <3> QED BY <3>1, <3>4, <3>7, <3>c DEF Following
  <2> QED BY <1>2, <1>3, <1>9, <1>12, <2>2
<1> QED BY <1>1, <1>10, <1>11, <1>12

(* Nothing happens. *)
LEMMA StutterInv == Inv /\ UNCHANGED vars => Inv'
<1> SUFFICES ASSUME Inv, UNCHANGED vars PROVE Inv'
  OBVIOUS
<1>1. /\ maze' = maze /\ mode' = mode /\ pos' = pos /\ heading' = heading /\ path' = path
      /\ input' = input /\ file' = file /\ savedFor' = savedFor /\ whole' = whole
  BY DEF vars, saved
<1>2. TypeOK'
  BY <1>1 DEF Inv, TypeOK
<1>3. AtMenu' /\ Exploring' /\ Saving' /\ FileOK' /\ Loaded' /\ OnRoute' /\ LostElsewhere'
  BY <1>1 DEF Inv, AtMenu, Exploring, Saving, FileOK, Loaded, OnRoute, LostElsewhere
<1> QED BY <1>2, <1>3 DEF Inv

(* The invariant holds in every state of every run of the program, in *)
(* every maze that is a tree.                                         *)
THEOREM Invariant == Spec => []Inv
<1>1. Inv /\ [Next]_vars => Inv'
  BY PressLeftHandInv, PressShortInv, GoLeftHandInv, WritePathInv, GoShortInv, PowerCycleInv, StutterInv DEF Next
<1> QED BY <1>1, InitInv, PTL DEF Spec

(* The array index, the array, the robot and the file keep their types:  *)
(* the robot never leaves the points of the maze, and input never passes *)
(* the end of path (inputTurn, readPath, GoShort).                       *)
THEOREM TypeCorrect == Spec => []TypeOK
<1>1. Inv => TypeOK
  BY DEF Inv
<1> QED BY <1>1, Invariant, PTL

(* The table of the routes. *)
LEMMA TableFacts ==
  ASSUME NEW m \in Mazes
  PROVE  /\ RouteTurnsOf[m] = RouteTurns(m)
         /\ RouteSetOf[m] = {Route(m)[i] : i \in DOMAIN Route(m)}
<1>1. RouteTurnsOf = [n \in Mazes |-> RouteTurns(n)]
  <2> DEFINE f == [n \in Mazes |-> RouteTurns(n)]
  <2> HIDE DEF f
  <2>1. Table(f) = f
    BY DEF Table
  <2> QED BY <2>1 DEF f, RouteTurnsOf
<1>2. RouteSetOf = [n \in Mazes |-> {Route(n)[i] : i \in DOMAIN Route(n)}]
  <2> DEFINE f == [n \in Mazes |-> {Route(n)[i] : i \in DOMAIN Route(n)}]
  <2> HIDE DEF f
  <2>1. Table(f) = f
    BY DEF Table
  <2> QED BY <2>1 DEF f, RouteSetOf
<1> QED BY <1>1, <1>2

(* Whatever the maze, the runs before and the length of the array, the    *)
(* file that shortestPath and writePath leave is the turn list of the one *)
(* simple route of the maze it was recorded in; the part that a loss of   *)
(* power leaves of it in writePath is the front of that list.             *)
THEOREM RecordIsTheRoute == Spec => []SavedPathIsTheRoute
<1>1. Inv => SavedPathIsTheRoute
  <2> SUFFICES ASSUME Inv, file # NoFile
               PROVE  /\ FrontOf(file, RouteTurnsOf[savedFor])
                      /\ whole => file = RouteTurnsOf[savedFor]
    BY DEF SavedPathIsTheRoute
  <2>1. savedFor \in Mazes /\ MazeOK(savedFor)
    BY MazeFacts DEF Inv, TypeOK
  <2>2. PICK s : Saved(s, savedFor) /\ Part(file, s) /\ (whole => file = s)
    BY DEF Inv, FileOK
  <2>3. PICK pts, hd, T, k : /\ Path(savedFor, pts, hd, T, k) /\ pts[k] = savedFor.finish
                             /\ s = Append(T[k - 1], "F")
    BY <2>2 DEF Saved
  <2>4. RouteTurns(savedFor) = Append(T[k - 1], "F")
    BY <2>1, <2>3, PathIsRoute
  <2>5. s = RouteTurnsOf[savedFor]
    BY <2>1, <2>3, <2>4, TableFacts
  <2> QED BY <2>2, <2>5 DEF Part
<1> QED BY <1>1, Invariant, PTL

(* A short run in the maze the file was recorded in stays on that route,  *)
(* as far as the file goes: intersectionSP turns the right way at every   *)
(* crossing of it.                                                        *)
THEOREM ReplayIsOnTheRoute == Spec => []ShortStaysOnRoute
<1>1. Inv => ShortStaysOnRoute
  <2> SUFFICES ASSUME Inv, mode \in {"short", "lost"}, savedFor = maze, file # NoFile,
                      whole \/ input <= Len(file)
               PROVE  mode = "short" /\ pos \in RouteSetOf[maze]
    BY DEF ShortStaysOnRoute
  <2>1. mode = "short"
    BY DEF Inv, LostElsewhere
  <2>2. maze \in Mazes /\ MazeOK(maze)
    BY MazeFacts DEF Inv, TypeOK
  <2>3. PICK pts, hd, T, k : /\ Path(maze, pts, hd, T, k) /\ pts[k] = maze.finish
                             /\ \E i \in 1..k : pos = pts[i]
    BY <2>1 DEF Inv, OnRoute, Following, Playing
  <2>4. k = Len(Route(maze)) /\ \E i \in 1..k : pos = Route(maze)[i]
    BY <2>2, <2>3, PathIsRoute
  <2>5. DOMAIN Route(maze) = 1..k
    <3>1. Route(maze) \in Seq(Grid)
      BY <2>2, RouteFacts DEF Ascent
    <3> QED BY <3>1, <2>4, LenProperties
  <2> QED BY <2>1, <2>2, <2>4, <2>5, TableFacts
<1> QED BY <1>1, Invariant, PTL

(* In any maze, GoShort reads path no further than the F of the string in *)
(* it, if the file was saved whole.                                       *)
THEOREM ReplayEnds == Spec => []ReplayStaysInString
<1>1. Inv => ReplayStaysInString
  BY DEF Inv, Loaded, ReplayStaysInString
<1> QED BY <1>1, Invariant, PTL
=============================================================================
