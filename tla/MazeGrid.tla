------------------------------ MODULE MazeGrid ------------------------------
(***************************************************************************)
(* The line mazes MazeGator drives through, as its program sees them.  A   *)
(* maze is a set of corridors between neighbouring grid points, the point  *)
(* and heading the robot is put down at, and the point that carries the    *)
(* finish pad.  The operators say what convertToErrorNumber returns for a  *)
(* robot standing on a point, and where a turn that rotates until the line *)
(* is centred again ends up.                                               *)
(***************************************************************************)
EXTENDS Integers, FiniteSets, Sequences

CONSTANTS
  Width, Height,      \* the grid the mazes are drawn on
  FinishColumns       \* the columns of it that may hold the finish

ASSUME GridAssumption == /\ Width \in Nat \ {0} /\ Height \in Nat \ {0}
                         /\ FinishColumns \subseteq 0..(Width - 1)

Headings == 0..3                 \* north, east, south, west

LeftOf(d)  == (d + 3) % 4
RightOf(d) == (d + 1) % 4
BackOf(d)  == (d + 2) % 4

Ahead(n, d) ==
  LET delta == << <<0, 1>>, <<1, 0>>, <<0, -1>>, <<-1, 0>> >>[d + 1]
  IN  <<n[1] + delta[1], n[2] + delta[2]>>

Open(m, n, d) == {n, Ahead(n, d)} \in m.corridors

(***************************************************************************)
(* The codes of convertToErrorNumber for a robot with both centre sensors  *)
(* on the line: a bar across all sensors (T, four-way or finish), a bar to *)
(* the right, a bar to the left, a plain line, and no line at all.         *)
(***************************************************************************)
Bar      == -30
RightBar == -20
LeftBar  == -10
Centred  == 0
NoLine   == 8

(* The code read when the robot arrives on the crossing itself. *)
ErrorAt(m, n, d) ==
  LET l == Open(m, n, LeftOf(d))
      r == Open(m, n, RightOf(d))
  IN  CASE n = m.finish \/ (l /\ r) -> Bar
        [] n # m.finish /\ l /\ ~r  -> LeftBar
        [] n # m.finish /\ r /\ ~l  -> RightBar
        [] OTHER -> IF Open(m, n, d) THEN Centred ELSE NoLine

\* Mutant of ErrorBeyond: creeping forward leaves the finish pad.
ErrorBeyond_PadMissed(m, n, d) ==
  IF Open(m, n, d) THEN Centred ELSE NoLine

(* The code read after creeping forward for 0.375 s, past the crossing: the *)
(* finish pad is large enough to still cover every sensor.                  *)
ErrorBeyond(m, n, d) ==
  IF n = m.finish THEN Bar
  ELSE IF Open(m, n, d) THEN Centred ELSE NoLine

(* The do/while loops after motor.left, motor.right and motor.uturn rotate *)
(* until convertToErrorNumber returns 0: the first corridor swept wins.    *)
FirstOpen(m, n, sweep) ==
  sweep[CHOOSE i \in DOMAIN sweep :
          /\ Open(m, n, sweep[i])
          /\ \A j \in 1..(i - 1) : ~Open(m, n, sweep[j])]

TurnLeft(m, n, d)  == FirstOpen(m, n, <<LeftOf(d), BackOf(d), RightOf(d), d>>)
TurnRight(m, n, d) == FirstOpen(m, n, <<RightOf(d), BackOf(d), LeftOf(d), d>>)
UTurn(m, n, d)     == FirstOpen(m, n, <<BackOf(d), RightOf(d), d, LeftOf(d)>>)

-----------------------------------------------------------------------------
(***************************************************************************)
(* Reference: the one simple route from start to finish in a tree maze.    *)
(***************************************************************************)
Points(m)        == UNION m.corridors
Neighbours(m, n) == {Ahead(n, d) : d \in {e \in Headings : Open(m, n, e)}}

(* Points at most k corridors away from the finish. *)
Within(m) ==
  LET reach[k \in 0..Cardinality(Points(m))] ==
        IF k = 0 THEN {m.finish}
        ELSE LET nearer == reach[k - 1]
             IN  nearer \cup UNION {Neighbours(m, p) : p \in nearer}
  IN  [k \in DOMAIN reach |-> reach[k]]

Distance(m) ==
  LET within == Within(m)
  IN  [p \in Points(m) |->
         CHOOSE k \in DOMAIN within :
           p \in within[k] /\ (k > 0 => p \notin within[k - 1])]

(* The point after p on the way to the finish. *)
Nearer(m, dist, p) == CHOOSE q \in Neighbours(m, p) : dist[q] < dist[p]

(* Points on the route, start and finish included. *)
Route(m) ==
  LET dist == Distance(m)
      walk[i \in 0..dist[m.start]] ==
        IF i = 0 THEN <<m.start>>
        ELSE LET w == walk[i - 1] IN Append(w, Nearer(m, dist, w[i]))
  IN  walk[dist[m.start]]

Turned(from, to) ==
  CASE to = LeftOf(from)  -> "L"
    [] to = RightOf(from) -> "R"
    [] to = BackOf(from)  -> "U"
    [] OTHER              -> "S"

Crossing(m, n, d) == ErrorAt(m, n, d) \in {Bar, RightBar, LeftBar}

(* What a robot that knows the route has to do at each point of it where   *)
(* the sensors report a crossing, and F at the finish.                     *)
RouteTurns(m) ==
  LET route == Route(m)
      dirOf(i) == CHOOSE d \in Headings : Ahead(route[i], d) = route[i + 1]
      facing(i) == IF i = 1 THEN m.facing ELSE dirOf(i - 1)
      turns[i \in 0..(Len(route) - 1)] ==
        IF i = 0 THEN <<>>
        ELSE IF Crossing(m, route[i], facing(i))
             THEN Append(turns[i - 1], Turned(facing(i), dirOf(i)))
             ELSE turns[i - 1]
  IN  Append(turns[Len(route) - 1], "F")

(***************************************************************************)
(* The mazes the program is meant for: the corridors form a tree, and the  *)
(* robot starts at the end of a corridor, facing into it.  Up to rotation  *)
(* the start is put in a corner of the grid; the finish is anywhere else   *)
(* in FinishColumns.                                                       *)
(***************************************************************************)
Grid == (0..(Width - 1)) \X (0..(Height - 1))

GridCorridors ==
  {{n, Ahead(n, d)} : n \in Grid, d \in {0, 1}} \cap SUBSET Grid

IsTreeMaze(m) ==
  /\ Cardinality(Points(m)) = Cardinality(m.corridors) + 1
  /\ Points(m) = Within(m)[Cardinality(Points(m))]
  /\ {d \in Headings : Open(m, m.start, d)} = {m.facing}

Spanning ==
  {c \in SUBSET GridCorridors :
     Cardinality(c) = Cardinality(Grid) - 1 /\ UNION c = Grid}

Mazes ==
  {m \in [corridors : Spanning, start : {<<0, 0>>}, facing : Headings,
          finish : {n \in Grid : n[1] \in FinishColumns} \ {<<0, 0>>}] :
     IsTreeMaze(m)}
=============================================================================
